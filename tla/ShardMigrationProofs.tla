------------------------ MODULE ShardMigrationProofs ------------------------
(***************************************************************************)
(* What holds of a shard that is moved into the store and back, for every  *)
(* set of commands, readers and records and logs of any length, whatever   *)
(* is killed and in whatever order the commands run.                       *)
(***************************************************************************)
EXTENDS ShardMigration, SequenceTheorems, FiniteSetTheorems,
        WellFoundedInduction, TLAPS

-----------------------------------------------------------------------------
(***************************************************************************)
(* The inductive invariant.  RecordsSomewhere is not inductive by itself:  *)
(* a step of a move may rely on what the step before it found, because the *)
(* command still has the store open, or the library lock, and nobody else  *)
(* can have changed the shard without one of them.                         *)
(***************************************************************************)
Inside == {"settling", "stored", "copy", "verify", "mark", "aside",
           "unstored", "fill", "switch"}
Locked == {"ready", "write", "written", "stored", "caughtup", "copy", "verify",
           "mark", "aside", "unstored", "fill", "switch", "unmark", "done"}

(* Who is in the store, or writes the library, has it to himself. *)
Holders == /\ \A p \in Commands : pc[p] \in Inside => store = p
           /\ \A p \in Commands : pc[p] \in Locked => lock = p

(* A command knows the library it opened and the record it appends, and    *)
(* has seen that the store has a row before it moves anything into it.     *)
Aware == /\ \A p \in Commands : pc[p] \in {"open", "ready"} => known[p] # None
         /\ \A p \in Commands :
                pc[p] \in {"write", "written", "stored"} => todo[p] # None
         /\ \A p \in Commands :
                pc[p] \in {"caughtup", "copy"} => row # None

(* What each stage of a move has established. *)
Stages == /\ \A p \in Commands :
                 pc[p] \in {"verify", "mark", "aside", "fill", "switch"}
                     => Primary
          /\ \A p \in Commands : pc[p] = "aside" => marked
          /\ \A p \in Commands : pc[p] \in {"fill", "switch"} => file # None
          /\ \A p \in Commands : pc[p] = "switch" => file = row.recs
          /\ \A p \in Commands : pc[p] = "unmark" => ~Primary

Inv == TypeOK /\ Holders /\ Aware /\ Stages /\ RecordsSomewhere


-----------------------------------------------------------------------------
(* Logs and what a reader of them gets. *)

Cells == Records \cup {Torn}

(* There is a first place: the places up to a number of the set, ordered   *)
(* by inclusion, are well-founded.                                         *)
LEMMA FirstPlace ==
    ASSUME NEW n \in Nat, NEW S \in SUBSET (0..n), S # {}
    PROVE  \E k \in S : \A j \in S : k <= j
  <1> DEFINE Below(k) == 0..k
             T == {Below(k) : k \in S}
             F == FiniteSubsetsOf(0..n)
             R == StrictSubsetOrdering(0..n)
  <1>1. IsWellFoundedOn(R, F)
    BY FS_StrictSubsetOrderingWellFounded
  <1>2. ASSUME NEW k \in S PROVE Below(k) \in F
    <2>1. k \in Int /\ 0..k \subseteq 0..n
      OBVIOUS
    <2>2. IsFiniteSet(0..k)
      BY <2>1, FS_Interval
    <2> QED
      BY <2>1, <2>2 DEF FiniteSubsetsOf
  <1>3. T \subseteq F /\ T # {}
    BY <1>2
  <1> HIDE DEF R, F
  <1>4. PICK B \in T : \A C \in T : ~(<<C, B>> \in R)
    <2> HIDE DEF T
    <2> QED
      BY <1>1, <1>3, WFMin
  <1>5. PICK k \in S : B = Below(k)
    BY <1>4
  <1>6. ASSUME NEW j \in S, ~(k <= j) PROVE FALSE
    <2>1. Below(j) \in T
      OBVIOUS
    <2>2. k \in Below(k) /\ k \notin Below(j)
      BY <1>6
    <2>3. /\ Below(j) \subseteq Below(k) /\ Below(j) # Below(k)
          /\ Below(j) \in SUBSET (0..n) /\ Below(k) \in SUBSET (0..n)
      BY <1>6, <2>2
    <2>4. <<Below(j), Below(k)>> \in R
      BY <2>3 DEF R, StrictSubsetOrdering
    <2> QED
      BY <1>4, <1>5, <2>1, <2>4
  <1> QED
    BY <1>5, <1>6

(* Every log has an end: where the first torn cell is, or the last cell.   *)
LEMMA EndOfLog ==
    ASSUME NEW f \in Seq(Cells)
    PROVE  End(f) \in 0..Len(f) /\ IsCut(f, End(f))
  <1> DEFINE S == {k \in 0..Len(f) : k < Len(f) => f[k + 1] = Torn}
  <1>1. Len(f) \in Nat
    BY LenProperties
  <1>2. S \in SUBSET (0..Len(f)) /\ S # {}
    <2>1. Len(f) \in S
      BY <1>1
    <2> QED
      BY <2>1
  <1>3. PICK n \in S : \A m \in S : n <= m
    <2> HIDE DEF S
    <2> QED
      BY <1>1, <1>2, FirstPlace
  <1>4. n \in 0..Len(f)
    BY <1>3
  <1>5. ASSUME NEW i \in 1..n PROVE f[i] # Torn
    <2>1. i - 1 \in 0..Len(f) /\ ~(n <= i - 1)
      BY <1>4, <1>1
    <2>2. i - 1 \notin S
      BY <2>1, <1>3
    <2> QED
      BY <2>1, <2>2, <1>4, <1>1
  <1>6. IsCut(f, n)
    BY <1>3, <1>4, <1>5 DEF IsCut
  <1> QED
    BY <1>4, <1>6 DEF End

(* What is read up to there are records, and the log begins with them.     *)
LEMMA ReadableRecords ==
    ASSUME NEW f \in Seq(Cells)
    PROVE  /\ Readable(f) \in Seq(Records)
           /\ Len(Readable(f)) = End(f)
           /\ \A i \in 1..End(f) : Readable(f)[i] = f[i]
  <1> DEFINE e == End(f)
  <1>1. e \in 0..Len(f) /\ IsCut(f, e) /\ Len(f) \in Nat
    BY EndOfLog, LenProperties
  <1>2. \A i \in 1..e : f[i] \in Records
    BY <1>1, ElementOfSeq DEF IsCut, Cells
  <1> HIDE DEF e
  <1>3. /\ SubSeq(f, 1, e) \in Seq(Records)
        /\ Len(SubSeq(f, 1, e)) = IF 1 <= e THEN e - 1 + 1 ELSE 0
        /\ \A i \in 1..(e - 1 + 1) : SubSeq(f, 1, e)[i] = f[1 + i - 1]
    BY <1>1, <1>2, SubSeqProperties
  <1>4. /\ Len(SubSeq(f, 1, e)) = e
        /\ \A i \in 1..e : SubSeq(f, 1, e)[i] = f[i]
    BY <1>1, <1>3
  <1> QED
    BY <1>3, <1>4 DEF Readable, e

(* A reader of a log gets all that the log begins with. *)
LEMMA RangeOfPrefix ==
    ASSUME NEW f \in Seq(Cells), NEW d \in Seq(Records), Describes(d, f)
    PROVE  Range(d) \subseteq Range(Readable(f))
  <1>1. /\ Len(d) \in Nat /\ Len(f) \in Nat
        /\ DOMAIN d = 1..Len(d)
        /\ \A i \in 1..Len(d) : d[i] \in Records
    BY LenProperties, ElementOfSeq
  <1>2. End(f) \in 0..Len(f) /\ IsCut(f, End(f))
    BY EndOfLog
  <1>3. Len(d) <= End(f)
    BY <1>1, <1>2, Roles DEF IsCut, Describes
  <1>4. /\ DOMAIN Readable(f) = 1..End(f)
        /\ \A i \in 1..End(f) : Readable(f)[i] = f[i]
    BY ReadableRecords, LenProperties
  <1>5. ASSUME NEW i \in 1..Len(d) PROVE d[i] \in Range(Readable(f))
    BY <1>1, <1>2, <1>3, <1>4 DEF Describes, Range
  <1> QED
    BY <1>1, <1>5 DEF Range

LEMMA RangeOfAppend ==
    ASSUME NEW d \in Seq(Records), NEW r \in Records
    PROVE  Range(d) \subseteq Range(Append(d, r))
  BY AppendProperties, LenProperties DEF Range

(* Records are cells, and a log written in part is still made of cells.    *)
LEMMA RecordsAreCells == Seq(Records) \subseteq Seq(Records \cup {Torn})
  BY SeqMonotonic

LEMMA BytesCells == TypeOK => Bytes \in Seq(Cells)
  BY EmptySeq DEF TypeOK, Bytes, Cells

LEMMA WholeRecords == TypeOK => Whole \in Seq(Records)
  BY BytesCells, ReadableRecords DEF Whole

LEMMA CutCells ==
    ASSUME TypeOK, NEW n \in Nat
    PROVE  CutAt(n) \in Seq(Cells)
  <1>1. Bytes \in Seq(Cells) /\ Len(Bytes) \in Nat
    BY BytesCells, LenProperties
  <1>2. \A i \in 1..n : (IF i <= Len(Bytes) THEN Bytes[i] ELSE Torn) \in Cells
    BY <1>1, ElementOfSeq DEF Cells
  <1> QED
    BY <1>2, IsASeq DEF CutAt

LEMMA PartCells ==
    ASSUME NEW d \in Seq(Records), NEW c \in PartOf(d)
    PROVE  c \in Seq(Cells)
  <1>1. PICK n \in 0..(Len(d) - 1) : \/ c = SubSeq(d, 1, n)
                                     \/ c = Append(SubSeq(d, 1, n), Torn)
    BY DEF PartOf
  <1>2. Len(d) \in Nat /\ n \in Nat /\ n <= Len(d)
    BY <1>1, LenProperties
  <1>3. \A i \in 1..n : d[i] \in Cells
    BY <1>2, ElementOfSeq DEF Cells
  <1>4. SubSeq(d, 1, n) \in Seq(Cells)
    BY <1>2, <1>3, SubSeqProperties
  <1>5. Append(SubSeq(d, 1, n), Torn) \in Seq(Cells)
    <2>1. Torn \in Cells
      BY DEF Cells
    <2> QED
      BY <1>4, <2>1, AppendProperties
  <1> QED
    BY <1>1, <1>4, <1>5

(* What a command writes is a record, and the log is there once it has.    *)
LEMMA WrittenCells ==
    ASSUME Inv, NEW p \in Commands, Write(p)
    PROVE  /\ Append(Bytes, todo[p]) \in Seq(Records \cup {Torn})
           /\ Append(Bytes, todo[p]) # None
  <1>1. todo[p] \in Cells
    BY DEF Inv, TypeOK, Aware, Write, Step, Cells
  <1>2. Bytes \in Seq(Cells)
    BY BytesCells DEF Inv
  <1>3. Append(Bytes, todo[p]) \in Seq(Cells)
    BY <1>1, <1>2, AppendProperties
  <1> QED
    BY <1>3, NothingIsThere DEF Cells

(* Catching up does not change where the records of a shard are. *)
LEMMA CaughtUpRow ==
    ASSUME TypeOK
    PROVE  CaughtUp \in Rows /\ (CaughtUp.primary <=> Primary)
  BY WholeRecords DEF TypeOK, CaughtUp, Rows, Primary

-----------------------------------------------------------------------------
(* Type correctness, an operation at a time. *)

LEMMA OpeningTypes ==
    ASSUME Inv, NEW p \in Commands, Opening(p)
    PROVE  TypeOK'
  <1> USE DEF Inv, TypeOK, disk, mind, others, Step, Goto, Places
  <1>1. CASE SkipSettle(p)
    BY <1>1 DEF SkipSettle
  <1>2. CASE BeginSettle(p)
    BY <1>2 DEF BeginSettle
  <1>3. CASE SettleBack(p)
    BY <1>3 DEF SettleBack, EndSettle, InMode, Rows, Abandons, Primary
  <1>4. CASE SettleRefused(p)
    BY <1>4 DEF SettleRefused, Fails, Leave, Exit
  <1>5. CASE SettleForward(p)
    BY <1>5 DEF SettleForward, EndSettle
  <1>6. CASE SettleUnmark(p)
    BY <1>6 DEF SettleUnmark, EndSettle
  <1>7. CASE SettleNothing(p)
    BY <1>7 DEF SettleNothing, EndSettle
  <1>8. CASE Look(p)
    BY <1>8 DEF Look
  <1>9. CASE ReadFile(p)
    <2>1. Whole \in Seq(Records)
      BY WholeRecords
    <2> QED
      BY <1>9, <2>1 DEF ReadFile, Knows, Libraries
  <1>10. CASE ReadStore(p)
    BY <1>10 DEF ReadStore, Knows, Primary, Libraries, Rows
  <1>11. CASE ReadRefused(p)
    BY <1>11 DEF ReadRefused, Fails, Leave, Exit
  <1>12. CASE Acquire(p)
    BY <1>12 DEF Acquire
  <1>13. CASE Close(p)
    BY <1>13 DEF Close, Fails, Leave, Exit
  <1> QED
    BY <1>1, <1>2, <1>3, <1>4, <1>5, <1>6, <1>7, <1>8, <1>9, <1>10, <1>11,
       <1>12, <1>13 DEF Opening

LEMMA AppendingTypes ==
    ASSUME Inv, NEW p \in Commands, Appending(p)
    PROVE  TypeOK'
  <1> USE DEF Inv, TypeOK, disk, mind, others, Step, Goto, Places
  <1>1. CASE \E r \in Records : AppendKnown(p, r)
    BY <1>1 DEF AppendKnown, Acknowledge
  <1>2. CASE \E r \in Records : BeginAppend(p, r)
    <2>1. PICK r \in Records : BeginAppend(p, r)
      BY <1>2
    <2>2. Len(known[p].recs) \in Nat
      BY <2>1, LenProperties DEF Inv, Aware, BeginAppend, Libraries
    <2>3. CutAt(Len(known[p].recs)) \in Seq(Records \cup {Torn})
      BY <2>2, CutCells DEF Cells
    <2>4. Bytes \in Seq(Records \cup {Torn})
      BY BytesCells DEF Cells
    <2> QED
      BY <2>1, <2>3, <2>4 DEF BeginAppend
  <1>3. CASE \E r \in Records : AppendStored(p, r)
    <2>1. PICK r \in Records : AppendStored(p, r)
      BY <1>3
    <2>2. Append(row.recs, r) \in Seq(Records)
      BY <2>1, AppendProperties DEF AppendStored, Primary, Rows
    <2> QED
      BY <2>1, <2>2 DEF AppendStored, Primary, Rows
  <1>4. CASE \E r \in Records : AppendRefused(p, r)
    BY <1>4 DEF AppendRefused, Fails, Leave, Exit
  <1>5. CASE Write(p)
    <2>1. Append(Bytes, todo[p]) \in Seq(Records \cup {Torn})
      BY <1>5, WrittenCells
    <2> QED
      BY <1>5, <2>1 DEF Write
  <1>6. CASE Written(p)
    <2>1. todo[p] \in Records
      BY <1>6 DEF Inv, Aware, Written
    <2> QED
      BY <1>6, <2>1 DEF Written, Acknowledge
  <1> QED
    BY <1>1, <1>2, <1>3, <1>4, <1>5, <1>6 DEF Appending

LEMMA MovingTypes ==
    ASSUME Inv, NEW p \in Commands, Moving(p)
    PROVE  TypeOK'
  <1> USE DEF Inv, TypeOK, disk, mind, others, Step, Goto, Places
  <1>1. CASE CatchUp(p)
    <2>1. CaughtUp \in Rows
      BY CaughtUpRow
    <2> QED
      BY <1>1, <2>1 DEF CatchUp
  <1>2. CASE HoldStore(p)
    BY <1>2 DEF HoldStore
  <1>3. CASE MoveRefused(p)
    BY <1>3 DEF MoveRefused, Fails, Leave, Exit
  <1>4. CASE MakePrimary(p)
    <2>1. Whole \in Seq(Records) /\ row \in Rows
      BY <1>4, WholeRecords DEF Inv, Aware, MakePrimary
    <2> QED
      BY <1>4, <2>1 DEF MakePrimary, Original, InMode, Rows
  <1>5. CASE CopyRefused(p)
    BY <1>5 DEF CopyRefused, Fails, Leave, Exit
  <1>6. CASE Verify(p)
    BY <1>6 DEF Verify
  <1>7. CASE Disagrees(p)
    <2>1. row \in Rows
      BY <1>7 DEF Inv, Stages, Primary, Disagrees
    <2> QED
      BY <1>7, <2>1 DEF Disagrees, Leave, Exit, InMode, Rows
  <1>8. CASE Mark(p)
    BY <1>8 DEF Mark
  <1>9. CASE SetAside(p)
    BY <1>9 DEF SetAside
  <1>10. CASE NothingAside(p)
    BY <1>10 DEF NothingAside, Fails, Leave, Exit
  <1> QED
    BY <1>1, <1>2, <1>3, <1>4, <1>5, <1>6, <1>7, <1>8, <1>9, <1>10 DEF Moving

LEMMA MovingBackTypes ==
    ASSUME Inv, NEW p \in Commands, MovingBack(p)
    PROVE  TypeOK'
  <1> USE DEF Inv, TypeOK, disk, mind, others, Step, Goto, Places
  <1>1. CASE TakeBack(p)
    BY <1>1 DEF TakeBack
  <1>2. CASE NotStored(p)
    BY <1>2 DEF NotStored
  <1>3. CASE CreateLog(p)
    BY <1>3, EmptySeq DEF CreateLog
  <1>4. CASE LogExists(p)
    BY <1>4 DEF LogExists, Fails, Leave, Exit
  <1>5. CASE Fill(p)
    <2>1. row.recs \in Seq(Records \cup {Torn})
      BY <1>5, RecordsAreCells DEF Inv, Stages, Primary, Fill, Rows
    <2> QED
      BY <1>5, <2>1 DEF Fill
  <1>6. CASE Switch(p)
    <2>1. row \in Rows
      BY <1>6 DEF Inv, Stages, Primary, Switch
    <2> QED
      BY <1>6, <2>1 DEF Switch, InMode, Rows
  <1>7. CASE Unmark(p)
    BY <1>7 DEF Unmark
  <1>8. CASE NoMarker(p)
    BY <1>8 DEF NoMarker, Fails, Leave, Exit
  <1> QED
    BY <1>1, <1>2, <1>3, <1>4, <1>5, <1>6, <1>7, <1>8 DEF MovingBack

-----------------------------------------------------------------------------
(* The rest of the invariant: a step of a command changes the shard only   *)
(* while it has the store or the library lock, which no other command then *)
(* has, and leaves the shard as the next step of it expects.               *)

LEMMA OpeningGuarded ==
    ASSUME Inv, NEW p \in Commands, Opening(p)
    PROVE  Holders' /\ Aware' /\ Stages' /\ RecordsSomewhere'
  <1> USE DEF Inv, Holders, Inside, Locked, Aware, Stages, RecordsSomewhere,
     Primary, TypeOK, disk, mind, others, Step, Goto
  <1>1. CASE SkipSettle(p)
    BY <1>1 DEF SkipSettle
  <1>2. CASE BeginSettle(p)
    BY <1>2, Roles DEF BeginSettle, Held
  <1>3. CASE SettleBack(p)
    BY <1>3, NothingIsThere DEF SettleBack, EndSettle, InMode, Abandons, Rows
  <1>4. CASE SettleRefused(p)
    BY <1>4 DEF SettleRefused, Fails, Leave, Exit
  <1>5. CASE SettleForward(p)
    BY <1>5 DEF SettleForward, EndSettle
  <1>6. CASE SettleUnmark(p)
    BY <1>6 DEF SettleUnmark, EndSettle
  <1>7. CASE SettleNothing(p)
    BY <1>7 DEF SettleNothing, EndSettle
  <1>8. CASE Look(p)
    BY <1>8 DEF Look
  <1>9. CASE ReadFile(p)
    <2>1. Whole \in Seq(Records)
      BY BytesCells, ReadableRecords DEF Whole
    <2>2. known'[p] \in Libraries
      BY <1>9, <2>1 DEF ReadFile, Knows, Libraries
    <2> QED
      BY <1>9, <2>2, NothingIsThere DEF ReadFile, Knows
  <1>10. CASE ReadStore(p)
    <2>1. known'[p] \in Libraries
      BY <1>10 DEF ReadStore, Knows, Libraries, Rows
    <2> QED
      BY <1>10, <2>1, NothingIsThere DEF ReadStore, Knows
  <1>11. CASE ReadRefused(p)
    BY <1>11 DEF ReadRefused, Fails, Leave, Exit
  <1>12. CASE Acquire(p)
    BY <1>12, Roles DEF Acquire
  <1>13. CASE Close(p)
    BY <1>13 DEF Close, Fails, Leave, Exit
  <1> QED
    BY <1>1, <1>2, <1>3, <1>4, <1>5, <1>6, <1>7, <1>8, <1>9, <1>10, <1>11,
       <1>12, <1>13 DEF Opening

LEMMA AppendingGuarded ==
    ASSUME Inv, NEW p \in Commands, Appending(p)
    PROVE  Holders' /\ Aware' /\ Stages' /\ RecordsSomewhere'
  <1> USE DEF Inv, Holders, Inside, Locked, Aware, Stages, RecordsSomewhere,
     Primary, TypeOK, disk, mind, others, Step, Goto
  <1>1. CASE \E r \in Records : AppendKnown(p, r)
    BY <1>1 DEF AppendKnown, Acknowledge
  <1>2. CASE \E r \in Records : BeginAppend(p, r)
    <2>1. PICK r \in Records : BeginAppend(p, r)
      BY <1>2
    <2>2. Len(known[p].recs) \in Nat
      BY <2>1, LenProperties DEF BeginAppend, Libraries
    <2>3. CutAt(Len(known[p].recs)) # None /\ Bytes # None
      BY <2>2, CutCells, BytesCells, NothingIsThere DEF Cells
    <2>4. file' # None
      BY <2>1, <2>3 DEF BeginAppend
    <2> QED
      BY <2>1, <2>4, NothingIsThere DEF BeginAppend
  <1>3. CASE \E r \in Records : AppendStored(p, r)
    <2>1. PICK r \in Records : AppendStored(p, r)
      BY <1>3
    <2>2. row' \in Rows /\ row'.primary
      <3>1. Append(row.recs, r) \in Seq(Records)
        BY <2>1, AppendProperties DEF AppendStored, Rows
      <3> QED
        BY <2>1, <3>1 DEF AppendStored, Rows
    <2> QED
      BY <2>1, <2>2, Roles, NothingIsThere DEF AppendStored, Held
  <1>4. CASE \E r \in Records : AppendRefused(p, r)
    BY <1>4 DEF AppendRefused, Fails, Leave, Exit
  <1>5. CASE Write(p)
    <2>1. Append(Bytes, todo[p]) # None
      BY <1>5, WrittenCells
    <2> QED
      BY <1>5, <2>1 DEF Write
  <1>6. CASE Written(p)
    BY <1>6 DEF Written, Acknowledge
  <1> QED
    BY <1>1, <1>2, <1>3, <1>4, <1>5, <1>6 DEF Appending

LEMMA MovingGuarded ==
    ASSUME Inv, NEW p \in Commands, Moving(p)
    PROVE  Holders' /\ Aware' /\ Stages' /\ RecordsSomewhere'
  <1> USE DEF Inv, Holders, Inside, Locked, Aware, Stages, RecordsSomewhere,
     Primary, TypeOK, disk, mind, others, Step, Goto
  <1>1. CASE CatchUp(p)
    BY <1>1, CaughtUpRow, NothingIsThere DEF CatchUp, Held
  <1>2. CASE HoldStore(p)
    BY <1>2, Roles DEF HoldStore, Held
  <1>3. CASE MoveRefused(p)
    BY <1>3 DEF MoveRefused, Fails, Leave, Exit
  <1>4. CASE MakePrimary(p)
    BY <1>4, NothingIsThere DEF MakePrimary, InMode, Copies, FileMatches, Rows
  <1>5. CASE CopyRefused(p)
    BY <1>5 DEF CopyRefused, Fails, Leave, Exit
  <1>6. CASE Verify(p)
    BY <1>6 DEF Verify
  <1>7. CASE Disagrees(p)
    BY <1>7 DEF Disagrees, Leave, Exit, InMode, FileMatches, Rows
  <1>8. CASE Mark(p)
    BY <1>8 DEF Mark
  <1>9. CASE SetAside(p)
    BY <1>9 DEF SetAside
  <1>10. CASE NothingAside(p)
    BY <1>10 DEF NothingAside, Fails, Leave, Exit
  <1> QED
    BY <1>1, <1>2, <1>3, <1>4, <1>5, <1>6, <1>7, <1>8, <1>9, <1>10 DEF Moving

LEMMA MovingBackGuarded ==
    ASSUME Inv, NEW p \in Commands, MovingBack(p)
    PROVE  Holders' /\ Aware' /\ Stages' /\ RecordsSomewhere'
  <1> USE DEF Inv, Holders, Inside, Locked, Aware, Stages, RecordsSomewhere,
     Primary, TypeOK, disk, mind, others, Step, Goto
  <1>1. CASE TakeBack(p)
    BY <1>1, Roles DEF TakeBack, Held
  <1>2. CASE NotStored(p)
    BY <1>2 DEF NotStored
  <1>3. CASE CreateLog(p)
    <2>1. <<>> # None
      BY EmptySeq, NothingIsThere
    <2>2. /\ Holders' /\ Aware'
      BY <1>3 DEF CreateLog
    <2>3. /\ Stages' /\ RecordsSomewhere'
      BY <1>3, <2>1 DEF CreateLog
    <2> QED
      BY <2>2, <2>3
  <1>4. CASE LogExists(p)
    BY <1>4 DEF LogExists, Fails, Leave, Exit
  <1>5. CASE Fill(p)
    <2>1. row.recs # None
      BY <1>5, RecordsAreCells, NothingIsThere DEF Fill, Rows
    <2> QED
      BY <1>5, <2>1 DEF Fill
  <1>6. CASE Switch(p)
    BY <1>6 DEF Switch, InMode, Rows
  <1>7. CASE Unmark(p)
    BY <1>7 DEF Unmark
  <1>8. CASE NoMarker(p)
    BY <1>8 DEF NoMarker, Fails, Leave, Exit
  <1> QED
    BY <1>1, <1>2, <1>3, <1>4, <1>5, <1>6, <1>7, <1>8 DEF MovingBack

-----------------------------------------------------------------------------
(* What is in a marked primary shard is still read after the next step.    *)

LEMMA OpeningKeeps ==
    ASSUME Inv, Primary, marked, NEW p \in Commands, Opening(p)
    PROVE  Range(row.recs) \subseteq Range(Settled')
  <1>a. TypeOK
    BY DEF Inv
  <1> USE <1>a DEF TypeOK, Primary, Settled, disk, mind, others, Step, Goto
  <1>1. CASE SkipSettle(p)
    BY <1>1 DEF SkipSettle
  <1>2. CASE BeginSettle(p)
    BY <1>2 DEF BeginSettle
  <1>3. CASE SettleBack(p)
    BY <1>3 DEF SettleBack, EndSettle, InMode, Abandons
  <1>4. CASE SettleRefused(p)
    BY <1>4 DEF SettleRefused, Fails, Leave, Exit
  <1>5. CASE SettleForward(p)
    BY <1>5 DEF SettleForward, EndSettle
  <1>6. CASE SettleUnmark(p)
    BY <1>6 DEF SettleUnmark, EndSettle
  <1>7. CASE SettleNothing(p)
    BY <1>7 DEF SettleNothing, EndSettle
  <1>8. CASE Look(p)
    BY <1>8 DEF Look
  <1>9. CASE ReadFile(p)
    BY <1>9 DEF ReadFile, Knows
  <1>10. CASE ReadStore(p)
    BY <1>10 DEF ReadStore, Knows
  <1>11. CASE ReadRefused(p)
    BY <1>11 DEF ReadRefused, Fails, Leave, Exit
  <1>12. CASE Acquire(p)
    BY <1>12 DEF Acquire
  <1>13. CASE Close(p)
    BY <1>13 DEF Close, Fails, Leave, Exit
  <1> QED
    BY <1>1, <1>2, <1>3, <1>4, <1>5, <1>6, <1>7, <1>8, <1>9, <1>10, <1>11,
       <1>12, <1>13 DEF Opening

LEMMA AppendingKeeps ==
    ASSUME Inv, Primary, marked, NEW p \in Commands, Appending(p)
    PROVE  Range(row.recs) \subseteq Range(Settled')
  <1>a. TypeOK
    BY DEF Inv
  <1> USE <1>a DEF TypeOK, Primary, Settled, disk, mind, others, Step, Goto
  <1>1. CASE \E r \in Records : AppendKnown(p, r)
    BY <1>1 DEF AppendKnown, Acknowledge
  <1>2. CASE \E r \in Records : BeginAppend(p, r)
    BY <1>2 DEF BeginAppend
  <1>3. CASE \E r \in Records : AppendStored(p, r)
    <2>1. PICK r \in Records : AppendStored(p, r)
      BY <1>3
    <2>2. /\ row.recs \in Seq(Records)
          /\ row' = [row EXCEPT !.recs = Append(row.recs, r), !.chained = TRUE]
          /\ marked'
      BY <2>1 DEF AppendStored, Rows
    <2>3. /\ row' \in Rows /\ row'.primary
          /\ row'.recs = Append(row.recs, r)
      <3>1. Append(row.recs, r) \in Seq(Records)
        BY <2>2, AppendProperties
      <3> QED
        BY <2>2, <3>1 DEF Rows
    <2>4. Settled' = Append(row.recs, r)
      BY <2>2, <2>3, NothingIsThere DEF Settled
    <2> QED
      BY <2>2, <2>4, RangeOfAppend
  <1>4. CASE \E r \in Records : AppendRefused(p, r)
    BY <1>4 DEF AppendRefused, Fails, Leave, Exit
  <1>5. CASE Write(p)
    BY <1>5 DEF Write
  <1>6. CASE Written(p)
    BY <1>6 DEF Written, Acknowledge
  <1> QED
    BY <1>1, <1>2, <1>3, <1>4, <1>5, <1>6 DEF Appending

LEMMA MovingKeeps ==
    ASSUME Inv, Primary, marked, NEW p \in Commands, Moving(p)
    PROVE  Range(row.recs) \subseteq Range(Settled')
  <1>a. TypeOK
    BY DEF Inv
  <1> USE <1>a DEF TypeOK, Primary, Settled, disk, mind, others, Step, Goto
  <1>1. CASE CatchUp(p)
    BY <1>1 DEF CatchUp, CaughtUp
  <1>2. CASE HoldStore(p)
    BY <1>2 DEF HoldStore
  <1>3. CASE MoveRefused(p)
    BY <1>3 DEF MoveRefused, Fails, Leave, Exit
  <1>4. CASE MakePrimary(p)
    BY <1>4 DEF MakePrimary, InMode
  <1>5. CASE CopyRefused(p)
    BY <1>5 DEF CopyRefused, Fails, Leave, Exit
  <1>6. CASE Verify(p)
    BY <1>6 DEF Verify
  <1>7. CASE Disagrees(p)
    <2>1. CASE FileMatches
      <3>1. row' = InMode(FALSE) /\ UNCHANGED file
        BY <1>7, <2>1 DEF Disagrees
      <3>2. Settled' = Whole
        BY <3>1 DEF Settled, InMode, Rows, Whole, Bytes
      <3>3. row.recs \in Seq(Records) /\ Describes(row.recs, Bytes)
        BY <2>1 DEF FileMatches, Rows, Bytes
      <3> QED
        BY <3>2, <3>3, BytesCells, RangeOfPrefix DEF Whole
    <2>2. CASE ~FileMatches
      BY <1>7, <2>2 DEF Disagrees, Leave, Exit, Settled
    <2> QED
      BY <2>1, <2>2
  <1>8. CASE Mark(p)
    BY <1>8 DEF Mark
  <1>9. CASE SetAside(p)
    BY <1>9 DEF SetAside
  <1>10. CASE NothingAside(p)
    BY <1>10 DEF NothingAside, Fails, Leave, Exit
  <1> QED
    BY <1>1, <1>2, <1>3, <1>4, <1>5, <1>6, <1>7, <1>8, <1>9, <1>10 DEF Moving

LEMMA MovingBackKeeps ==
    ASSUME Inv, Primary, marked, NEW p \in Commands, MovingBack(p)
    PROVE  Range(row.recs) \subseteq Range(Settled')
  <1>a. TypeOK
    BY DEF Inv
  <1> USE <1>a DEF TypeOK, Primary, Settled, disk, mind, others, Step, Goto
  <1>1. CASE TakeBack(p)
    BY <1>1 DEF TakeBack
  <1>2. CASE NotStored(p)
    BY <1>2 DEF NotStored
  <1>3. CASE CreateLog(p)
    BY <1>3 DEF CreateLog
  <1>4. CASE LogExists(p)
    BY <1>4 DEF LogExists, Fails, Leave, Exit
  <1>5. CASE Fill(p)
    BY <1>5 DEF Fill
  <1>6. CASE Switch(p)
    <2>1. file = row.recs /\ row.recs \in Seq(Records)
      BY <1>6 DEF Inv, Stages, Switch, Rows
    <2>2. Settled' = Whole
      BY <1>6 DEF Switch, Settled, InMode, Rows, Whole, Bytes
    <2>3. Describes(row.recs, Bytes)
      BY <1>6, <2>1, LenProperties DEF Inv, Stages, Switch, Bytes, Describes
    <2> QED
      BY <2>1, <2>2, <2>3, BytesCells, RangeOfPrefix DEF Whole
  <1>7. CASE Unmark(p)
    BY <1>7 DEF Unmark, Inv, Stages
  <1>8. CASE NoMarker(p)
    BY <1>8 DEF NoMarker, Fails, Leave, Exit
  <1> QED
    BY <1>1, <1>2, <1>3, <1>4, <1>5, <1>6, <1>7, <1>8 DEF MovingBack

-----------------------------------------------------------------------------
(* A command that starts, ends or is killed, and the readers.              *)

(* A killed command leaves a log where there was one, in part if it was in *)
(* the middle of writing it.                                               *)
LEMMA KilledFile ==
    ASSUME Inv, NEW p \in Commands, Kill(p)
    PROVE  /\ file' \in {None} \cup Seq(Cells)
           /\ file # None => file' # None
           /\ pc[p] \notin {"write", "fill"} => file' = file
  <1>1. file' \in Left(p)
    BY DEF Kill
  <1>2. CASE file' = file
    BY <1>2 DEF Inv, TypeOK, Cells
  <1>3. CASE pc[p] = "write" /\ file' = Append(Bytes, Torn)
    <2>1. file' \in Seq(Cells)
      BY <1>3, BytesCells, AppendProperties DEF Inv, Cells
    <2> QED
      BY <1>3, <2>1, NothingIsThere DEF Cells
  <1>4. CASE pc[p] = "fill" /\ file' \in PartOf(row.recs)
    <2>1. row.recs \in Seq(Records)
      BY <1>4 DEF Inv, TypeOK, Stages, Primary, Rows
    <2>2. file' \in Seq(Cells)
      BY <1>4, <2>1, PartCells
    <2> QED
      BY <1>4, <2>2, NothingIsThere DEF Cells
  <1> QED
    BY <1>1, <1>2, <1>3, <1>4 DEF Left

LEMMA CommandStep ==
    ASSUME Inv, NEW p \in Commands, Start(p) \/ Finish(p) \/ Kill(p)
    PROVE  Inv'
  <1> USE DEF Inv, TypeOK, disk, mind, others
  <1>1. CASE Start(p)
    <2>1. TypeOK'
      BY <1>1 DEF Start, Step, Goto, Places
    <2>2. Holders' /\ Aware' /\ Stages' /\ RecordsSomewhere'
      BY <1>1 DEF Start, Step, Goto, Holders, Inside, Locked, Aware, Stages,
         Primary, RecordsSomewhere
    <2> QED
      BY <2>1, <2>2
  <1>2. CASE Finish(p)
    <2>1. TypeOK'
      BY <1>2 DEF Finish, Fails, Leave, Exit, Goto, Places
    <2>2. Holders' /\ Aware' /\ Stages' /\ RecordsSomewhere'
      BY <1>2 DEF Finish, Fails, Leave, Exit, Goto, Holders, Inside, Locked,
         Aware, Stages, Primary, RecordsSomewhere
    <2> QED
      BY <2>1, <2>2
  <1>3. CASE Kill(p)
    <2>1. TypeOK'
      BY <1>3, KilledFile DEF Kill, Exit, Goto, Places, Cells
    <2>2. Holders' /\ Aware'
      BY <1>3 DEF Kill, Exit, Goto, Holders, Inside, Locked, Aware
    <2>3. Stages' /\ RecordsSomewhere'
      BY <1>3, KilledFile DEF Kill, Exit, Goto, Holders, Locked, Stages,
         Primary, RecordsSomewhere
    <2> QED
      BY <2>1, <2>2, <2>3
  <1> QED
    BY <1>1, <1>2, <1>3

LEMMA ReaderStep ==
    ASSUME Inv, NEW h \in Readers,
           OpenStore(h) \/ OpenLog(h) \/ CloseReader(h)
    PROVE  Inv'
  <1> USE DEF Inv, TypeOK, disk, mind, Answers
  <1>1. CASE OpenStore(h)
    <2>1. CaughtUp \in Rows /\ (CaughtUp.primary <=> Primary)
      BY CaughtUpRow
    <2>2. row' \in Rows /\ (Primary' <=> Primary)
      BY <1>1, <2>1, NothingIsThere DEF OpenStore, Primary
    <2>3. TypeOK'
      BY <1>1, <2>1 DEF OpenStore, Rows
    <2>4. Holders' /\ Aware'
      BY <1>1, <2>2, Roles, NothingIsThere DEF OpenStore, Held, Holders,
         Inside, Locked, Aware
    <2>5. \A p \in Commands : pc[p] \notin Inside
      BY <1>1, Roles DEF OpenStore, Held, Holders
    <2>6. Stages' /\ RecordsSomewhere'
      BY <1>1, <2>2, <2>5 DEF OpenStore, Inside, Stages, RecordsSomewhere
    <2> QED
      BY <2>3, <2>4, <2>6
  <1>2. CASE OpenLog(h)
    <2>1. TypeOK'
      BY <1>2, WholeRecords DEF OpenLog
    <2> QED
      BY <1>2, <2>1 DEF OpenLog, Holders, Aware, Stages, Primary,
         RecordsSomewhere
  <1>3. CASE CloseReader(h)
    <2>1. TypeOK'
      BY <1>3 DEF CloseReader
    <2>2. Holders'
      BY <1>3, Roles DEF CloseReader, Holders
    <2> QED
      BY <1>3, <2>1, <2>2 DEF CloseReader, Aware, Stages, Primary,
         RecordsSomewhere
  <1> QED
    BY <1>1, <1>2, <1>3

LEMMA NextInv ==
    ASSUME Inv, [Next]_vars
    PROVE  Inv'
  <1>1. CASE UNCHANGED vars
    BY <1>1 DEF Inv, vars, disk, TypeOK, Holders, Aware, Stages, Primary,
       RecordsSomewhere
  <1>2. ASSUME NEW p \in Commands, Opening(p) PROVE Inv'
    BY <1>2, OpeningTypes, OpeningGuarded DEF Inv
  <1>3. ASSUME NEW p \in Commands, Appending(p) PROVE Inv'
    BY <1>3, AppendingTypes, AppendingGuarded DEF Inv
  <1>4. ASSUME NEW p \in Commands, Moving(p) PROVE Inv'
    BY <1>4, MovingTypes, MovingGuarded DEF Inv
  <1>5. ASSUME NEW p \in Commands, MovingBack(p) PROVE Inv'
    BY <1>5, MovingBackTypes, MovingBackGuarded DEF Inv
  <1>6. ASSUME NEW p \in Commands, Start(p) \/ Finish(p) \/ Kill(p) PROVE Inv'
    BY <1>6, CommandStep
  <1>7. ASSUME NEW h \in Readers, OpenStore(h) \/ OpenLog(h) \/ CloseReader(h)
        PROVE  Inv'
    BY <1>7, ReaderStep
  <1>8. CASE BreakLock
    BY <1>8, Roles DEF BreakLock, Inv, disk, mind, others, TypeOK, Holders,
       Aware, Stages, Primary, RecordsSomewhere
  <1> QED
    BY <1>1, <1>2, <1>3, <1>4, <1>5, <1>6, <1>7, <1>8 DEF Next, Run

LEMMA InitInv == Init => Inv
  BY DEF Init, Inv, TypeOK, Places, Holders, Inside, Locked, Aware, Stages,
     Primary, RecordsSomewhere

-----------------------------------------------------------------------------
(* Theorems of the specification. *)

THEOREM InvAlways == Spec => []Inv
  <1>1. Init => Inv
    BY InitInv
  <1>2. Inv /\ [Next]_vars => Inv'
    BY NextInv
  <1> QED
    BY <1>1, <1>2, PTL DEF Spec

(* Every variable has its type: the logs are cells, the rows hold records, *)
(* whatever is cut, killed or copied (library.rs, shards.rs, primary.rs).  *)
THEOREM TypesHold == Spec => []TypeOK
  <1>1. Inv => TypeOK
    BY DEF Inv
  <1> QED
    BY <1>1, InvAlways, PTL

(* A shard's records are always in the store under its marker, or there is *)
(* a log (library.rs `settle_migrations`, primary.rs `make_primary`).      *)
THEOREM NeverNowhere == Spec => []RecordsSomewhere
  <1>1. Inv => RecordsSomewhere
    BY DEF Inv
  <1> QED
    BY <1>1, InvAlways, PTL

(* No step, of any command or reader and whatever the others are in the    *)
(* middle of, loses a record of a marked primary shard (primary.rs         *)
(* `make_index`, `abandon_primary`; library.rs `settle_migrations`).       *)
THEOREM PrimaryKept == Spec => StoredKept
  <1>1. ASSUME Inv, [Next]_vars, Primary, marked
        PROVE  Range(row.recs) \subseteq Range(Settled')
    <2>1. CASE UNCHANGED <<marked, row>>
      BY <1>1, <2>1 DEF Settled, Primary
    <2>2. ASSUME NEW p \in Commands, Opening(p)
          PROVE  Range(row.recs) \subseteq Range(Settled')
      BY <1>1, <2>2, OpeningKeeps
    <2>3. ASSUME NEW p \in Commands, Appending(p)
          PROVE  Range(row.recs) \subseteq Range(Settled')
      BY <1>1, <2>3, AppendingKeeps
    <2>4. ASSUME NEW p \in Commands, Moving(p)
          PROVE  Range(row.recs) \subseteq Range(Settled')
      BY <1>1, <2>4, MovingKeeps
    <2>5. ASSUME NEW p \in Commands, MovingBack(p)
          PROVE  Range(row.recs) \subseteq Range(Settled')
      BY <1>1, <2>5, MovingBackKeeps
    <2>6. ASSUME NEW p \in Commands, Start(p) \/ Finish(p) \/ Kill(p)
          PROVE  UNCHANGED <<marked, row>>
      BY <2>6 DEF Start, Finish, Kill, Fails, disk
    <2>7. ASSUME NEW h \in Readers,
                 OpenStore(h) \/ OpenLog(h) \/ CloseReader(h)
          PROVE  UNCHANGED <<marked, row>>
      BY <1>1, <2>7 DEF OpenStore, OpenLog, CloseReader, disk, CaughtUp
    <2>8. CASE BreakLock
      BY <2>1, <2>8 DEF BreakLock, disk
    <2> QED
      BY <1>1, <2>1, <2>2, <2>3, <2>4, <2>5, <2>6, <2>7, <2>8
         DEF Next, Run, vars, disk
  <1> QED
    BY <1>1, InvAlways, PTL DEF StoredKept, Spec

-----------------------------------------------------------------------------
(***************************************************************************)
(* One command at a time.  A command that has the library to itself knows  *)
(* the shard as it is, from its open to its exit: the readers beside it do *)
(* no more than bring the store up to the log.                             *)
(***************************************************************************)
OneCommand == \A p, q \in Commands : p = q

Once(s) == \A i, j \in 1..Len(s) : s[i] = s[j] => i = j

(* Where a command is tells whether the shard is marked. *)
Located(p) ==
    /\ pc[p] = "file" => ~marked
    /\ pc[p] = "wait" => marked
    /\ pc[p] \in {"open", "ready", "caughtup"} =>
          known[p] # None /\ (known[p].primary <=> marked)
    /\ pc[p] \in {"write", "copy", "verify", "mark"} => ~marked
    /\ pc[p] \in {"unstored", "fill", "switch"} => marked

(* What it read is what there is to read. *)
HasRead(p) ==
    pc[p] \in {"open", "ready"} =>
       /\ known[p].recs = Settled
       /\ ~marked => (known[p].torn <=> Len(Whole) < Len(Bytes))

(* It writes what is not there yet, and at the end of the log. *)
Writes(p) ==
    /\ pc[p] = "write" => Whole = Bytes /\ todo[p] \notin Range(Settled)
    /\ pc[p] \in {"written", "stored"} => todo[p] \in Range(Settled)

(* It has compared what it copied with the log as it still is. *)
HasCopied(p) ==
    /\ pc[p] \in {"verify", "mark"} => before[p] = Whole
    /\ pc[p] = "mark" => Range(Whole) = Range(row.recs)

SInv == /\ SettleLosesNothing /\ Once(Settled) /\ acked \subseteq Range(Settled)
        /\ \A p \in Commands : Located(p) /\ HasRead(p) /\ Writes(p) /\ HasCopied(p)

(* A log is read up to the torn bytes behind what is read. *)
LEMMA ReadUpTo ==
    ASSUME NEW f \in Seq(Cells), NEW d \in Seq(Records), Describes(d, f),
           Len(d) < Len(f) => f[Len(d) + 1] = Torn
    PROVE  Readable(f) = d
  <1> DEFINE n == Len(d)
             e == End(f)
  <1>1. /\ n \in Nat /\ Len(f) \in Nat /\ n <= Len(f)
        /\ \A i \in 1..n : d[i] = f[i] /\ f[i] # Torn
    BY LenProperties, ElementOfSeq, Roles DEF Describes
  <1>2. /\ e \in 0..Len(f)
        /\ \A i \in 1..e : f[i] # Torn
        /\ e < Len(f) => f[e + 1] = Torn
    BY EndOfLog DEF IsCut
  <1>3. n < Len(f) => f[n + 1] = Torn
    OBVIOUS
  <1>4. /\ Readable(f) \in Seq(Records) /\ Len(Readable(f)) = e
        /\ \A i \in 1..e : Readable(f)[i] = f[i]
    BY ReadableRecords
  <1> HIDE DEF n, e
  <1>5. ASSUME e < n PROVE FALSE
    <2>1. e + 1 \in 1..n /\ e < Len(f)
      BY <1>1, <1>2, <1>5
    <2> QED
      BY <1>1, <1>2, <2>1
  <1>6. ASSUME n < e PROVE FALSE
    <2>1. n + 1 \in 1..e /\ n < Len(f)
      BY <1>1, <1>2, <1>6
    <2> QED
      BY <1>2, <1>3, <2>1
  <1>7. e = n
    BY <1>1, <1>2, <1>5, <1>6
  <1> QED
    BY <1>1, <1>4, <1>7, SeqEqual DEF n

LEMMA ReadWhole ==
    ASSUME NEW f \in Seq(Records)
    PROVE  Readable(f) = f /\ Readable(Append(f, Torn)) = f
  <1>1. f \in Seq(Cells) /\ Len(f) \in Nat
    BY RecordsAreCells, LenProperties DEF Cells
  <1>2. Readable(f) = f
    BY <1>1, ReadUpTo DEF Describes
  <1>3. /\ Append(f, Torn) \in Seq(Cells) /\ Len(Append(f, Torn)) = Len(f) + 1
        /\ \A i \in 1..Len(f) : Append(f, Torn)[i] = f[i]
        /\ Append(f, Torn)[Len(f) + 1] = Torn
    BY <1>1, AppendProperties DEF Cells
  <1>4. Readable(Append(f, Torn)) = f
    <2> DEFINE g == Append(f, Torn)
    <2> HIDE DEF g
    <2>1. Describes(f, g)
      BY <1>1, <1>3 DEF Describes, g
    <2>2. g \in Seq(Cells) /\ g[Len(f) + 1] = Torn
      BY <1>3 DEF g
    <2>3. Readable(g) = f
      BY <2>1, <2>2, ReadUpTo
    <2> QED
      BY <2>3 DEF g
  <1> QED
    BY <1>2, <1>4

(* Of a log that is whole but for its end, what is read is all that counts. *)
LEMMA ReadCut ==
    ASSUME TypeOK
    PROVE  /\ CutAt(Len(Whole)) = Whole
           /\ Len(Whole) = Len(Bytes) => Whole = Bytes
           /\ Len(Whole) <= Len(Bytes)
  <1>1. Bytes \in Seq(Cells) /\ Len(Bytes) \in Nat
    BY BytesCells, LenProperties
  <1>2. /\ Whole \in Seq(Records) /\ Len(Whole) = End(Bytes)
        /\ \A i \in 1..End(Bytes) : Whole[i] = Bytes[i]
    BY <1>1, ReadableRecords DEF Whole
  <1>3. End(Bytes) \in 0..Len(Bytes)
    BY <1>1, EndOfLog
  <1>4. Whole \in Seq(Cells)
    BY <1>2, RecordsAreCells DEF Cells
  <1>5. CutAt(Len(Whole)) = Whole
    <2> DEFINE c == CutAt(Len(Whole))
    <2>1. c \in Seq(Cells)
      BY <1>2, <1>3, CutCells
    <2>2. c = [i \in 1..Len(Whole) |-> IF i <= Len(Bytes) THEN Bytes[i] ELSE Torn]
      BY DEF CutAt
    <2>3. \A i \in 1..Len(Whole) : c[i] = Whole[i]
      BY <1>1, <1>2, <1>3, <2>2
    <2>4. Len(c) = Len(Whole)
      BY <2>1, <2>2, <1>2, <1>3, LenProperties
    <2> HIDE DEF c
    <2>5. c = Whole
      BY <1>4, <2>1, <2>3, <2>4, SeqEqual
    <2> QED
      BY <2>5 DEF c
  <1>6. Len(Whole) = Len(Bytes) => Whole = Bytes
    BY <1>1, <1>2, <1>4, SeqEqual
  <1> QED
    BY <1>1, <1>2, <1>3, <1>5, <1>6

(* A part of a log holds no more than the log. *)
LEMMA ReadPart ==
    ASSUME NEW d \in Seq(Records), NEW c \in PartOf(d)
    PROVE  Range(Readable(c)) \subseteq Range(d)
  <1>1. PICK n \in 0..(Len(d) - 1) : \/ c = SubSeq(d, 1, n)
                                     \/ c = Append(SubSeq(d, 1, n), Torn)
    BY DEF PartOf
  <1>2. Len(d) \in Nat /\ n \in Nat /\ n <= Len(d) /\ DOMAIN d = 1..Len(d)
    BY <1>1, LenProperties
  <1>3. \A i \in 1..n : d[i] \in Records
    BY <1>2, ElementOfSeq
  <1>4. /\ SubSeq(d, 1, n) \in Seq(Records) /\ Len(SubSeq(d, 1, n)) = n
        /\ \A i \in 1..n : SubSeq(d, 1, n)[i] = d[i]
    BY <1>2, <1>3, SubSeqProperties
  <1>5. Readable(c) = SubSeq(d, 1, n)
    BY <1>1, <1>4, ReadWhole
  <1>6. DOMAIN SubSeq(d, 1, n) = 1..n
    BY <1>4, LenProperties
  <1> QED
    BY <1>2, <1>4, <1>5, <1>6 DEF Range

(* Two sequences of the same records, one the beginning of the other, in   *)
(* which none is twice.                                                    *)
LEMMA SameLog ==
    ASSUME NEW d \in Seq(Records), NEW e \in Seq(Records), Describes(d, e),
           Once(e), Range(e) \subseteq Range(d)
    PROVE  d = e
  <1>1. /\ Len(d) \in Nat /\ Len(e) \in Nat /\ Len(d) <= Len(e)
        /\ DOMAIN d = 1..Len(d) /\ DOMAIN e = 1..Len(e)
        /\ \A i \in 1..Len(d) : d[i] = e[i]
    BY LenProperties DEF Describes
  <1>2. ASSUME Len(d) < Len(e) PROVE FALSE
    <2>1. Len(d) + 1 \in 1..Len(e)
      BY <1>1, <1>2
    <2>2. e[Len(d) + 1] \in Range(d)
      BY <1>1, <2>1 DEF Range
    <2>3. PICK i \in 1..Len(d) : d[i] = e[Len(d) + 1]
      BY <1>1, <2>2 DEF Range
    <2>4. i \in 1..Len(e) /\ e[i] = e[Len(d) + 1]
      BY <1>1, <2>3
    <2> QED
      BY <1>1, <2>1, <2>3, <2>4 DEF Once
  <1> QED
    BY <1>1, <1>2, SeqEqual

(* One more record. *)
LEMMA OneMore ==
    ASSUME NEW d \in Seq(Records), NEW r \in Records
    PROVE  /\ Append(d, r) \in Seq(Records)
           /\ Range(Append(d, r)) = Range(d) \cup {r}
           /\ Once(d) /\ r \notin Range(d) => Once(Append(d, r))
           /\ \A c \in Seq(Records) : Describes(c, d) => Describes(c, Append(d, r))
  <1>1. /\ Append(d, r) \in Seq(Records) /\ Len(d) \in Nat
        /\ Len(Append(d, r)) = Len(d) + 1
        /\ \A i \in 1..Len(d) : Append(d, r)[i] = d[i]
        /\ Append(d, r)[Len(d) + 1] = r
        /\ DOMAIN d = 1..Len(d) /\ DOMAIN Append(d, r) = 1..(Len(d) + 1)
    BY AppendProperties, LenProperties
  <1>2. Range(Append(d, r)) = Range(d) \cup {r}
    <2>1. ASSUME NEW x \in Range(Append(d, r)) PROVE x \in Range(d) \cup {r}
      <3>1. PICK i \in 1..(Len(d) + 1) : x = Append(d, r)[i]
        BY <1>1, <2>1 DEF Range
      <3>2. i \in 1..Len(d) \/ i = Len(d) + 1
        BY <1>1, <3>1
      <3> QED
        BY <1>1, <3>1, <3>2 DEF Range
    <2>2. ASSUME NEW x \in Range(d) PROVE x \in Range(Append(d, r))
      BY RangeOfAppend
    <2>3. Len(d) + 1 \in 1..(Len(d) + 1)
      BY <1>1
    <2>4. r \in Range(Append(d, r))
      BY <1>1, <2>3 DEF Range
    <2> QED
      BY <2>1, <2>2, <2>4
  <1>3. ASSUME Once(d), r \notin Range(d) PROVE Once(Append(d, r))
    <2>1. \A i \in 1..Len(d) : d[i] # r
      BY <1>1, <1>3 DEF Range
    <2>2. ASSUME NEW i \in 1..(Len(d) + 1), NEW j \in 1..(Len(d) + 1),
                 Append(d, r)[i] = Append(d, r)[j]
          PROVE  i = j
      <3>1. \A k \in 1..(Len(d) + 1) : k \in 1..Len(d) \/ k = Len(d) + 1
        BY <1>1
      <3>2. CASE i \in 1..Len(d) /\ j \in 1..Len(d)
        BY <1>1, <1>3, <2>2, <3>2 DEF Once
      <3>3. CASE i \in 1..Len(d) /\ j = Len(d) + 1
        BY <1>1, <2>1, <2>2, <3>3
      <3>4. CASE i = Len(d) + 1 /\ j \in 1..Len(d)
        BY <1>1, <2>1, <2>2, <3>4
      <3> QED
        BY <3>1, <3>2, <3>3, <3>4
    <2> QED
      BY <1>1, <2>2 DEF Once
  <1>4. ASSUME NEW c \in Seq(Records), Describes(c, d)
        PROVE  Describes(c, Append(d, r))
    <2>1. Len(c) \in Nat
      BY LenProperties
    <2> QED
      BY <1>1, <1>4, <2>1 DEF Describes
  <1> QED
    BY <1>1, <1>2, <1>3, <1>4

-----------------------------------------------------------------------------
(* The records of the shard, and what a step has to keep of them. *)

LEMMA SettledIs ==
    ASSUME Inv
    PROVE  /\ Settled \in Seq(Records) /\ Whole \in Seq(Records)
           /\ ~marked \/ ~Primary => Settled = Whole
           /\ Primary /\ marked => Settled = row.recs
           /\ Primary => row \in Rows /\ row.recs \in Seq(Records)
           /\ row # None => row.recs \in Seq(Records)
  BY WholeRecords DEF Inv, TypeOK, Rows, Primary, RecordsSomewhere, Settled

LEMMA SameDisk ==
    ASSUME UNCHANGED disk
    PROVE  /\ Settled' = Settled /\ Whole' = Whole /\ Bytes' = Bytes
           /\ row' = row /\ marked' = marked /\ file' = file
           /\ SettleLosesNothing' = SettleLosesNothing
  BY DEF disk, Settled, Whole, Bytes, Primary, SettleLosesNothing, FileMatches

LEMMA AloneStep ==
    ASSUME OneCommand, SInv, NEW p \in Commands,
           Settled' = Settled, acked' \subseteq Range(Settled),
           SettleLosesNothing', Located(p)', HasRead(p)', Writes(p)', HasCopied(p)'
    PROVE  SInv'
  <1>1. \A q \in Commands : q = p
    BY DEF OneCommand
  <1>2. \A q \in Commands : Located(q)' /\ HasRead(q)' /\ Writes(q)' /\ HasCopied(q)'
    BY <1>1
  <1> QED
    BY <1>2 DEF SInv

(* Where nothing has to be known. *)
Anywhere == {"idle", "settle", "settling", "look", "aside", "unmark", "done"}

LEMMA AnywhereStep ==
    ASSUME OneCommand, SInv, NEW p \in Commands,
           Settled' = Settled, acked' \subseteq Range(Settled),
           SettleLosesNothing', pc'[p] \in Anywhere
    PROVE  SInv'
  <1>1. Located(p)' /\ HasRead(p)' /\ Writes(p)' /\ HasCopied(p)'
    BY DEF Anywhere, Located, HasRead, Writes, HasCopied
  <1> QED
    BY <1>1, AloneStep

(* A step back to index mode or one that finds it done leaves the log.     *)
LEMMA BackToLog ==
    ASSUME Inv, ~Primary', UNCHANGED file, Settled = Whole
    PROVE  Settled' = Settled /\ SettleLosesNothing'
  BY DEF Settled, Whole, Bytes, SettleLosesNothing, Primary

LEMMA ModeRow ==
    ASSUME Inv, row # None, NEW m \in BOOLEAN, row' = InMode(m)
    PROVE  /\ row' \in Rows /\ row'.primary = m /\ row'.recs = row.recs
           /\ ~row'.chained
           /\ Primary' <=> m
  BY NothingIsThere DEF Inv, TypeOK, InMode, Rows, Primary

-----------------------------------------------------------------------------
LEMMA OpeningAlone ==
    ASSUME OneCommand, Inv, SInv, NEW p \in Commands, Opening(p)
    PROVE  Settled' = Settled /\ SInv'
  <1>0. /\ pc \in [Commands -> Places] /\ known \in [Commands -> {None} \cup Libraries]
        /\ SettleLosesNothing /\ acked \subseteq Range(Settled) /\ RecordsSomewhere
        /\ Located(p) /\ HasRead(p)
    BY DEF Inv, TypeOK, SInv
  <1>1. ASSUME UNCHANGED <<disk, acked>>, pc'[p] \in Anywhere
        PROVE  Settled' = Settled /\ SInv'
    BY <1>0, <1>1, SameDisk, AnywhereStep
  <1>2. CASE \/ SkipSettle(p) \/ BeginSettle(p) \/ SettleRefused(p)
             \/ SettleNothing(p) \/ ReadRefused(p) \/ Close(p)
    <2>1. UNCHANGED <<disk, acked>> /\ pc'[p] \in Anywhere
      BY <1>0, <1>2 DEF SkipSettle, BeginSettle, SettleRefused, SettleNothing,
         ReadRefused, Close, EndSettle, Fails, Leave, Exit, Step, Goto, others,
         Anywhere
    <2> QED
      BY <1>1, <2>1
  <1>3. CASE SettleBack(p)
    <2>1. /\ Primary /\ ~marked /\ row' = InMode(FALSE) /\ UNCHANGED <<file, acked>>
          /\ pc'[p] \in Anywhere
      BY <1>0, <1>3 DEF SettleBack, Abandons, EndSettle, Goto, others, Anywhere
    <2>2. Settled' = Settled /\ SettleLosesNothing'
      BY <2>1, SettledIs, ModeRow, BackToLog DEF Primary
    <2> QED
      BY <1>0, <2>1, <2>2, AnywhereStep
  <1>4. CASE SettleForward(p)
    <2>1. /\ Primary /\ marked /\ file' = None /\ UNCHANGED <<marked, row, acked>>
          /\ pc'[p] \in Anywhere
      BY <1>0, <1>4 DEF SettleForward, EndSettle, Goto, others, Anywhere
    <2>2. Settled' = Settled /\ SettleLosesNothing'
      BY <2>1 DEF Settled, Primary, SettleLosesNothing
    <2> QED
      BY <1>0, <2>1, <2>2, AnywhereStep
  <1>5. CASE SettleUnmark(p)
    <2>1. /\ ~Primary /\ UNCHANGED <<file, row, acked>> /\ pc'[p] \in Anywhere
      BY <1>0, <1>5 DEF SettleUnmark, EndSettle, Goto, others, Anywhere
    <2>2. ~Primary'
      BY <2>1 DEF Primary
    <2>3. Settled' = Settled /\ SettleLosesNothing'
      BY <2>1, <2>2, SettledIs, BackToLog
    <2> QED
      BY <1>0, <2>1, <2>3, AnywhereStep
  <1>6. CASE Look(p) \/ ReadFile(p) \/ ReadStore(p) \/ Acquire(p)
    <2>1. UNCHANGED <<disk, acked>>
      BY <1>6 DEF Look, ReadFile, ReadStore, Acquire, others
    <2>2. Located(p)' /\ HasRead(p)'
      <3>1. CASE Look(p)
        <4>1. pc'[p] = IF marked THEN "wait" ELSE "file"
          BY <1>0, <3>1 DEF Look, Goto
        <4> QED
          BY <2>1, <4>1 DEF Located, HasRead, disk
      <3>2. CASE ReadFile(p)
        <4>1. /\ ~marked /\ pc'[p] = "open"
              /\ known'[p] = [primary |-> FALSE, torn |-> Len(Whole) < Len(Bytes),
                              recs |-> Whole]
          BY <1>0, <3>2 DEF ReadFile, Knows, Step, Goto, Located
        <4>2. Whole \in Seq(Records) /\ Settled = Whole
          BY <4>1, SettledIs
        <4>3. /\ known'[p].recs = Whole /\ ~known'[p].primary
              /\ known'[p].torn <=> Len(Whole) < Len(Bytes)
          <5>1. known'[p].recs = Whole /\ known'[p].primary = FALSE
            BY <4>1
          <5>2. known'[p].torn <=> Len(Whole) < Len(Bytes)
            <6> DEFINE shorter == Len(Whole) < Len(Bytes)
            <6>1. shorter \in BOOLEAN
              OBVIOUS
            <6>2. known'[p] = [primary |-> FALSE, torn |-> shorter, recs |-> Whole]
              BY <4>1
            <6> HIDE DEF shorter
            <6>3. known'[p].torn <=> shorter
              BY <6>1, <6>2
            <6> QED
              BY <6>3 DEF shorter
          <5> QED
            BY <5>1, <5>2
        <4>4. known'[p] \in Libraries
          BY <4>1, <4>2 DEF Libraries
        <4>5. Located(p)'
          BY <2>1, <4>1, <4>3, <4>4, NothingIsThere DEF Located, disk
        <4>6. HasRead(p)'
          BY <2>1, <4>1, <4>2, <4>3, SameDisk DEF HasRead
        <4> QED
          BY <4>5, <4>6
      <3>3. CASE ReadStore(p)
        <4>1. /\ marked /\ Primary /\ pc'[p] = "open"
              /\ known'[p] = [primary |-> TRUE, torn |-> FALSE, recs |-> row.recs]
          BY <1>0, <3>3 DEF ReadStore, Knows, Step, Goto, Located
        <4>a. row.recs \in Seq(Records)
          BY <4>1, SettledIs
        <4>b. known'[p] \in Libraries
          BY <4>1, <4>a DEF Libraries
        <4>2. known'[p] # None
          BY <4>b, NothingIsThere
        <4>3. Located(p)'
          BY <2>1, <4>1, <4>2 DEF Located, disk
        <4>4. HasRead(p)'
          BY <2>1, <4>1, SettledIs, SameDisk DEF HasRead
        <4> QED
          BY <4>3, <4>4
      <3>4. CASE Acquire(p)
        <4>1. pc[p] = "open" /\ pc'[p] = "ready" /\ known' = known
          BY <1>0, <3>4 DEF Acquire, Step, Goto, mind
        <4> QED
          BY <1>0, <2>1, <4>1, SameDisk DEF Located, HasRead
      <3> QED
        BY <1>6, <3>1, <3>2, <3>3, <3>4
    <2>3. pc'[p] \in {"wait", "file", "open", "ready"}
      BY <1>0, <1>6 DEF Look, ReadFile, ReadStore, Acquire, Step, Goto
    <2>4. Writes(p)' /\ HasCopied(p)'
      BY <2>3 DEF Writes, HasCopied
    <2> QED
      BY <1>0, <2>1, <2>2, <2>4, SameDisk, AloneStep
  <1> QED
    BY <1>2, <1>3, <1>4, <1>5, <1>6 DEF Opening

-----------------------------------------------------------------------------
LEMMA DescribesRead ==
    ASSUME NEW f \in Seq(Cells), NEW d \in Seq(Records), Describes(d, f)
    PROVE  Describes(d, Readable(f))
  <1>1. /\ Len(d) \in Nat /\ Len(f) \in Nat
        /\ \A i \in 1..Len(d) : d[i] = f[i] /\ f[i] # Torn
    BY LenProperties, ElementOfSeq, Roles DEF Describes
  <1>2. End(f) \in 0..Len(f) /\ IsCut(f, End(f))
    BY EndOfLog
  <1>3. Len(d) <= End(f)
    BY <1>1, <1>2 DEF IsCut, Describes
  <1> QED
    BY <1>1, <1>2, <1>3, ReadableRecords DEF Describes

(* The shard has a log of records, and no more than before is in the store. *)
LEMMA LogGrows ==
    ASSUME Inv, SInv, ~marked, UNCHANGED <<marked, row>>,
           NEW f \in Seq(Records), file' = f,
           Primary => Describes(row.recs, f)
    PROVE  Settled' = f /\ Whole' = f /\ Bytes' = f /\ SettleLosesNothing'
  <1>1. f # None
    BY RecordsAreCells, NothingIsThere
  <1>2. Bytes' = f
    BY <1>1 DEF Bytes
  <1>3. Whole' = f
    BY <1>2, ReadWhole DEF Whole
  <1>4. Settled' = f
    BY <1>1, <1>3 DEF Settled, Primary
  <1>5. SettleLosesNothing'
    <2>1. Primary' = Primary
      BY DEF Primary
    <2>2. Primary => ~row.chained
      BY DEF SInv, SettleLosesNothing, FileMatches, Inv, RecordsSomewhere
    <2> QED
      BY <1>1, <2>1, <2>2 DEF SettleLosesNothing, FileMatches
  <1> QED
    BY <1>2, <1>3, <1>4, <1>5

LEMMA StoreDescribes ==
    ASSUME Inv, SInv, ~marked, Primary
    PROVE  Describes(row.recs, Whole) /\ file # None /\ FileMatches
  <1>1. file # None /\ FileMatches /\ Describes(row.recs, Bytes)
    BY DEF SInv, SettleLosesNothing, FileMatches, Bytes, Inv, RecordsSomewhere
  <1>2. row.recs \in Seq(Records) /\ Bytes \in Seq(Cells)
    BY SettledIs, BytesCells DEF Inv
  <1> QED
    BY <1>1, <1>2, DescribesRead DEF Whole

LEMMA GrowStep ==
    ASSUME OneCommand, Inv, SInv, NEW p \in Commands,
           NEW r \in Records, r \notin Range(Settled),
           Settled' = Append(Settled, r), acked' = acked,
           SettleLosesNothing', Located(p)', HasRead(p)', Writes(p)', HasCopied(p)'
    PROVE  SInv'
  <1>1. \A q \in Commands : q = p
    BY DEF OneCommand
  <1>2. \A q \in Commands : Located(q)' /\ HasRead(q)' /\ Writes(q)' /\ HasCopied(q)'
    BY <1>1
  <1>3. Settled \in Seq(Records)
    BY SettledIs
  <1>4. Once(Append(Settled, r)) /\ acked \subseteq Range(Append(Settled, r))
    BY <1>3, OneMore DEF SInv
  <1> QED
    BY <1>2, <1>4 DEF SInv

Grows == \E r \in Records \ Range(Settled) :
            Settled' = Append(Settled, r) /\ acked' = acked /\ known' = known

LEMMA AppendingAlone ==
    ASSUME OneCommand, Inv, SInv, NEW p \in Commands, Appending(p)
    PROVE  (Settled' = Settled \/ Grows) /\ SInv'
  <1>0. /\ pc \in [Commands -> Places] /\ todo \in [Commands -> {None} \cup Records]
        /\ SettleLosesNothing /\ acked \subseteq Range(Settled)
        /\ Located(p) /\ HasRead(p) /\ Writes(p)
    BY DEF Inv, TypeOK, SInv
  <1>1. ASSUME NEW r \in Records, AppendKnown(p, r)
        PROVE  Settled' = Settled /\ SInv'
    <2>1. /\ UNCHANGED disk /\ pc'[p] \in Anywhere
          /\ acked' = acked \cup {r} /\ r \in Range(Settled)
      BY <1>0, <1>1 DEF AppendKnown, Acknowledge, Goto, Anywhere, HasRead
    <2> QED
      BY <1>0, <2>1, SameDisk, AnywhereStep
  <1>2. ASSUME NEW r \in Records, BeginAppend(p, r)
        PROVE  Settled' = Settled /\ SInv'
    <2>1. /\ ~marked /\ UNCHANGED <<marked, row, acked>>
          /\ pc'[p] = "write" /\ todo'[p] = r
          /\ known[p].recs = Settled /\ r \notin Range(Settled)
          /\ known[p].torn <=> Len(Whole) < Len(Bytes)
          /\ file' = IF known[p].torn THEN CutAt(Len(Settled)) ELSE Bytes
      BY <1>0, <1>2 DEF BeginAppend, Step, Goto, others, Located, HasRead
    <2>2. Settled = Whole /\ Whole \in Seq(Records)
      BY <2>1, SettledIs
    <2>3. file' = Whole
      <3>1. Len(Whole) \in Nat /\ Len(Bytes) \in Nat
        BY <2>2, BytesCells, LenProperties DEF Inv
      <3> QED
        BY <2>1, <2>2, <3>1, ReadCut DEF Inv
    <2>4. Settled' = Whole /\ Whole' = Whole /\ Bytes' = Whole /\ SettleLosesNothing'
      BY <2>1, <2>2, <2>3, StoreDescribes, LogGrows
    <2>5. Located(p)' /\ HasRead(p)' /\ HasCopied(p)'
      BY <2>1 DEF Located, HasRead, HasCopied
    <2>6. Writes(p)'
      BY <2>1, <2>2, <2>4 DEF Writes
    <2> QED
      BY <1>0, <2>1, <2>2, <2>4, <2>5, <2>6, AloneStep
  <1>3. ASSUME NEW r \in Records, AppendStored(p, r)
        PROVE  Grows /\ SInv'
    <2>1. /\ marked /\ Primary /\ UNCHANGED <<file, marked, acked, known>>
          /\ pc'[p] = "stored" /\ todo'[p] = r
          /\ known[p].recs = Settled /\ r \notin Range(Settled)
          /\ row' = [row EXCEPT !.recs = Append(row.recs, r), !.chained = TRUE]
      BY <1>0, <1>3 DEF AppendStored, Step, Goto, others, Located, HasRead
    <2>2. /\ Settled = row.recs /\ row \in Rows /\ Settled \in Seq(Records)
      BY <2>1, SettledIs
    <2>3. Append(row.recs, r) \in Seq(Records) /\ Range(row.recs) \subseteq Range(Append(row.recs, r))
          /\ r \in Range(Append(row.recs, r))
      BY <2>2, OneMore
    <2>4. /\ row' \in Rows /\ row'.primary /\ row'.recs = Append(row.recs, r)
      BY <2>1, <2>2, <2>3 DEF Primary, Rows
    <2>5. Primary' /\ Settled' = Append(Settled, r) /\ Whole' = Whole
      BY <2>1, <2>2, <2>4, NothingIsThere DEF Settled, Primary, Whole, Bytes
    <2>6. SettleLosesNothing'
      BY <1>0, <2>1, <2>3, <2>4, <2>5 DEF SettleLosesNothing
    <2>7. Located(p)' /\ HasRead(p)' /\ Writes(p)' /\ HasCopied(p)'
      BY <2>1, <2>2, <2>3, <2>5 DEF Located, HasRead, Writes, HasCopied
    <2>8. SInv'
      BY <2>1, <2>5, <2>6, <2>7, GrowStep
    <2> QED
      BY <2>1, <2>5, <2>8 DEF Grows
  <1>4. ASSUME NEW r \in Records, AppendRefused(p, r)
        PROVE  Settled' = Settled /\ SInv'
    <2>1. UNCHANGED <<disk, acked>> /\ pc'[p] \in Anywhere
      BY <1>0, <1>4 DEF AppendRefused, Fails, Leave, Exit, Goto, Anywhere
    <2> QED
      BY <1>0, <2>1, SameDisk, AnywhereStep
  <1>5. CASE Write(p)
    <2>1. /\ ~marked /\ UNCHANGED <<marked, row, acked, known>>
          /\ pc'[p] = "written" /\ todo'[p] = todo[p] /\ pc[p] = "write"
          /\ Bytes = Whole /\ todo[p] \notin Range(Settled)
          /\ file' = Append(Bytes, todo[p])
      BY <1>0, <1>5 DEF Write, Step, Goto, mind, others, Located, Writes
    <2>2. todo[p] \in Records
      BY <1>0, <2>1 DEF Inv, Aware
    <2>3. Settled = Whole /\ Whole \in Seq(Records)
      BY <2>1, SettledIs
    <2>4. /\ Append(Whole, todo[p]) \in Seq(Records)
          /\ todo[p] \in Range(Append(Whole, todo[p]))
      BY <2>2, <2>3, OneMore
    <2>5. Primary => Describes(row.recs, Append(Whole, todo[p]))
      <3>1. Primary => Describes(row.recs, Whole) /\ row.recs \in Seq(Records)
        BY <2>1, StoreDescribes, SettledIs
      <3> QED
        BY <2>2, <2>3, <3>1, OneMore
    <2>6. /\ Settled' = Append(Whole, todo[p]) /\ SettleLosesNothing'
      BY <2>1, <2>4, <2>5, LogGrows
    <2>7. Located(p)' /\ HasRead(p)' /\ Writes(p)' /\ HasCopied(p)'
      BY <2>1, <2>4, <2>6 DEF Located, HasRead, Writes, HasCopied
    <2>8. SInv'
      BY <2>1, <2>2, <2>3, <2>6, <2>7, GrowStep
    <2> QED
      BY <2>1, <2>2, <2>3, <2>6, <2>8 DEF Grows
  <1>6. CASE Written(p)
    <2>1. /\ UNCHANGED disk /\ pc'[p] \in Anywhere
          /\ acked' = acked \cup {todo[p]} /\ todo[p] \in Range(Settled)
      BY <1>0, <1>6 DEF Written, Acknowledge, Goto, Anywhere, Writes
    <2> QED
      BY <1>0, <2>1, SameDisk, AnywhereStep
  <1> QED
    BY <1>1, <1>2, <1>3, <1>4, <1>5, <1>6 DEF Appending

-----------------------------------------------------------------------------
(* Bringing the store up to the log, by whoever opens it. *)
LEMMA CatchesUp ==
    ASSUME Inv, SettleLosesNothing, row' = CaughtUp, UNCHANGED <<file, marked>>
    PROVE  /\ Settled' = Settled /\ SettleLosesNothing'
           /\ Whole' = Whole /\ Bytes' = Bytes
           /\ Primary => row' = row
  <1>1. CaughtUp \in Rows /\ (CaughtUp.primary <=> Primary)
    BY CaughtUpRow DEF Inv
  <1>2. CASE Primary
    BY <1>2, SameDisk DEF CaughtUp, disk
  <1>3. CASE ~Primary
    <2>1. ~Primary'
      BY <1>1, <1>3 DEF Primary
    <2> QED
      BY <1>3, <2>1, SettledIs, BackToLog DEF Whole, Bytes
  <1> QED
    BY <1>2, <1>3

LEMMA MovingAlone ==
    ASSUME OneCommand, Inv, SInv, NEW p \in Commands, Moving(p)
    PROVE  Settled' = Settled /\ SInv'
  <1>0. /\ pc \in [Commands -> Places]
        /\ before \in [Commands -> {None} \cup Seq(Records)]
        /\ SettleLosesNothing /\ acked \subseteq Range(Settled) /\ Once(Settled)
        /\ Located(p) /\ HasCopied(p)
    BY DEF Inv, TypeOK, SInv
  <1>1. CASE CatchUp(p)
    <2>1. /\ row' = CaughtUp /\ UNCHANGED <<file, marked, acked, known>>
          /\ pc[p] = "ready" /\ pc'[p] = "caughtup"
      BY <1>0, <1>1 DEF CatchUp, Step, Goto, mind, others
    <2>2. Settled' = Settled /\ SettleLosesNothing'
      BY <1>0, <2>1, CatchesUp
    <2>3. Located(p)' /\ HasRead(p)' /\ Writes(p)' /\ HasCopied(p)'
      BY <1>0, <2>1 DEF Located, HasRead, Writes, HasCopied
    <2> QED
      BY <1>0, <2>1, <2>2, <2>3, AloneStep
  <1>2. CASE HoldStore(p)
    <2>1. /\ UNCHANGED <<disk, acked>> /\ pc[p] = "caughtup"
          /\ pc'[p] = IF known[p].primary THEN "done" ELSE "copy"
      BY <1>0, <1>2 DEF HoldStore, Goto, others
    <2>2. Located(p)' /\ HasRead(p)' /\ Writes(p)' /\ HasCopied(p)'
      BY <1>0, <2>1 DEF Located, HasRead, Writes, HasCopied, disk
    <2> QED
      BY <1>0, <2>1, <2>2, SameDisk, AloneStep
  <1>3. CASE MoveRefused(p) \/ CopyRefused(p) \/ NothingAside(p)
    <2>1. UNCHANGED <<disk, acked>> /\ pc'[p] \in Anywhere
      BY <1>0, <1>3 DEF MoveRefused, CopyRefused, NothingAside, Fails, Leave,
         Exit, Goto, Anywhere
    <2> QED
      BY <1>0, <2>1, SameDisk, AnywhereStep
  <1>4. CASE MakePrimary(p)
    <2>1. /\ UNCHANGED <<file, marked, acked>>
          /\ pc[p] = "copy" /\ pc'[p] = "verify" /\ ~marked /\ row # None
          /\ before'[p] = Whole
          /\ row' = IF Primary THEN row ELSE InMode(TRUE)
          /\ Primary \/ FileMatches
      BY <1>0, <1>4 DEF MakePrimary, Original, Copies, Step, Goto, others,
         Located, Inv, Aware
    <2>2. Settled' = Settled /\ SettleLosesNothing' /\ Whole' = Whole
      <3>1. CASE Primary
        BY <1>0, <2>1, <3>1, SameDisk DEF disk
      <3>2. CASE ~Primary
        <4>1. /\ row' \in Rows /\ row'.recs = row.recs /\ ~row'.chained /\ Primary'
          BY <2>1, <3>2, ModeRow
        <4>2. FileMatches' /\ Whole' = Whole
          BY <2>1, <3>2, <4>1 DEF FileMatches, Whole, Bytes
        <4>3. Settled' = Whole /\ Settled = Whole
          BY <2>1, <3>2, <4>2, SettledIs DEF Settled, FileMatches
        <4> QED
          BY <2>1, <4>2, <4>3 DEF SettleLosesNothing
      <3> QED
        BY <3>1, <3>2
    <2>3. Located(p)' /\ HasRead(p)' /\ Writes(p)' /\ HasCopied(p)'
      BY <2>1, <2>2 DEF Located, HasRead, Writes, HasCopied
    <2> QED
      BY <1>0, <2>1, <2>2, <2>3, AloneStep
  <1>5. CASE Verify(p)
    <2>1. /\ UNCHANGED <<disk, acked, before>> /\ pc[p] = "verify" /\ pc'[p] = "mark"
          /\ ~marked /\ before[p] = Whole /\ Range(Whole) = Range(row.recs)
      BY <1>0, <1>5 DEF Verify, SameRecords, Step, Goto, mind, others, Located,
         HasCopied
    <2>2. Located(p)' /\ HasRead(p)' /\ Writes(p)' /\ HasCopied(p)'
      BY <2>1, SameDisk DEF Located, HasRead, Writes, HasCopied
    <2> QED
      BY <1>0, <2>1, <2>2, SameDisk, AloneStep
  <1>6. CASE Disagrees(p)
    <2>1. /\ UNCHANGED <<file, marked, acked>> /\ pc'[p] \in Anywhere
          /\ ~marked /\ Primary
          /\ row' = IF FileMatches THEN InMode(FALSE) ELSE row
      BY <1>0, <1>6 DEF Disagrees, Leave, Exit, Goto, Located, Anywhere, Inv, Stages
    <2>2. Settled' = Settled /\ SettleLosesNothing'
      <3>1. CASE FileMatches
        BY <2>1, <3>1, SettledIs, ModeRow, BackToLog DEF Primary
      <3>2. CASE ~FileMatches
        BY <1>0, <2>1, <3>2, SameDisk DEF disk
      <3> QED
        BY <3>1, <3>2
    <2> QED
      BY <1>0, <2>1, <2>2, AnywhereStep
  <1>7. CASE Mark(p)
    <2>1. /\ UNCHANGED <<file, row, acked>> /\ marked' = TRUE /\ pc'[p] \in Anywhere
          /\ ~marked /\ Primary /\ Range(Whole) = Range(row.recs)
      BY <1>0, <1>7 DEF Mark, Step, Goto, others, Anywhere, Located, HasCopied,
         Inv, Stages
    <2>2. /\ Settled = Whole /\ Whole \in Seq(Records) /\ row.recs \in Seq(Records)
          /\ Describes(row.recs, Whole)
      BY <2>1, SettledIs, StoreDescribes
    <2>3. row.recs = Whole
      BY <1>0, <2>1, <2>2, SameLog
    <2>4. Settled' = Settled /\ SettleLosesNothing'
      BY <2>1, <2>2, <2>3 DEF Settled, Primary, SettleLosesNothing, Whole, Bytes
    <2> QED
      BY <1>0, <2>1, <2>4, AnywhereStep
  <1>8. CASE SetAside(p)
    <2>1. /\ UNCHANGED <<marked, row, acked>> /\ file' = None /\ pc'[p] \in Anywhere
          /\ marked /\ Primary
      BY <1>0, <1>8 DEF SetAside, Step, Goto, others, Anywhere, Inv, Stages
    <2>2. Settled' = Settled /\ SettleLosesNothing'
      BY <2>1 DEF Settled, Primary, SettleLosesNothing
    <2> QED
      BY <1>0, <2>1, <2>2, AnywhereStep
  <1> QED
    BY <1>1, <1>2, <1>3, <1>4, <1>5, <1>6, <1>7, <1>8 DEF Moving

LEMMA MovingBackAlone ==
    ASSUME OneCommand, Inv, SInv, NEW p \in Commands, MovingBack(p)
    PROVE  Settled' = Settled /\ SInv'
  <1>0. /\ pc \in [Commands -> Places]
        /\ SettleLosesNothing /\ acked \subseteq Range(Settled)
        /\ Located(p)
    BY DEF Inv, TypeOK, SInv
  <1>1. CASE TakeBack(p)
    <2>1. /\ UNCHANGED <<disk, acked>> /\ pc'[p] = "unstored" /\ marked
      BY <1>0, <1>1 DEF TakeBack, Step, Goto, others, Located
    <2>2. Located(p)' /\ HasRead(p)' /\ Writes(p)' /\ HasCopied(p)'
      BY <2>1, SameDisk DEF Located, HasRead, Writes, HasCopied
    <2> QED
      BY <1>0, <2>1, <2>2, SameDisk, AloneStep
  <1>2. CASE NotStored(p) \/ LogExists(p) \/ NoMarker(p)
    <2>1. UNCHANGED <<disk, acked>> /\ pc'[p] \in Anywhere
      BY <1>0, <1>2 DEF NotStored, LogExists, NoMarker, Fails, Leave, Exit, Step,
         Goto, others, Anywhere
    <2> QED
      BY <1>0, <2>1, SameDisk, AnywhereStep
  <1>3. CASE CreateLog(p) \/ Fill(p)
    <2>1. /\ UNCHANGED <<marked, row, acked>> /\ marked /\ Primary
          /\ pc'[p] \in {"fill", "switch"}
          /\ file' = <<>> \/ file' = row.recs
      BY <1>0, <1>3 DEF CreateLog, Fill, Step, Goto, others, Located, Inv, Stages
    <2>2. row.recs \in Seq(Records) /\ <<>> \in Seq(Records)
      BY <2>1, SettledIs, EmptySeq
    <2>3. Range(Readable(file')) \subseteq Range(row.recs)
      <3>1. Range(<<>>) = {}
        BY DEF Range
      <3> QED
        BY <2>1, <2>2, <3>1, ReadWhole
    <2>4. file' # None
      BY <2>1, <2>2, RecordsAreCells, NothingIsThere
    <2>5. Settled' = Settled /\ SettleLosesNothing'
      BY <2>1, <2>3, <2>4 DEF Settled, Primary, SettleLosesNothing, Whole, Bytes
    <2>6. Located(p)' /\ HasRead(p)' /\ Writes(p)' /\ HasCopied(p)'
      BY <2>1 DEF Located, HasRead, Writes, HasCopied
    <2> QED
      BY <1>0, <2>1, <2>5, <2>6, AloneStep
  <1>4. CASE Switch(p)
    <2>1. /\ UNCHANGED <<file, marked, acked>> /\ pc'[p] \in Anywhere
          /\ marked /\ Primary /\ file = row.recs /\ row' = InMode(FALSE)
      BY <1>0, <1>4 DEF Switch, Step, Goto, others, Anywhere, Located, Inv, Stages
    <2>2. Settled = row.recs /\ row.recs \in Seq(Records)
      BY <2>1, SettledIs
    <2>3. Whole = row.recs
      <3>1. row.recs # None
        BY <2>2, RecordsAreCells, NothingIsThere
      <3> QED
        BY <2>1, <2>2, <3>1, ReadWhole DEF Whole, Bytes
    <2>4. ~Primary'
      BY <2>1, ModeRow DEF Primary
    <2>5. Settled' = Settled /\ SettleLosesNothing'
      BY <2>1, <2>2, <2>3, <2>4, BackToLog
    <2> QED
      BY <1>0, <2>1, <2>5, AnywhereStep
  <1>5. CASE Unmark(p)
    <2>1. /\ UNCHANGED <<file, row, acked>> /\ pc'[p] \in Anywhere /\ ~Primary
      BY <1>0, <1>5 DEF Unmark, Step, Goto, others, Anywhere, Inv, Stages
    <2>2. ~Primary'
      BY <2>1 DEF Primary
    <2>3. Settled' = Settled /\ SettleLosesNothing'
      BY <2>1, <2>2, SettledIs, BackToLog
    <2> QED
      BY <1>0, <2>1, <2>3, AnywhereStep
  <1> QED
    BY <1>1, <1>2, <1>3, <1>4, <1>5 DEF MovingBack

LEMMA KillAlone ==
    ASSUME OneCommand, Inv, SInv, NEW p \in Commands, Kill(p)
    PROVE  Settled' = Settled /\ SInv'
  <1>0. /\ pc \in [Commands -> Places] /\ pc'[p] \in Anywhere
        /\ UNCHANGED <<marked, row, acked>> /\ file' \in Left(p)
        /\ SettleLosesNothing /\ acked \subseteq Range(Settled)
        /\ Located(p) /\ Writes(p)
    BY DEF Inv, TypeOK, SInv, Kill, Exit, Goto, Anywhere
  <1>1. CASE file' = file
    BY <1>0, <1>1, SameDisk, AnywhereStep DEF disk
  <1>2. CASE pc[p] = "write" /\ file' = Append(Bytes, Torn)
    <2>1. ~marked /\ Whole = Bytes
      BY <1>0, <1>2 DEF Located, Writes
    <2>2. Settled = Whole /\ Whole \in Seq(Records)
      BY <2>1, SettledIs
    <2>3. file' # None
      <3>1. Torn \in Cells /\ Bytes \in Seq(Cells)
        BY BytesCells DEF Inv, Cells
      <3>2. Append(Bytes, Torn) \in Seq(Cells)
        BY <3>1, AppendProperties
      <3> QED
        BY <1>2, <3>2, NothingIsThere DEF Cells
    <2>4. Whole' = Whole
      BY <1>2, <2>1, <2>2, <2>3, ReadWhole DEF Whole, Bytes
    <2>5. Settled' = Settled
      BY <1>0, <2>1, <2>2, <2>3, <2>4 DEF Settled, Primary
    <2>6. SettleLosesNothing'
      <3>1. SUFFICES ASSUME Primary' PROVE FileMatches'
        BY <1>0, <2>1 DEF SettleLosesNothing
      <3>2. Primary /\ row.recs \in Seq(Records)
        BY <1>0, <3>1, SettledIs DEF Primary
      <3>3. Describes(row.recs, Whole) /\ FileMatches
        BY <2>1, <3>2, StoreDescribes
      <3>4. /\ Len(Append(Whole, Torn)) = Len(Whole) + 1 /\ Len(Whole) \in Nat
            /\ \A i \in 1..Len(Whole) : Append(Whole, Torn)[i] = Whole[i]
            /\ Len(row.recs) \in Nat
        <4>1. Whole \in Seq(Cells) /\ Torn \in Cells
          BY <2>2, RecordsAreCells DEF Cells
        <4> QED
          BY <3>2, <4>1, AppendProperties, LenProperties
      <3>5. Describes(row.recs, Append(Whole, Torn))
        BY <3>3, <3>4 DEF Describes
      <3> QED
        BY <1>0, <1>2, <2>1, <2>3, <3>3, <3>5 DEF FileMatches
    <2> QED
      BY <1>0, <2>5, <2>6, AnywhereStep
  <1>3. CASE pc[p] = "fill" /\ file' \in PartOf(row.recs)
    <2>1. marked /\ Primary /\ row.recs \in Seq(Records)
      BY <1>0, <1>3, SettledIs DEF Located, Inv, Stages
    <2>2. file' # None
      BY <1>3, KilledFile DEF Inv, Stages
    <2>3. Range(Whole') \subseteq Range(row.recs)
      BY <1>3, <2>1, <2>2, ReadPart DEF Whole, Bytes
    <2>4. Settled' = Settled /\ SettleLosesNothing'
      BY <1>0, <2>1, <2>2, <2>3 DEF Settled, Primary, SettleLosesNothing
    <2> QED
      BY <1>0, <2>4, AnywhereStep
  <1> QED
    BY <1>0, <1>1, <1>2, <1>3 DEF Left

LEMMA AloneInductive ==
    ASSUME OneCommand, Inv, SInv, [Next]_vars
    PROVE  (Settled' = Settled \/ Grows) /\ SInv'
  <1>0. /\ pc \in [Commands -> Places]
        /\ SettleLosesNothing /\ acked \subseteq Range(Settled)
    BY DEF Inv, TypeOK, SInv
  <1>1. ASSUME UNCHANGED <<disk, pc, known, todo, before, acked>>
        PROVE  Settled' = Settled /\ SInv'
    BY <1>0, <1>1, SameDisk DEF SInv, Located, HasRead, Writes, HasCopied
  <1>2. ASSUME NEW p \in Commands, Opening(p) PROVE Settled' = Settled /\ SInv'
    BY <1>2, OpeningAlone
  <1>3. ASSUME NEW p \in Commands, Appending(p)
        PROVE  (Settled' = Settled \/ Grows) /\ SInv'
    BY <1>3, AppendingAlone
  <1>4. ASSUME NEW p \in Commands, Moving(p) PROVE Settled' = Settled /\ SInv'
    BY <1>4, MovingAlone
  <1>5. ASSUME NEW p \in Commands, MovingBack(p) PROVE Settled' = Settled /\ SInv'
    BY <1>5, MovingBackAlone
  <1>6. ASSUME NEW p \in Commands, Start(p) \/ Finish(p)
        PROVE  Settled' = Settled /\ SInv'
    <2>1. UNCHANGED <<disk, acked>> /\ pc'[p] \in Anywhere
      BY <1>0, <1>6 DEF Start, Finish, Fails, Leave, Exit, Step, Goto, others,
         Anywhere
    <2> QED
      BY <1>0, <2>1, SameDisk, AnywhereStep
  <1>7. ASSUME NEW p \in Commands, Kill(p) PROVE Settled' = Settled /\ SInv'
    BY <1>7, KillAlone
  <1>8. ASSUME NEW h \in Readers, OpenStore(h) PROVE Settled' = Settled /\ SInv'
    <2>1. /\ row' = CaughtUp
          /\ UNCHANGED <<file, marked, pc, known, todo, before, acked>>
      BY <1>8 DEF OpenStore, mind
    <2>2. /\ Settled' = Settled /\ SettleLosesNothing'
          /\ Whole' = Whole /\ Bytes' = Bytes
          /\ Primary => row' = row
      BY <1>0, <2>1, CatchesUp
    <2>3. \A p \in Commands : pc[p] = "mark" => Primary
      BY DEF Inv, Stages
    <2>4. \A p \in Commands : Located(p)' /\ HasRead(p)' /\ Writes(p)' /\ HasCopied(p)'
      BY <2>1, <2>2, <2>3 DEF SInv, Located, HasRead, Writes, HasCopied
    <2> QED
      BY <2>1, <2>2, <2>4 DEF SInv
  <1>9. ASSUME NEW h \in Readers, OpenLog(h) \/ CloseReader(h)
        PROVE  UNCHANGED <<disk, pc, known, todo, before, acked>>
    BY <1>9 DEF OpenLog, CloseReader, mind
  <1>10. BreakLock \/ UNCHANGED vars => UNCHANGED <<disk, pc, known, todo, before, acked>>
    BY DEF BreakLock, mind, others, vars, disk
  <1> QED
    BY <1>1, <1>2, <1>3, <1>4, <1>5, <1>6, <1>7, <1>8, <1>9, <1>10 DEF Next, Run

LEMMA AloneInitially == Init => SInv /\ Settled = <<>>
  <1> SUFFICES ASSUME Init PROVE SInv /\ Settled = <<>>
    OBVIOUS
  <1>1. file = None /\ row = None /\ ~marked /\ acked = {}
        /\ \A p \in Commands : pc[p] = "idle"
    BY DEF Init
  <1>2. Settled = <<>>
    BY <1>1, EmptySeq, ReadWhole DEF Settled, Primary, Whole, Bytes
  <1>3. Once(Settled) /\ SettleLosesNothing
    BY <1>1, <1>2 DEF Once, SettleLosesNothing, Primary
  <1> QED
    BY <1>1, <1>2, <1>3 DEF SInv, Located, HasRead, Writes, HasCopied

LEMMA AloneAlways ==
    ASSUME OneCommand
    PROVE  Spec => [](Inv /\ SInv)
  <1>1. Init => Inv /\ SInv
    BY InitInv, AloneInitially
  <1>2. Inv /\ SInv /\ [Next]_vars => (Inv /\ SInv)'
    BY NextInv, AloneInductive
  <1> QED
    BY <1>1, <1>2, PTL DEF Spec

(* With one command at a time, whatever that is killed in the middle of    *)
(* and whatever readers there are beside it: what the next open may take   *)
(* away is elsewhere (library.rs `settle_migrations`, `abandon_primary`).  *)
THEOREM SettlingIsSafe ==
    ASSUME OneCommand
    PROVE  Spec => []SettleLosesNothing
  <1>1. SInv => SettleLosesNothing
    BY DEF SInv
  <1> QED
    BY <1>1, AloneAlways, PTL

-----------------------------------------------------------------------------
(***************************************************************************)
(* The shard keeps the promise of a log: a step is a record more, an       *)
(* answer, an open, an exit, or nothing.                                   *)
(***************************************************************************)
Seen == [p \in Commands |-> IF known[p] = None THEN None ELSE known[p].recs]

LEMMA OpensSettled ==
    ASSUME OneCommand, Inv, SInv, [Next]_vars, NEW p \in Commands,
           ReadFile(p) \/ ReadStore(p)
    PROVE  Settled' = Settled /\ acked' = acked
           /\ Seen' = [Seen EXCEPT ![p] = Settled]
  <1>1. Settled' = Settled /\ acked' = acked
    BY SameDisk DEF ReadFile, ReadStore, others
  <1>2. pc'[p] = "open" /\ \A q \in Commands \ {p} : known'[q] = known[q]
    BY DEF Inv, TypeOK, ReadFile, ReadStore, Knows, Step, Goto
  <1>3. known'[p] # None /\ known'[p].recs = Settled
    BY <1>1, <1>2, AloneInductive DEF SInv, Located, HasRead
  <1> QED
    BY <1>1, <1>2, <1>3 DEF Seen

(* What becomes of what a command has read and of the answers. *)
Reads(p)   == ReadFile(p) \/ ReadStore(p)
Forgets(p) == known' = [known EXCEPT ![p] = None] /\ acked' = acked
Knowing    == known' = known /\ acked \subseteq acked'

LEMMA MindSteps ==
    ASSUME NEW p \in Commands, Start(p) \/ Run(p) \/ Kill(p)
    PROVE  Reads(p) \/ Forgets(p) \/ Knowing
  <1> USE DEF Reads, Forgets, Knowing, mind, others, Fails, Leave, Exit
  <1>1. CASE Start(p) \/ Finish(p) \/ Kill(p)
    BY <1>1 DEF Start, Finish, Kill
  <1>2. CASE Opening(p)
    BY <1>2 DEF Opening, SkipSettle, BeginSettle, SettleBack, SettleRefused,
       SettleForward, SettleUnmark, SettleNothing, EndSettle, Look, ReadRefused,
       Acquire, Close
  <1>3. CASE Appending(p)
    <2>1. ASSUME NEW r \in Records, AppendKnown(p, r) PROVE Knowing
      BY <2>1 DEF AppendKnown, Acknowledge
    <2>2. ASSUME NEW r \in Records, BeginAppend(p, r) PROVE Knowing
      BY <2>2 DEF BeginAppend
    <2>3. ASSUME NEW r \in Records, AppendStored(p, r) PROVE Knowing
      BY <2>3 DEF AppendStored
    <2>4. ASSUME NEW r \in Records, AppendRefused(p, r) PROVE Forgets(p)
      BY <2>4 DEF AppendRefused
    <2>5. Write(p) => Knowing
      BY DEF Write
    <2>6. Written(p) => Knowing
      BY DEF Written, Acknowledge
    <2> QED
      BY <1>3, <2>1, <2>2, <2>3, <2>4, <2>5, <2>6 DEF Appending
  <1>4. CASE Moving(p)
    BY <1>4 DEF Moving, CatchUp, HoldStore, MoveRefused, MakePrimary, CopyRefused,
       Verify, Disagrees, Mark, SetAside, NothingAside
  <1>5. CASE MovingBack(p)
    BY <1>5 DEF MovingBack, TakeBack, NotStored, CreateLog, LogExists, Fill,
       Switch, Unmark, NoMarker
  <1> QED
    BY <1>1, <1>2, <1>3, <1>4, <1>5 DEF Run

LEMMA StepKeepsPromise ==
    ASSUME OneCommand, Inv, SInv, [Next]_vars
    PROVE  [Promise!Next]_<<Settled, acked, Seen>>
  <1>0. /\ acked \subseteq Range(Settled) /\ Settled \in Seq(Records)
        /\ Settled' = Settled \/ Grows
        /\ acked' \subseteq Range(Settled')
        /\ Seen = [q \in Commands |-> Seen[q]]
    BY SettledIs, AloneInductive DEF SInv, Seen
  <1> USE DEF Promise!Range, Range
  <1>1. CASE Grows
    <2>1. Seen' = Seen /\ acked' = acked
      BY <1>1 DEF Grows, Seen
    <2>2. \E r \in Records \ Range(Settled) : Settled' = Append(Settled, r)
      BY <1>1 DEF Grows
    <2> HIDE DEF Seen
    <2>3. Promise!Grow
      BY <2>1, <2>2 DEF Promise!Grow, Seen
    <2> QED
      BY <2>3 DEF Promise!Next
  <1>2. CASE Settled' = Settled /\ Knowing
    <2>1. Seen' = Seen
      BY <1>2 DEF Knowing, Seen
    <2>2. acked' \in SUBSET Range(Settled) /\ acked' = acked \cup acked'
      BY <1>0, <1>2 DEF Knowing
    <2>3. \E S \in SUBSET Range(Settled) : acked' = acked \cup S
      BY <2>2
    <2>4. Promise!Answer
      BY <1>2, <2>1, <2>3 DEF Promise!Answer, Seen
    <2> QED
      BY <2>4 DEF Promise!Next
  <1>3. ASSUME Settled' = Settled, NEW p \in Commands, Forgets(p)
        PROVE  Promise!Next
    <2>1. Seen' = [q \in Commands |-> IF q \in {p} THEN None ELSE Seen[q]]
      BY <1>3 DEF Forgets, Seen, Inv, TypeOK
    <2>2. \E S \in SUBSET Commands :
             Seen' = [q \in Commands |-> IF q \in S THEN None ELSE Seen[q]]
      BY <2>1
    <2>3. Promise!Drop
      BY <1>3, <2>2 DEF Forgets, Promise!Drop, Seen
    <2> QED
      BY <2>3 DEF Promise!Next
  <1>4. ASSUME NEW p \in Commands, Reads(p)
        PROVE  Promise!Next
    <2>1. /\ Settled' = Settled /\ acked' = acked
          /\ Seen' = [Seen EXCEPT ![p] = Settled]
      BY <1>4, OpensSettled DEF Reads
    <2> DEFINE n == Len(Settled)
    <2>2. SubSeq(Settled, 1, n) = Settled /\ n \in 0..Len(Settled)
      BY <1>0, SubSeqFull, LenProperties
    <2> HIDE DEF n, Seen, Range, Promise!Range
    <2>3. /\ n \in 0..Len(Settled)
          /\ acked \subseteq Range(SubSeq(Settled, 1, n))
          /\ Seen' = [Seen EXCEPT ![p] = SubSeq(Settled, 1, n)]
      BY <1>0, <2>1, <2>2
    <2>4. Promise!Look(p)
      BY <2>1, <2>3 DEF Promise!Look, Seen, Range, Promise!Range
    <2> QED
      BY <2>4 DEF Promise!Next
  <1>5. CASE \/ \E h \in Readers : OpenStore(h) \/ OpenLog(h) \/ CloseReader(h)
             \/ BreakLock \/ UNCHANGED vars
    <2>1. known' = known /\ acked' = acked
      BY <1>5 DEF OpenStore, OpenLog, CloseReader, BreakLock, mind, others, vars
    <2> QED
      BY <1>0, <1>1, <1>2, <2>1 DEF Knowing
  <1>6. CASE \E p \in Commands : Start(p) \/ Run(p) \/ Kill(p)
    BY <1>0, <1>1, <1>2, <1>3, <1>4, <1>6, MindSteps
  <1> QED
    BY <1>5, <1>6 DEF Next

(* What a library promises of a shard it moves into the store and back,    *)
(* with one command at a time: one log that only grows, each record once,  *)
(* and every open is given all that was answered for, in whichever mode    *)
(* and whatever was killed before it (library.rs `open`, `append_records`, *)
(* `migrate_primary_all`, `migrate_index`; primary.rs).                    *)
THEOREM ShardKeepsPromise ==
    ASSUME OneCommand
    PROVE  Spec => ImplementsAckedLog
  <1>1. Init => Promise!Init
    <2> SUFFICES ASSUME Init PROVE Promise!Init
      OBVIOUS
    <2>1. acked = {} /\ Settled = <<>> /\ \A p \in Commands : known[p] = None
      BY AloneInitially DEF Init
    <2> QED
      BY <2>1 DEF Promise!Init
  <1>2. Inv /\ SInv /\ [Next]_vars => [Promise!Next]_<<Settled, acked, Seen>>
    BY StepKeepsPromise
  <1> QED
    BY <1>1, <1>2, AloneAlways, PTL DEF Spec, ImplementsAckedLog, Promise!Spec, Seen
=============================================================================
