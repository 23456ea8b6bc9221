-------------------------- MODULE UnitStoreProofs ---------------------------
(***************************************************************************)
(* What holds of the unit store for every set of threads, processes,       *)
(* records and batches, and whatever goes wrong.                           *)
(***************************************************************************)
EXTENDS UnitStore, RecordFoldProofs, TLAPS

-----------------------------------------------------------------------------
(* Logs and what a reader of them gets. *)

TornLast(f) == \A i \in 1..(Len(f) - 1) : f[i] # Torn

(* Where a reader stops in a log that can only be torn at its end: at the  *)
(* end of the file, or one cell before it.                                 *)
LEMMA EndOfLog ==
    ASSUME NEW f \in Seq(Cells), TornLast(f)
    PROVE  /\ End(f) \in 0..Len(f)
           /\ IsCut(f, End(f))
           /\ Len(f) > 0 /\ f[Len(f)] = Torn => End(f) = Len(f) - 1
           /\ ~(Len(f) > 0 /\ f[Len(f)] = Torn) => End(f) = Len(f)
  <1> DEFINE n == IF Len(f) > 0 /\ f[Len(f)] = Torn THEN Len(f) - 1 ELSE Len(f)
  <1>1. n \in 0..Len(f)
    BY LenProperties
  <1>2. IsCut(f, n)
    BY LenProperties DEF IsCut, TornLast
  <1>3. ASSUME NEW m \in 0..Len(f), IsCut(f, m)
        PROVE  m = n
    BY <1>1, <1>2, <1>3, LenProperties DEF IsCut
  <1>4. End(f) = n
    BY <1>1, <1>2, <1>3 DEF End
  <1> QED
    BY <1>1, <1>2, <1>4

(* A prefix of a log, read on from its end as far as there is anything to  *)
(* read: build.rs `catch_up` and `fold`, shard.rs `settle`.                *)
LEMMA ReadOn ==
    ASSUME NEW f \in Seq(Cells), TornLast(f),
           NEW d \in Seq(Records), Describes(d, f)
    PROVE  LET g == d \o TailOf(f, Len(d), Len(f)) IN
           /\ TailOf(f, Len(d), Len(f)) \in Seq(Records)
           /\ g \in Seq(Records)
           /\ Describes(g, f)
           /\ Len(d) <= Len(g)
           /\ Len(g) = Len(f) => g = f
           /\ Len(g) # Len(f) => Len(f) = Len(g) + 1 /\ f[Len(f)] = Torn
  <1> DEFINE e == End(f)
             t == SubSeq(f, Len(d) + 1, e)
             g == d \o t
  <1>1. SubSeq(f, 1, Len(f)) = f
    BY SubSeqFull
  <1>2. t = TailOf(f, Len(d), Len(f))
    BY <1>1 DEF TailOf
  <1>3. /\ e \in 0..Len(f) /\ IsCut(f, e)
        /\ e = Len(f) \/ (e = Len(f) - 1 /\ f[Len(f)] = Torn)
    BY EndOfLog
  <1>4. Len(d) <= e
    <2>1. \A i \in 1..Len(d) : d[i] \in Records
      BY ElementOfSeq
    <2> QED
      BY <1>3, <2>1, LenProperties, Participants DEF Describes
  <1>5. \A i \in 1..e : f[i] \in Records
    BY <1>3, ElementOfSeq DEF IsCut, Cells
  <1>6. /\ t \in Seq(Records)
        /\ Len(t) = e - Len(d)
        /\ \A i \in 1..(e - Len(d)) : t[i] = f[Len(d) + i]
    <2>1. \A i \in (Len(d) + 1)..e : f[i] \in Records
      BY <1>5, LenProperties
    <2>2. Len(d) + 1 \in Int /\ e \in Int
      BY <1>3, LenProperties
    <2> HIDE DEF e
    <2>3. /\ t \in Seq(Records)
          /\ Len(t) = IF Len(d) + 1 <= e THEN e - (Len(d) + 1) + 1 ELSE 0
          /\ \A i \in 1..(e - (Len(d) + 1) + 1) : t[i] = f[(Len(d) + 1) + i - 1]
      BY <2>1, <2>2, SubSeqProperties
    <2> QED
      BY <2>2, <2>3, <1>4, LenProperties
  <1>7. /\ g \in Seq(Records)
        /\ Len(g) = e
        /\ \A i \in 1..e : g[i] = f[i]
    <2> HIDE DEF e, t
    <2>1. /\ g \in Seq(Records)
          /\ Len(g) = Len(d) + Len(t)
          /\ \A i \in 1..(Len(d) + Len(t)) :
                g[i] = IF i <= Len(d) THEN d[i] ELSE t[i - Len(d)]
      BY <1>6, ConcatProperties
    <2>2. Len(d) \in Nat /\ e \in Nat
      BY <1>3, LenProperties
    <2>3. ASSUME NEW i \in 1..e PROVE g[i] = f[i]
      BY <2>1, <2>2, <1>4, <1>6 DEF Describes
    <2> QED
      BY <2>1, <2>2, <2>3, <1>6
  <1>8. Len(g) = Len(f) => g = f
    <2>1. g \in Seq(Cells)
      BY <1>7, SeqMonotonic DEF Cells
    <2> HIDE DEF g
    <2> QED
      BY <1>3, <1>7, <2>1, SeqEqual
  <1>9. g = d \o TailOf(f, Len(d), Len(f)) /\ TailOf(f, Len(d), Len(f)) \in Seq(Records)
    BY <1>2, <1>6
  <1> HIDE DEF e, g
  <1> QED
    BY <1>3, <1>4, <1>7, <1>8, <1>9, LenProperties DEF Describes

-----------------------------------------------------------------------------
(***************************************************************************)
(* The inductive invariant.  TornAtEnd, CaughtUpDescribes and              *)
(* WritesWhereDescribed are not inductive by themselves: what a writer     *)
(* adds to the file follows what it described because of what it settled,  *)
(* and nobody else writes the file meanwhile because of the lock file.     *)
(***************************************************************************)
Inside   == {"check", "fold", "settle", "dedupe", "write", "commit"}
Knowing  == {"cut", "ready", "settle", "dedupe", "write", "commit"}
CaughtUp == Knowing \cup {"fold", "load", "open"}

(* A writer that is doing anything has the lock file, and a thread that    *)
(* reads or changes what the store describes has the fold lock.            *)
LockHeld     == \A w \in Writers : pc[w] # "idle" => lock = w
FoldLockHeld == \A a \in Actors : pc[a] \in Inside => mutex = a

Roles == /\ \A w \in Writers : pc[w] \notin {"load", "open", "memory"}
         /\ \A r \in Readers : pc[r] \notin Knowing \cup {"locked"}

(* Once anybody has checked the prefix it stays one of the log's.          *)
StoreKnown == (\E a \in Actors : pc[a] \in CaughtUp) =>
                  (row # None => Describes(row, file))

(* What a writer takes to be described is a prefix of the log, and no more *)
(* than the store describes; at the cut there is one torn cell after it,   *)
(* and while it appends there is nothing after it but what it wrote.       *)
Remembers(w) == /\ Describes(described[w], file)
                /\ row # None => Len(described[w]) <= Len(row)
AtCut(w)     == /\ Len(file) = Len(described[w]) + 1
                /\ file[Len(file)] = Torn
Settled(w)   == /\ file = described[w]
                /\ row # None => row = described[w]
Writes(w)    == /\ row = described[w]
                /\ file = described[w] \o SubSeq(todo[w], 1, at[w])
                /\ at[w] <= Len(todo[w])

WriterKnows ==
    \A w \in Writers :
        /\ pc[w] \in Knowing => Remembers(w)
        /\ pc[w] = "cut" => AtCut(w)
        /\ pc[w] = "dedupe" => Settled(w)
        /\ pc[w] \in {"write", "commit"} => Writes(w)
        /\ pc[w] = "commit" => at[w] = Len(todo[w])

IInv == /\ TypeOK /\ TornAtEnd
        /\ LockHeld /\ FoldLockHeld /\ Roles
        /\ StoreKnown /\ WriterKnows

LEMMA Initially == Init => IInv
  <1> SUFFICES ASSUME Init PROVE IInv
    OBVIOUS
  <1> USE DEF Init
  <1>1. TypeOK
    BY EmptySeq, Participants DEF TypeOK, Places
  <1>2. TornAtEnd
    BY DEF TornAtEnd
  <1>3. LockHeld /\ FoldLockHeld /\ Roles /\ StoreKnown /\ WriterKnows
    BY DEF LockHeld, FoldLockHeld, Roles, StoreKnown, WriterKnows, Inside,
           Knowing, CaughtUp, Actors
  <1> QED
    BY <1>1, <1>2, <1>3 DEF IInv

-----------------------------------------------------------------------------
(* Steps that leave the log and what the store describes alone: all that   *)
(* writers knew they know, if they go on or end their append.              *)
GoesOn(w) == /\ pc'[w] = pc[w]
             /\ <<described'[w], todo'[w], at'[w]>> = <<described[w], todo[w], at[w]>>
Ends(w)   == /\ pc'[w] = "ready" /\ pc[w] \in Knowing
             /\ described'[w] = described[w]

LEMMA Undisturbed ==
    ASSUME IInv, UNCHANGED <<file, row>>,
           \A w \in Writers : pc'[w] \notin Knowing \/ GoesOn(w) \/ Ends(w)
    PROVE  TornAtEnd' /\ WriterKnows'
  <1>1. TornAtEnd'
    BY DEF IInv, TornAtEnd
  <1>2. ASSUME NEW w \in Writers, GoesOn(w)
        PROVE  /\ pc'[w] \in Knowing => Remembers(w)'
               /\ pc'[w] = "cut" => AtCut(w)'
               /\ pc'[w] = "dedupe" => Settled(w)'
               /\ pc'[w] \in {"write", "commit"} => Writes(w)'
               /\ pc'[w] = "commit" => at'[w] = Len(todo'[w])
    BY <1>2 DEF IInv, WriterKnows, GoesOn, Remembers, AtCut, Settled, Writes
  <1>3. ASSUME NEW w \in Writers, Ends(w)
        PROVE  Remembers(w)' /\ pc'[w] = "ready"
    BY <1>3 DEF IInv, WriterKnows, Ends, Remembers
  <1> QED
    BY <1>1, <1>2, <1>3 DEF WriterKnows, Knowing

LEMMA Opens ==
    ASSUME IInv, NEW w \in Writers, AcquireLock(w) \/ OpenShared(w) \/ GiveUp(w)
    PROVE  IInv'
  <1> USE DEF IInv, AcquireLock, OpenShared, GiveUp, Leave, Goto, disk, db, mem, job
  <1>1. TypeOK'
    <2>1. <<>> \in Seq(Records)
      BY EmptySeq
    <2>2. CASE AcquireLock(w)
      BY <2>2 DEF TypeOK, Places, Actors
    <2>3. CASE OpenShared(w)
      BY <2>3 DEF TypeOK, Places, Actors
    <2>4. CASE GiveUp(w)
      BY <2>1, <2>4 DEF TypeOK, Places, Actors
    <2> QED
      BY <2>2, <2>3, <2>4
  <1>2. (LockHeld /\ FoldLockHeld /\ Roles)'
    <2>1. /\ w \in Actors /\ w \notin Readers /\ UNCHANGED mutex
          /\ pc' = [pc EXCEPT ![w] = pc'[w]]
          /\ pc'[w] \in {"locked", "enter", "idle"}
      BY Participants DEF TypeOK, Actors
    <2>2. /\ pc'[w] = "idle" \/ lock' = w
          /\ lock = None \/ lock = w
      BY <2>1 DEF LockHeld, TypeOK
    <2> HIDE DEF AcquireLock, OpenShared, GiveUp, Leave, Goto
    <2>3. LockHeld'
      BY <2>1, <2>2, Participants DEF LockHeld, TypeOK, Actors
    <2>4. FoldLockHeld'
      BY <2>1 DEF FoldLockHeld, Inside, TypeOK
    <2> QED
      BY <2>1, <2>3, <2>4, Participants DEF Roles, Knowing, TypeOK, Actors
  <1>3. StoreKnown'
    BY DEF StoreKnown, CaughtUp, Knowing, TypeOK, Actors
  <1>4. (TornAtEnd /\ WriterKnows)'
    <2>1. \A v \in Writers : pc'[v] \notin Knowing \/ GoesOn(v)
      BY DEF GoesOn, Knowing, TypeOK, Actors
    <2> QED
      BY <2>1, Undisturbed
  <1> QED
    BY <1>1, <1>2, <1>3, <1>4

LEMMA Enters ==
    ASSUME IInv, NEW a \in Actors, EnterCatchUp(a) \/ FoldFails(a)
    PROVE  IInv'
  <1> USE DEF IInv, EnterCatchUp, FoldFails, Leave, Goto, disk, db, mem, job
  <1>1. TypeOK'
    <2>1. <<>> \in Seq(Records)
      BY EmptySeq
    <2>2. CASE EnterCatchUp(a)
      BY <2>2 DEF TypeOK, Places
    <2>3. CASE FoldFails(a)
      BY <2>1, <2>3 DEF TypeOK, Places
    <2> QED
      BY <2>2, <2>3
  <1>2. (LockHeld /\ FoldLockHeld /\ Roles)'
    <2>1. /\ pc' = [pc EXCEPT ![a] = pc'[a]]
          /\ pc'[a] \in {"check", "idle"} /\ pc[a] # "idle"
          /\ lock' = lock \/ (a \in Writers /\ pc'[a] = "idle" /\ lock = a)
          /\ IF pc'[a] = "check" THEN mutex = None /\ mutex' = a
             ELSE mutex = a /\ mutex' = None
      <3>1. CASE EnterCatchUp(a)
        BY <3>1 DEF TypeOK
      <3>2. CASE FoldFails(a)
        BY <3>2 DEF LockHeld, TypeOK
      <3> QED
        BY <3>1, <3>2
    <2> HIDE DEF EnterCatchUp, FoldFails, Leave, Goto
    <2>2. LockHeld'
      BY <2>1, Participants DEF LockHeld, TypeOK, Actors
    <2>3. FoldLockHeld'
      BY <2>1, Participants DEF FoldLockHeld, Inside, TypeOK
    <2> QED
      BY <2>1, <2>2, <2>3 DEF Roles, Knowing, TypeOK, Actors
  <1>3. StoreKnown'
    BY DEF StoreKnown, CaughtUp, Knowing, TypeOK, Actors
  <1>4. (TornAtEnd /\ WriterKnows)'
    <2>1. \A v \in Writers : pc'[v] \notin Knowing \/ GoesOn(v)
      BY DEF GoesOn, Knowing, TypeOK, Actors
    <2> QED
      BY <2>1, Undisturbed
  <1> QED
    BY <1>1, <1>2, <1>3, <1>4

LEMMA Reads ==
    ASSUME IInv, NEW r \in Readers, OpenReader(r) \/ ReadLog(r) \/ Load(r)
    PROVE  IInv'
  <1> USE DEF IInv, OpenReader, ReadLog, Load, Goto, disk, db, mem, job
  <1>0. r \in Actors /\ r \notin Writers
    BY Participants DEF Actors
  <1>1. TypeOK'
    <2>1. <<>> \in Seq(Records)
      BY EmptySeq
    <2>2. CASE OpenReader(r)
      BY <1>0, <2>2 DEF TypeOK, Places
    <2>3. CASE ReadLog(r)
      BY <1>0, <2>3 DEF TypeOK, Places
    <2>4. CASE Load(r)
      BY <1>0, <2>1, <2>4 DEF TypeOK, Places
    <2> QED
      BY <2>2, <2>3, <2>4
  <1>2. (LockHeld /\ FoldLockHeld /\ Roles)'
    <2>1. /\ pc' = [pc EXCEPT ![r] = pc'[r]]
          /\ pc'[r] \in {"enter", "memory", "open", "idle"}
      BY <1>0 DEF TypeOK
    <2>2. UNCHANGED <<lock, mutex>>
      OBVIOUS
    <2> HIDE DEF OpenReader, ReadLog, Load, Goto
    <2>3. LockHeld' /\ FoldLockHeld'
      BY <1>0, <2>1, <2>2 DEF LockHeld, FoldLockHeld, Inside, TypeOK, Actors
    <2> QED
      BY <1>0, <2>1, <2>3 DEF Roles, Knowing, TypeOK, Actors
  <1>3. StoreKnown'
    BY <1>0 DEF StoreKnown, CaughtUp, Knowing, TypeOK
  <1>4. (TornAtEnd /\ WriterKnows)'
    <2>1. \A v \in Writers : GoesOn(v)
      BY <1>0 DEF GoesOn, TypeOK, Actors
    <2> QED
      BY <2>1, Undisturbed
  <1> QED
    BY <1>1, <1>2, <1>3, <1>4

LEMMA Closes ==
    ASSUME IInv, NEW a \in Actors,
           \/ CloseView(a)
           \/ a \in Writers /\ (TakeReader(a) \/ CloseWriter(a))
    PROVE  IInv'
  <1> USE DEF IInv, CloseView, TakeReader, CloseWriter, Leave, Goto,
              disk, db, mem, job
  <1>1. TypeOK'
    <2>1. <<>> \in Seq(Records)
      BY EmptySeq
    <2>2. CASE CloseView(a)
      BY <2>2 DEF TypeOK, Places
    <2>3. CASE a \in Writers /\ TakeReader(a)
      BY <2>3 DEF TypeOK, Places
    <2>4. CASE a \in Writers /\ CloseWriter(a)
      BY <2>1, <2>4 DEF TypeOK, Places
    <2> QED
      BY <2>2, <2>3, <2>4
  <1>2. (LockHeld /\ FoldLockHeld /\ Roles)'
    <2>1. CASE a \in Writers /\ TakeReader(a)
      BY <2>1 DEF LockHeld, FoldLockHeld, Roles
    <2>2. CASE a \in Writers /\ CloseWriter(a)
      <3>1. /\ pc[a] = "ready" /\ pc' = [pc EXCEPT ![a] = "idle"]
            /\ lock' = None /\ mutex' = mutex
        BY <2>2
      <3>2. pc \in [Actors -> Places]
        BY DEF TypeOK
      <3> HIDE DEF CloseView, TakeReader, CloseWriter, Leave, Goto
      <3> QED
        BY <2>2, <3>1, <3>2, Participants
        DEF LockHeld, FoldLockHeld, Roles, Inside, Knowing, Actors
    <2>3. CASE CloseView(a)
      BY <2>3, Participants
      DEF LockHeld, FoldLockHeld, Roles, Inside, Knowing, TypeOK, Actors
    <2> QED
      BY <2>1, <2>2, <2>3
  <1>3. StoreKnown'
    BY DEF StoreKnown, CaughtUp, Knowing, TypeOK
  <1>4. (TornAtEnd /\ WriterKnows)'
    <2>1. \A v \in Writers : pc'[v] \notin Knowing \/ GoesOn(v)
      BY Participants DEF GoesOn, Knowing, TypeOK, Actors
    <2> QED
      BY <2>1, Undisturbed
  <1> QED
    BY <1>1, <1>2, <1>3, <1>4

LEMMA Refuses ==
    ASSUME IInv, NEW w \in Writers, NoHashes(w) \/ CommitFails(w)
    PROVE  IInv'
  <1> USE DEF IInv, NoHashes, CommitFails, Refuse, Return, Goto, disk, db
  <1>1. TypeOK'
    <2>1. <<>> \in Seq(Records)
      BY EmptySeq
    <2>2. w \in Actors
      BY DEF Actors
    <2>3. /\ pc' = [pc EXCEPT ![w] = "ready"]
          /\ batch' = [batch EXCEPT ![w] = <<>>]
          /\ todo' = [todo EXCEPT ![w] = <<>>]
          /\ at' = [at EXCEPT ![w] = 0]
          /\ mutex' = None
          /\ UNCHANGED <<file, synced, row, lock, described, acked, view>>
      OBVIOUS
    <2> QED
      BY <2>1, <2>2, <2>3 DEF TypeOK, Places
  <1>2. (LockHeld /\ FoldLockHeld /\ Roles)'
    BY Participants DEF LockHeld, FoldLockHeld, Roles, Inside, Knowing, TypeOK, Actors
  <1>3. StoreKnown'
    BY DEF StoreKnown, CaughtUp, Knowing, TypeOK, Actors
  <1>4. (TornAtEnd /\ WriterKnows)'
    <2>1. \A v \in Writers : GoesOn(v) \/ Ends(v)
      BY DEF GoesOn, Ends, Knowing, TypeOK, Actors
    <2> QED
      BY <2>1, Undisturbed
  <1> QED
    BY <1>1, <1>2, <1>3, <1>4

LEMMA Begins ==
    ASSUME IInv, NEW w \in Writers, BeginAppend(w)
    PROVE  IInv'
  <1> USE DEF IInv, BeginAppend, Goto, disk, db
  <1>1. PICK b \in Batches : batch' = [batch EXCEPT ![w] = b]
    OBVIOUS
  <1>2. w \in Actors /\ b \in Seq(Records)
    BY Participants DEF Actors
  <1>3. TypeOK'
    BY <1>1, <1>2 DEF TypeOK, Places
  <1>4. (LockHeld /\ FoldLockHeld /\ Roles)'
    BY <1>2, Participants DEF LockHeld, FoldLockHeld, Roles, Inside, Knowing, TypeOK, Actors
  <1>5. StoreKnown'
    BY <1>2 DEF StoreKnown, CaughtUp, Knowing, TypeOK
  <1>6. (TornAtEnd /\ WriterKnows)'
    <2>1. TornAtEnd'
      BY DEF TornAtEnd
    <2>2. \A v \in Writers \ {w} : GoesOn(v)
      BY <1>2 DEF GoesOn, TypeOK, Actors
    <2>3. Remembers(w)' /\ pc'[w] = "settle"
      BY <1>2 DEF Remembers, WriterKnows, Knowing, TypeOK
    <2> QED
      BY <2>1, <2>2, <2>3 DEF WriterKnows, GoesOn, Knowing, Remembers, AtCut, Settled, Writes
  <1> QED
    BY <1>3, <1>4, <1>5, <1>6

LEMMA Dedupes ==
    ASSUME IInv, NEW w \in Writers, Dedupe(w)
    PROVE  IInv'
  <1> USE DEF IInv, Dedupe, disk, db
  <1>1. w \in Actors
    BY DEF Actors
  <1>2. batch[w][at[w] + 1] \in Records
    <2>1. at[w] + 1 \in 1..Len(batch[w]) /\ batch[w] \in Seq(Records)
      BY <1>1, LenProperties DEF TypeOK
    <2> QED
      BY <2>1, ElementOfSeq
  <1>3. TypeOK'
    <2>1. \/ todo' = todo
          \/ todo' = [todo EXCEPT ![w] = Append(@, batch[w][at[w] + 1])]
      OBVIOUS
    <2>2. Append(todo[w], batch[w][at[w] + 1]) \in Seq(Records)
      BY <1>1, <1>2, AppendProperties DEF TypeOK
    <2>3. todo' \in [Actors -> Seq(Records)]
      BY <1>1, <2>1, <2>2 DEF TypeOK
    <2>4. at' \in [Actors -> Nat]
      BY <1>1 DEF TypeOK
    <2>5. UNCHANGED <<file, synced, row, lock, mutex, pc, described, batch,
                      acked, view>>
      OBVIOUS
    <2> QED
      BY <2>3, <2>4, <2>5 DEF TypeOK
  <1>4. (LockHeld /\ FoldLockHeld /\ Roles /\ StoreKnown)'
    BY DEF LockHeld, FoldLockHeld, Roles, StoreKnown
  <1>5. (TornAtEnd /\ WriterKnows)'
    <2>1. TornAtEnd'
      BY DEF TornAtEnd
    <2>2. \A v \in Writers \ {w} : GoesOn(v)
      BY <1>1 DEF GoesOn, TypeOK, Actors
    <2>3. Remembers(w)' /\ Settled(w)' /\ pc'[w] = "dedupe"
      BY <1>1 DEF Remembers, Settled, WriterKnows, Knowing, TypeOK
    <2> QED
      BY <2>1, <2>2, <2>3 DEF WriterKnows, GoesOn, Knowing, Remembers, AtCut, Settled, Writes
  <1> QED
    BY <1>3, <1>4, <1>5

LEMMA EndsDedupe ==
    ASSUME IInv, NEW w \in Writers, Deduped(w)
    PROVE  IInv'
  <1> USE DEF IInv, Deduped, disk, db
  <1>1. w \in Actors
    BY DEF Actors
  <1>2. CASE todo[w] = <<>>
    <2> USE <1>2 DEF Ok, Return, Goto
    <2>0. /\ pc[w] = "dedupe" /\ mutex = w /\ mutex' = None
          /\ pc' = [pc EXCEPT ![w] = "ready"]
          /\ batch' = [batch EXCEPT ![w] = <<>>]
          /\ todo' = [todo EXCEPT ![w] = <<>>]
          /\ at' = [at EXCEPT ![w] = 0]
          /\ acked' = acked \cup Range(batch[w])
          /\ UNCHANGED <<file, synced, row, lock, described, view>>
      OBVIOUS
    <2> HIDE DEF Deduped, Ok, Return, Goto
    <2> USE <2>0
    <2>1. TypeOK'
      <3>1. <<>> \in Seq(Records)
        BY EmptySeq
      <3>2. Range(batch[w]) \subseteq Records
        BY <1>1, RangeOfSeq DEF TypeOK
      <3> QED
        BY <1>1, <3>1, <3>2 DEF TypeOK, Places
    <2>2. (LockHeld /\ FoldLockHeld /\ Roles)'
      BY <1>1, Participants DEF LockHeld, FoldLockHeld, Roles, Inside, Knowing, TypeOK, Actors
    <2>3. StoreKnown'
      BY <1>1 DEF StoreKnown, CaughtUp, Knowing, TypeOK
    <2>4. (TornAtEnd /\ WriterKnows)'
      <3>1. \A v \in Writers : GoesOn(v) \/ Ends(v)
        BY <1>1 DEF GoesOn, Ends, Knowing, TypeOK, Actors
      <3> QED
        BY <3>1, Undisturbed
    <2> QED
      BY <2>1, <2>2, <2>3, <2>4
  <1>3. CASE todo[w] # <<>>
    <2> USE <1>3 DEF Goto
    <2>1. TypeOK'
      <3>1. /\ pc' = [pc EXCEPT ![w] = "write"]
            /\ at' = [at EXCEPT ![w] = 0]
            /\ UNCHANGED <<file, synced, row, lock, mutex, described, batch,
                           todo, acked, view>>
        OBVIOUS
      <3> QED
        BY <1>1, <3>1 DEF TypeOK, Places
    <2>2. (LockHeld /\ FoldLockHeld /\ Roles)'
      BY <1>1, Participants DEF LockHeld, FoldLockHeld, Roles, Inside, Knowing, TypeOK, Actors
    <2>3. StoreKnown'
      BY <1>1 DEF StoreKnown, CaughtUp, Knowing, TypeOK
    <2>4. (TornAtEnd /\ WriterKnows)'
      <3>1. TornAtEnd'
        BY DEF TornAtEnd
      <3>2. \A v \in Writers \ {w} : GoesOn(v)
        BY <1>1 DEF GoesOn, TypeOK, Actors
      <3>3. Remembers(w)' /\ pc'[w] = "write" /\ at'[w] = 0
        BY <1>1 DEF Remembers, WriterKnows, Knowing, TypeOK
      <3>4. Writes(w)'
        <4>1. row = described[w] /\ file = described[w]
          BY DEF WriterKnows, Settled
        <4>2. SubSeq(todo[w], 1, 0) = <<>>
          BY SubSeqEmpty
        <4>3. described[w] \o <<>> = described[w] /\ Len(todo[w]) \in Nat
          BY <1>1, ConcatEmptySeq, LenProperties DEF TypeOK
        <4>4. UNCHANGED <<file, row, described, todo>>
          OBVIOUS
        <4>5. SubSeq(todo'[w], 1, at'[w]) = <<>>
          BY <3>3, <4>2, <4>4
        <4>6. /\ row' = described'[w]
              /\ file' = described'[w] \o SubSeq(todo'[w], 1, at'[w])
          BY <4>1, <4>3, <4>4, <4>5
        <4>7. at'[w] <= Len(todo'[w])
          BY <3>3, <4>3, <4>4
        <4> QED
          BY <4>6, <4>7 DEF Writes
      <3> QED
        BY <3>1, <3>2, <3>3, <3>4 DEF WriterKnows, GoesOn, Knowing, Remembers, AtCut, Settled, Writes
    <2> QED
      BY <2>1, <2>2, <2>3, <2>4
  <1> QED
    BY <1>2, <1>3

LEMMA Syncs ==
    ASSUME IInv, NEW w \in Writers, SyncLog(w)
    PROVE  IInv'
  <1> USE DEF IInv, SyncLog, Goto, db, mem, job
  <1>1. w \in Actors
    BY DEF Actors
  <1>2. TypeOK'
    BY <1>1, LenProperties DEF TypeOK, Places
  <1>3. (LockHeld /\ FoldLockHeld /\ Roles)'
    BY <1>1, Participants DEF LockHeld, FoldLockHeld, Roles, Inside, Knowing, TypeOK, Actors
  <1>4. StoreKnown'
    BY <1>1 DEF StoreKnown, CaughtUp, Knowing, TypeOK
  <1>5. (TornAtEnd /\ WriterKnows)'
    <2>1. TornAtEnd'
      BY DEF TornAtEnd
    <2>2. \A v \in Writers \ {w} : GoesOn(v)
      BY <1>1 DEF GoesOn, TypeOK, Actors
    <2>3. Remembers(w)' /\ Writes(w)' /\ pc'[w] = "commit" /\ at'[w] = Len(todo'[w])
      BY <1>1 DEF Remembers, Writes, WriterKnows, Knowing, TypeOK
    <2>4. UNCHANGED <<file, row>>
      OBVIOUS
    <2> HIDE DEF SyncLog, Goto
    <2>5. ASSUME NEW v \in Writers \ {w}
          PROVE  /\ pc'[v] \in Knowing => Remembers(v)'
                 /\ pc'[v] = "cut" => AtCut(v)'
                 /\ pc'[v] = "dedupe" => Settled(v)'
                 /\ pc'[v] \in {"write", "commit"} => Writes(v)'
                 /\ pc'[v] = "commit" => at'[v] = Len(todo'[v])
      BY <2>2, <2>4 DEF WriterKnows, GoesOn, Remembers, AtCut, Settled, Writes
    <2> QED
      BY <2>1, <2>3, <2>5 DEF WriterKnows, Knowing
  <1> QED
    BY <1>2, <1>3, <1>4, <1>5

(* The store is cleared: nobody has to know anything of it.                *)
LEMMA Checks ==
    ASSUME IInv, NEW a \in Actors, CheckPrefix(a)
    PROVE  IInv'
  <1> USE DEF IInv, CheckPrefix, Clear, KnowsLog, Goto, disk, db, mem, job
  <1>1. row' = None \/ (row' = row /\ Describes(row, file))
    OBVIOUS
  <1>2. TypeOK'
    BY DEF TypeOK, Places
  <1>3. (LockHeld /\ FoldLockHeld /\ Roles)'
    BY Participants DEF LockHeld, FoldLockHeld, Roles, Inside, Knowing, TypeOK, Actors
  <1>4. StoreKnown'
    BY <1>1 DEF StoreKnown
  <1>5. (TornAtEnd /\ WriterKnows)'
    <2>1. TornAtEnd'
      BY DEF TornAtEnd
    <2>2. \A v \in Writers : pc'[v] \notin Knowing \/ GoesOn(v)
      BY DEF GoesOn, Knowing, TypeOK, Actors
    <2>3. ASSUME NEW v \in Writers, v # a
          PROVE  pc[v] \notin {"write", "commit"}
      BY <2>3 DEF FoldLockHeld, Inside, Actors
    <2>4. pc'[a] \notin Knowing
      BY DEF TypeOK, Knowing
    <2> QED
      BY <1>1, <2>1, <2>2, <2>3, <2>4 DEF WriterKnows, GoesOn, Knowing, Remembers, AtCut, Settled, Writes
  <1> QED
    BY <1>2, <1>3, <1>4, <1>5

-----------------------------------------------------------------------------
(* Steps that bring the store up to the log. *)

(* What ReadOn says of a prefix read on to the end of the log.             *)
ReadToEnd(g) == /\ g \in Seq(Records)
                /\ Describes(g, file)
                /\ \/ g = file
                   \/ Len(file) = Len(g) + 1 /\ file[Len(file)] = Torn

LEMMA OthersKnow ==
    ASSUME IInv, NEW a \in Actors, mutex = a, file' = file,
           row' = row \/ ReadToEnd(row'), row # None => row' # None,
           \A v \in Writers \ {a} : GoesOn(v)
    PROVE  \A v \in Writers \ {a} :
              /\ pc'[v] \in Knowing => Remembers(v)'
              /\ pc'[v] = "cut" => AtCut(v)'
              /\ pc'[v] \notin {"dedupe", "write", "commit"}
  <1> SUFFICES ASSUME NEW v \in Writers \ {a}
               PROVE  /\ pc'[v] \in Knowing => Remembers(v)'
                      /\ pc'[v] = "cut" => AtCut(v)'
                      /\ pc'[v] \notin {"dedupe", "write", "commit"}
    OBVIOUS
  <1>1. pc[v] \notin {"dedupe", "write", "commit"}
    BY DEF IInv, FoldLockHeld, Inside, Actors
  <1>2. pc[v] = "cut" => AtCut(v)'
    BY DEF IInv, WriterKnows, GoesOn, AtCut
  <1>3. ASSUME pc[v] \in Knowing PROVE Remembers(v)'
    <2>1. Remembers(v)
      BY <1>3 DEF IInv, WriterKnows
    <2>2. CASE row' = row
      BY <2>1, <2>2 DEF Remembers, GoesOn
    <2>3. CASE ReadToEnd(row')
      <3>1. described[v] \in Seq(Records) /\ file \in Seq(Cells)
        BY DEF IInv, TypeOK, Actors
      <3>2. \A i \in 1..Len(described[v]) : file[i] # Torn
        BY <2>1, <3>1, ElementOfSeq, Participants DEF Remembers, Describes
      <3>3. Len(described[v]) <= Len(file)
        BY <2>1 DEF Remembers, Describes
      <3>4. Len(described[v]) \in Nat /\ Len(file) \in Nat /\ Len(row') \in Nat
        BY <2>3, <3>1, LenProperties DEF ReadToEnd
      <3>5. Len(described[v]) <= Len(row')
        BY <2>3, <3>2, <3>3, <3>4 DEF ReadToEnd
      <3> QED
        BY <2>1, <3>5 DEF Remembers, GoesOn
    <2> QED
      BY <2>2, <2>3
  <1> QED
    BY <1>1, <1>2, <1>3 DEF GoesOn

LEMMA FoldsTail ==
    ASSUME IInv, NEW a \in Actors, FoldTail(a)
    PROVE  /\ IInv'
           /\ ReadToEnd(row') /\ described' = [described EXCEPT ![a] = row']
  <1> USE DEF IInv
  <1>1. /\ pc[a] = "fold" /\ mutex = a /\ mutex' = None
        /\ UNCHANGED <<file, synced, lock, batch, todo, at, view, acked>>
    BY DEF FoldTail, disk, job
  <1>2. /\ ReadToEnd(row')
        /\ described' = [described EXCEPT ![a] = row']
    <2>1. row # None => Describes(row, file)
      BY <1>1 DEF StoreKnown, CaughtUp
    <2>2. CASE row # None /\ Len(file) <= Len(row)
      <3>1. row' = row /\ described' = [described EXCEPT ![a] = row']
        BY <2>2 DEF FoldTail, db
      <3>2. row \in Seq(Records) /\ row \in Seq(Cells) /\ file \in Seq(Cells)
        BY <2>2, SeqMonotonic DEF TypeOK, Cells
      <3>3. row = file
        BY <2>1, <2>2, <3>2, LenProperties, SeqEqual DEF Describes
      <3> QED
        BY <2>1, <2>2, <3>1, <3>2, <3>3 DEF ReadToEnd
    <2>3. CASE ~(row # None /\ Len(file) <= Len(row))
      <3>1. From \in Seq(Records) /\ Describes(From, file)
        <4>1. CASE row = None
          <5>1. Len(file) \in Nat
            BY LenProperties DEF TypeOK
          <5>2. <<>> \in Seq(Records) /\ Len(<<>>) = 0
            BY EmptySeq
          <5> QED
            BY <4>1, <5>1, <5>2 DEF From, Describes
        <4>2. CASE row # None
          BY <2>1, <4>2 DEF From, TypeOK
        <4> QED
          BY <4>1, <4>2
      <3>2. row' = From \o TailOf(file, Len(From), Len(file))
        BY <2>3 DEF FoldTail
      <3>3. described' = [described EXCEPT ![a] = row']
        BY <2>3 DEF FoldTail
      <3>4. file \in Seq(Cells) /\ TornLast(file)
        BY DEF TypeOK, TornAtEnd, TornLast
      <3> QED
        BY <3>1, <3>2, <3>3, <3>4, ReadOn DEF ReadToEnd
    <2> QED
      BY <2>2, <2>3
  <1>3. /\ described'[a] = row'
        /\ row' \in Seq(Records) /\ row' # None
        /\ Len(row') \in Nat /\ Len(file) \in Nat
    BY <1>2, LenProperties, Participants DEF ReadToEnd, TypeOK
  <1>4. /\ pc' = [pc EXCEPT ![a] = pc'[a]]
        /\ a \in Readers => pc'[a] = "load"
        /\ a \notin Readers => pc'[a] = IF Len(row') < Len(file) THEN "cut" ELSE "ready"
    BY <1>3 DEF FoldTail, Goto, TypeOK
  <1>5. TypeOK'
    BY <1>1, <1>2, <1>3, <1>4 DEF TypeOK, Places
  <1>6. (LockHeld /\ FoldLockHeld /\ Roles)'
    BY <1>1, <1>4, Participants DEF LockHeld, FoldLockHeld, Roles, Inside, Knowing,
                                    TypeOK, Actors
  <1>7. StoreKnown'
    BY <1>1, <1>2 DEF StoreKnown, ReadToEnd
  <1>8. TornAtEnd'
    BY <1>1 DEF TornAtEnd
  <1>9. WriterKnows'
    <2>1. \A v \in Writers \ {a} : GoesOn(v)
      BY <1>1, <1>2, <1>4 DEF GoesOn, TypeOK, Actors
    <2>2. \A v \in Writers \ {a} :
              /\ pc'[v] \in Knowing => Remembers(v)'
              /\ pc'[v] = "cut" => AtCut(v)'
              /\ pc'[v] \notin {"dedupe", "write", "commit"}
      BY <1>1, <1>2, <1>3, <2>1, OthersKnow
    <2>3. Remembers(a)'
      BY <1>1, <1>2, <1>3 DEF Remembers, ReadToEnd
    <2>4. pc'[a] = "cut" => AtCut(a)'
      BY <1>1, <1>2, <1>3, <1>4 DEF AtCut, ReadToEnd
    <2>5. pc'[a] \in {"load", "cut", "ready"}
      BY <1>4
    <2> QED
      BY <2>2, <2>3, <2>4, <2>5 DEF WriterKnows
  <1> QED
    BY <1>2, <1>5, <1>6, <1>7, <1>8, <1>9

LEMMA Settles ==
    ASSUME IInv, NEW w \in Writers, Settle(w)
    PROVE  IInv' /\ (row' = row \/ ReadToEnd(row'))
  <1> USE DEF IInv
  <1> DEFINE d == Adopted(w)
             g == d \o TailOf(file, Len(d), Len(file))
  <1>1. /\ w \in Actors /\ pc[w] = "settle" /\ mutex = w
        /\ UNCHANGED <<file, synced, lock, view, acked>>
    BY DEF Settle, disk, Actors
  <1>2. /\ d \in Seq(Records) /\ Describes(d, file)
        /\ row # None => Len(row) <= Len(d) /\ Describes(row, file)
        /\ row # None => Len(d) = Len(row)
    <2>1. Remembers(w) /\ (row # None => Describes(row, file))
      BY <1>1 DEF WriterKnows, StoreKnown, CaughtUp, Knowing
    <2>2. described[w] \in Seq(Records) /\ (row # None => row \in Seq(Records))
      BY <1>1 DEF TypeOK
    <2>3. Len(described[w]) \in Nat /\ (row # None => Len(row) \in Nat)
      BY <2>2, LenProperties
    <2> QED
      BY <2>1, <2>2, <2>3 DEF Adopted, Remembers
  <1>3. file \in Seq(Cells) /\ TornLast(file) /\ Len(file) \in Nat /\ Len(d) \in Nat
    BY <1>2, LenProperties DEF TypeOK, TornAtEnd, TornLast
  <1>4. ReadToEnd(g) /\ Len(g) \in Nat
    BY <1>2, <1>3, ReadOn, LenProperties DEF ReadToEnd
  <1> HIDE DEF d, g
  <1>5. CASE Len(file) > Len(d) /\ SomebodyElses(g)
    <2>1. /\ row' = g /\ described' = [described EXCEPT ![w] = g]
          /\ pc' = [pc EXCEPT ![w] = "ready"] /\ mutex' = None
          /\ batch' = [batch EXCEPT ![w] = <<>>]
          /\ todo' = [todo EXCEPT ![w] = <<>>]
          /\ at' = [at EXCEPT ![w] = 0]
      BY <1>5 DEF Settle, Return, Goto, d, g
    <2>2. TypeOK'
      <3>1. <<>> \in Seq(Records)
        BY EmptySeq
      <3> QED
        BY <1>1, <1>4, <2>1, <3>1 DEF ReadToEnd, TypeOK, Places
    <2>3. (LockHeld /\ FoldLockHeld /\ Roles)'
      BY <1>1, <2>1, Participants DEF LockHeld, FoldLockHeld, Roles, Inside,
                                      Knowing, TypeOK, Actors
    <2>4. (StoreKnown /\ TornAtEnd)'
      BY <1>1, <1>4, <2>1 DEF StoreKnown, TornAtEnd, ReadToEnd
    <2>5. Remembers(w)' /\ pc'[w] = "ready"
      BY <1>1, <1>4, <2>1 DEF Remembers, ReadToEnd, TypeOK
    <2>6. \A v \in Writers \ {w} : GoesOn(v)
      BY <1>1, <2>1 DEF GoesOn, TypeOK, Actors
    <2>7. row' # None
      BY <1>4, <2>1, Participants DEF ReadToEnd
    <2> QED
      BY <1>1, <1>4, <2>1, <2>2, <2>3, <2>4, <2>5, <2>6, <2>7, OthersKnow
      DEF WriterKnows
  <1>6. CASE ~(Len(file) > Len(d) /\ SomebodyElses(g))
    <2> DEFINE x == described'[w]
    <2>1. /\ x = file /\ x \in Seq(Records) /\ Describes(x, file)
          /\ described' = [described EXCEPT ![w] = x]
          /\ row' = x \/ (row' = row /\ (row # None => row = x))
          /\ pc' = [pc EXCEPT ![w] = "dedupe"]
          /\ UNCHANGED <<mutex, batch, todo, at>>
      <3>1. CASE Len(file) > Len(d)
        <4>1. /\ row' = g /\ described' = [described EXCEPT ![w] = g]
              /\ pc' = [pc EXCEPT ![w] = "dedupe"]
              /\ UNCHANGED <<mutex, batch, todo, at>>
          BY <1>6, <3>1 DEF Settle, Goto, d, g, job
        <4>2. g = file
          BY <1>3, <1>4, <1>6, <3>1 DEF SomebodyElses, ReadToEnd
        <4> QED
          BY <1>1, <1>4, <4>1, <4>2 DEF ReadToEnd, TypeOK
      <3>2. CASE ~(Len(file) > Len(d))
        <4>1. /\ row' = row /\ described' = [described EXCEPT ![w] = d]
              /\ pc' = [pc EXCEPT ![w] = "dedupe"]
              /\ UNCHANGED <<mutex, batch, todo, at>>
          BY <3>2 DEF Settle, Goto, d, db, job
        <4>2. d \in Seq(Cells)
          BY <1>2, SeqMonotonic DEF Cells
        <4>3. d = file
          BY <1>2, <1>3, <3>2, <4>2, SeqEqual DEF Describes
        <4>4. row # None => row = d
          <5>1. row # None => row \in Seq(Records)
            BY DEF TypeOK
          <5>2. ASSUME row # None PROVE \A i \in 1..Len(row) : row[i] = d[i]
            BY <1>2, <4>3, <5>2 DEF Describes
          <5> QED
            BY <1>2, <5>1, <5>2, SeqEqual
        <4> QED
          BY <1>1, <1>2, <4>1, <4>3, <4>4 DEF TypeOK
      <3> QED
        BY <3>1, <3>2
    <2> HIDE DEF x
    <2>2. x = described'[w]
      BY DEF x
    <2>3. TypeOK'
      BY <1>1, <2>1 DEF TypeOK, Places
    <2>4. (LockHeld /\ FoldLockHeld /\ Roles)'
      BY <1>1, <2>1, Participants DEF LockHeld, FoldLockHeld, Roles, Inside,
                                      Knowing, TypeOK, Actors
    <2>5. (StoreKnown /\ TornAtEnd)'
      BY <1>1, <2>1 DEF StoreKnown, TornAtEnd
    <2>6. Remembers(w)' /\ Settled(w)' /\ pc'[w] = "dedupe"
      BY <1>1, <1>3, <2>1, <2>2 DEF Remembers, Settled, TypeOK
    <2>7. \A v \in Writers \ {w} : GoesOn(v)
      BY <1>1, <2>1 DEF GoesOn, TypeOK, Actors
    <2>8. row' = row \/ ReadToEnd(row')
      BY <2>1 DEF ReadToEnd
    <2>9. row # None => row' # None
      BY <2>1, Participants
    <2> QED
      BY <1>1, <2>3, <2>4, <2>5, <2>6, <2>7, <2>8, <2>9, OthersKnow DEF WriterKnows
  <1> QED
    BY <1>5, <1>6

-----------------------------------------------------------------------------
(* Steps that write the log: the lock file keeps every other writer out.   *)
LEMMA Alone ==
    ASSUME IInv, NEW w \in Writers, pc[w] # "idle"
    PROVE  \A v \in Writers \ {w} : pc[v] = "idle"
  BY DEF IInv, LockHeld

LEMMA Cuts ==
    ASSUME IInv, NEW w \in Writers, CutTail(w)
    PROVE  IInv'
  <1> USE DEF IInv
  <1>1. /\ w \in Actors /\ pc[w] = "cut"
        /\ file' = SubSeq(file, 1, Len(described[w])) /\ synced' = Len(file')
        /\ pc' = [pc EXCEPT ![w] = "ready"]
        /\ UNCHANGED <<row, lock, mutex, described, batch, todo, at, view, acked>>
    BY DEF CutTail, Goto, db, mem, job, Actors
  <1>2. /\ Describes(described[w], file)
        /\ Len(file) = Len(described[w]) + 1 /\ file[Len(file)] = Torn
        /\ row # None => Describes(row, file)
    BY <1>1 DEF WriterKnows, Knowing, Remembers, AtCut, StoreKnown, CaughtUp
  <1>3. /\ described[w] \in Seq(Records) /\ described[w] \in Seq(Cells)
        /\ file \in Seq(Cells) /\ Len(described[w]) \in Nat
    BY <1>1, SeqMonotonic, LenProperties DEF TypeOK, Cells
  <1>4. file' = described[w]
    <2>1. \A i \in 1..Len(described[w]) : file[i] \in Cells
      BY <1>2, <1>3, ElementOfSeq
    <2>2. /\ file' \in Seq(Cells) /\ Len(file') = Len(described[w])
          /\ \A i \in 1..Len(described[w]) : file'[i] = file[i]
      BY <1>1, <1>3, <2>1, SubSeqProperties
    <2> QED
      BY <1>2, <1>3, <2>2, SeqEqual DEF Describes
  <1>5. row # None => Describes(row, file')
    <2> SUFFICES ASSUME row # None PROVE Describes(row, file')
      OBVIOUS
    <2>1. row \in Seq(Records) /\ Len(row) \in Nat
      BY LenProperties DEF TypeOK
    <2>2. \A i \in 1..Len(row) : row[i] # Torn
      BY <2>1, ElementOfSeq, Participants
    <2>3. Len(row) <= Len(described[w])
      BY <1>2, <1>3, <2>1, <2>2 DEF Describes
    <2> QED
      BY <1>2, <1>3, <1>4, <2>1, <2>3 DEF Describes
  <1>6. TypeOK'
    BY <1>1, <1>3, <1>4 DEF TypeOK, Places
  <1>7. TornAtEnd'
    BY <1>3, <1>4, ElementOfSeq, Participants DEF TornAtEnd
  <1>8. (LockHeld /\ FoldLockHeld /\ Roles)'
    BY <1>1, Participants DEF LockHeld, FoldLockHeld, Roles, Inside, Knowing,
                              TypeOK, Actors
  <1>9. StoreKnown'
    BY <1>1, <1>5 DEF StoreKnown
  <1>10. WriterKnows'
    <2>1. \A v \in Writers \ {w} : pc'[v] = "idle"
      BY <1>1, Alone DEF TypeOK, Actors
    <2>2. Remembers(w)' /\ pc'[w] = "ready"
      BY <1>1, <1>3, <1>4 DEF Remembers, Describes, WriterKnows, Knowing, TypeOK
    <2> QED
      BY <2>1, <2>2 DEF WriterKnows, Knowing
  <1> QED
    BY <1>6, <1>7, <1>8, <1>9, <1>10

(* A cell more: what was a prefix of the log still is.                     *)
LEMMA PrefixOfMore ==
    ASSUME NEW f \in Seq(Cells), NEW c \in Cells, NEW d \in Seq(Records),
           Describes(d, f)
    PROVE  Describes(d, Append(f, c))
  BY AppendProperties, LenProperties DEF Describes

(* Nothing in the file while a writer writes is torn. *)
LEMMA WholeWhileWriting ==
    ASSUME IInv, NEW w \in Writers, pc[w] \in {"write", "commit"}
    PROVE  /\ w \in Actors /\ file \in Seq(Records)
           /\ SubSeq(todo[w], 1, at[w]) \in Seq(Records)
           /\ at[w] \in Nat /\ at[w] <= Len(todo[w]) /\ Len(todo[w]) \in Nat
           /\ todo[w] \in Seq(Records) /\ described[w] \in Seq(Records)
           /\ file = described[w] \o SubSeq(todo[w], 1, at[w])
           /\ row = described[w] /\ Describes(row, file) /\ row # None
  <1> USE DEF IInv
  <1>1. w \in Actors /\ Writes(w) /\ Remembers(w)
    BY DEF Actors, WriterKnows, Knowing
  <1>2. /\ todo[w] \in Seq(Records) /\ described[w] \in Seq(Records)
        /\ at[w] \in Nat /\ Len(todo[w]) \in Nat
    BY <1>1, LenProperties DEF TypeOK
  <1>3. SubSeq(todo[w], 1, at[w]) \in Seq(Records)
    <2>1. \A i \in 1..at[w] : todo[w][i] \in Records
      BY <1>1, <1>2, ElementOfSeq DEF Writes
    <2> QED
      BY <1>2, <2>1, SubSeqProperties
  <1> QED
    BY <1>1, <1>2, <1>3, ConcatProperties, Participants DEF Writes, Remembers

LEMMA WritesRecord ==
    ASSUME IInv, NEW w \in Writers, WriteLog(w)
    PROVE  IInv'
  <1> USE DEF IInv
  <1> DEFINE n == at[w]
             r == todo[w][n + 1]
  <1>1. /\ pc[w] = "write" /\ n < Len(todo[w])
        /\ file' = Append(file, r) /\ at' = [at EXCEPT ![w] = n + 1]
        /\ UNCHANGED <<synced, row, lock, mutex, pc, described, batch, todo, view, acked>>
    BY DEF WriteLog, db
  <1>2. /\ w \in Actors /\ file \in Seq(Records) /\ n \in Nat
        /\ todo[w] \in Seq(Records) /\ described[w] \in Seq(Records)
        /\ file = described[w] \o SubSeq(todo[w], 1, n)
        /\ SubSeq(todo[w], 1, n) \in Seq(Records)
        /\ row = described[w] /\ Describes(row, file) /\ row # None
        /\ Len(todo[w]) \in Nat
    BY <1>1, WholeWhileWriting
  <1>3. r \in Records
    BY <1>1, <1>2, ElementOfSeq
  <1>4. file' \in Seq(Records) /\ file' \in Seq(Cells) /\ Len(file') = Len(file) + 1
    BY <1>1, <1>2, <1>3, AppendProperties, SeqMonotonic DEF Cells
  <1>5. file' = described'[w] \o SubSeq(todo'[w], 1, at'[w])
    <2>1. at'[w] = n + 1
      BY <1>1, <1>2 DEF TypeOK
    <2>2. Append(file, r) = described[w] \o SubSeq(todo[w], 1, n + 1)
      BY <1>1, <1>2, AppendToConcat
    <2> QED
      BY <1>1, <2>1, <2>2
  <1>6. Describes(row, file')
    <2>1. file \in Seq(Cells) /\ r \in Cells /\ row \in Seq(Records)
      BY <1>2, <1>3 DEF TypeOK, Cells
    <2> QED
      BY <1>1, <1>2, <2>1, PrefixOfMore
  <1> HIDE DEF r, n
  <1>7. TypeOK'
    <2>1. Len(file) \in Nat
      BY <1>2, LenProperties
    <2> QED
      BY <1>1, <1>2, <1>4, <2>1 DEF TypeOK
  <1>8. TornAtEnd'
    BY <1>4, ElementOfSeq, LenProperties, Participants DEF TornAtEnd
  <1>9. (LockHeld /\ FoldLockHeld /\ Roles /\ StoreKnown)'
    BY <1>1, <1>6 DEF LockHeld, FoldLockHeld, Roles, StoreKnown
  <1>10. WriterKnows'
    <2>1. \A v \in Writers \ {w} : pc'[v] = "idle"
      BY <1>1, Alone
    <2>2. Remembers(w)' /\ Writes(w)' /\ pc'[w] = "write"
      <3>1. at'[w] = n + 1 /\ n + 1 <= Len(todo'[w])
        BY <1>1, <1>2 DEF TypeOK, n
      <3>2. UNCHANGED <<row, pc, described>> /\ Len(row) \in Nat
        BY <1>1, <1>2, LenProperties
      <3>3. row' = described'[w]
        BY <1>2, <3>2
      <3>4. Remembers(w)'
        <4>1. described'[w] = row /\ row' = row
          BY <3>2, <3>3
        <4> QED
          BY <1>6, <3>2, <4>1 DEF Remembers
      <3>5. Writes(w)'
        BY <1>5, <3>1, <3>3 DEF Writes
      <3> QED
        BY <1>1, <3>2, <3>4, <3>5
    <2> QED
      BY <2>1, <2>2 DEF WriterKnows, Knowing
  <1> QED
    BY <1>7, <1>8, <1>9, <1>10

LEMMA FailsToWrite ==
    ASSUME IInv, NEW w \in Writers, WriteFails(w)
    PROVE  IInv'
  <1> USE DEF IInv
  <1>1. /\ pc[w] = "write"
        /\ file' = file \/ file' = Append(file, Torn)
        /\ pc' = [pc EXCEPT ![w] = "ready"] /\ mutex' = None
        /\ batch' = [batch EXCEPT ![w] = <<>>]
        /\ todo' = [todo EXCEPT ![w] = <<>>]
        /\ at' = [at EXCEPT ![w] = 0]
        /\ UNCHANGED <<synced, row, lock, described, view, acked>>
    BY DEF WriteFails, TornBy, Refuse, Return, Goto, db
  <1>2. /\ w \in Actors /\ file \in Seq(Records) /\ row \in Seq(Records)
        /\ row = described[w] /\ Describes(row, file)
    BY <1>1, WholeWhileWriting
  <1>3. file \in Seq(Cells) /\ Torn \in Cells /\ Len(file) \in Nat /\ Len(row) \in Nat
    BY <1>2, LenProperties DEF TypeOK, Cells
  <1>4. /\ file' \in Seq(Cells) /\ Describes(row, file')
        /\ Len(file') \in {Len(file), Len(file) + 1}
    <2>1. CASE file' = file
      BY <1>2, <1>3, <2>1
    <2>2. CASE file' = Append(file, Torn)
      <3>1. Describes(row, Append(file, Torn))
        BY <1>2, <1>3, PrefixOfMore
      <3>2. /\ Append(file, Torn) \in Seq(Cells)
            /\ Len(Append(file, Torn)) = Len(file) + 1
        BY <1>3, AppendProperties
      <3> QED
        BY <2>2, <3>1, <3>2
    <2> QED
      BY <1>1, <2>1, <2>2
  <1>5. TypeOK'
    <2>1. <<>> \in Seq(Records)
      BY EmptySeq
    <2> QED
      BY <1>1, <1>2, <1>3, <1>4, <2>1 DEF TypeOK, Places
  <1>6. TornAtEnd'
    <2>1. \A i \in 1..Len(file) : file[i] # Torn
      BY <1>2, ElementOfSeq, Participants
    <2>2. \A i \in 1..Len(file) : file'[i] = file[i]
      <3>1. CASE file' = file
        BY <3>1
      <3>2. CASE file' = Append(file, Torn)
        BY <1>3, <3>2, AppendProperties
      <3> QED
        BY <1>1, <3>1, <3>2
    <2> QED
      BY <1>3, <1>4, <2>1, <2>2 DEF TornAtEnd
  <1>7. (LockHeld /\ FoldLockHeld /\ Roles)'
    BY <1>1, <1>2, Participants DEF LockHeld, FoldLockHeld, Roles, Inside, Knowing,
                                    TypeOK, Actors
  <1>8. StoreKnown'
    BY <1>1, <1>4 DEF StoreKnown
  <1>9. WriterKnows'
    <2>1. \A v \in Writers \ {w} : pc'[v] = "idle"
      BY <1>1, Alone DEF TypeOK, Actors
    <2>2. Remembers(w)'
      <3>1. described'[w] = row /\ row' = row
        BY <1>1, <1>2
      <3> QED
        BY <1>3, <1>4, <3>1 DEF Remembers
    <2>3. pc'[w] = "ready"
      BY <1>1, <1>2 DEF TypeOK
    <2> QED
      BY <2>1, <2>2, <2>3 DEF WriterKnows, Knowing
  <1> QED
    BY <1>5, <1>6, <1>7, <1>8, <1>9

(* The file is what was described and then all that was to be written, so *)
(* what the transaction reads back is all of it.                           *)
LEMMA Commits ==
    ASSUME IInv, NEW w \in Writers, Commit(w)
    PROVE  IInv' /\ row' = file
  <1> USE DEF IInv
  <1>1. /\ w \in Actors /\ pc[w] = "commit" /\ mutex' = None
        /\ pc' = [pc EXCEPT ![w] = "ready"]
        /\ batch' = [batch EXCEPT ![w] = <<>>]
        /\ todo' = [todo EXCEPT ![w] = <<>>]
        /\ at' = [at EXCEPT ![w] = 0]
        /\ acked' = acked \cup Range(batch[w])
        /\ described' = [described EXCEPT ![w] = row']
        /\ row' = described[w] \o TailOf(file, Len(described[w]),
                                         Len(described[w]) + Len(todo[w]))
        /\ UNCHANGED <<file, synced, lock, view>>
    BY DEF Commit, Ok, Return, Goto, disk, Actors
  <1>2. /\ file \in Seq(Records) /\ Len(file) = Len(described[w]) + Len(todo[w])
        /\ described[w] \in Seq(Records) /\ Describes(described[w], file)
    <2>1. at[w] = Len(todo[w])
      BY <1>1 DEF WriterKnows
    <2>2. /\ file \in Seq(Records) /\ todo[w] \in Seq(Records)
          /\ described[w] \in Seq(Records) /\ Describes(described[w], file)
          /\ file = described[w] \o SubSeq(todo[w], 1, Len(todo[w]))
      BY <1>1, <2>1, WholeWhileWriting
    <2>3. file = described[w] \o todo[w]
      BY <2>2, SubSeqFull
    <2> HIDE DEF IInv
    <2>4. Len(described[w] \o todo[w]) = Len(described[w]) + Len(todo[w])
      BY <2>2, ConcatProperties
    <2> QED
      BY <2>2, <2>3, <2>4
  <1>3. row' = file
    <2>1. file \in Seq(Cells) /\ TornLast(file)
      BY DEF TypeOK, TornAtEnd, TornLast
    <2>2. row' = described[w] \o TailOf(file, Len(described[w]), Len(file))
      BY <1>1, <1>2
    <2>3. Len(row') = Len(file) => row' = file
      BY <1>2, <2>1, <2>2, ReadOn
    <2>4. Len(row') # Len(file) => Len(file) = Len(row') + 1 /\ file[Len(file)] = Torn
      BY <1>2, <2>1, <2>2, ReadOn
    <2>5. row' \in Seq(Records)
      BY <1>2, <2>1, <2>2, ReadOn
    <2>6. Len(file) \in Nat /\ Len(row') \in Nat
      BY <1>2, <2>5, LenProperties
    <2>7. \A i \in 1..Len(file) : file[i] # Torn
      <3>1. file \in Seq(Records)
        BY <1>2
      <3>2. \A i \in 1..Len(file) : file[i] \in Records
        BY <3>1, ElementOfSeq
      <3> QED
        BY <3>2, Participants
    <2> QED
      BY <2>3, <2>4, <2>6, <2>7
  <1>4. TypeOK'
    <2>1. <<>> \in Seq(Records)
      BY EmptySeq
    <2>2. Range(batch[w]) \subseteq Records
      BY <1>1, RangeOfSeq DEF TypeOK
    <2> QED
      BY <1>1, <1>2, <1>3, <2>1, <2>2 DEF TypeOK, Places
  <1>5. (LockHeld /\ FoldLockHeld /\ Roles)'
    BY <1>1, Participants DEF LockHeld, FoldLockHeld, Roles, Inside, Knowing,
                              TypeOK, Actors
  <1>6. Describes(file, file) /\ Len(file) \in Nat
    <2>1. Len(file) \in Nat
      BY <1>2, LenProperties
    <2> QED
      BY <2>1 DEF Describes
  <1>7. (StoreKnown /\ TornAtEnd)'
    BY <1>1, <1>3, <1>6 DEF StoreKnown, TornAtEnd
  <1>8. WriterKnows'
    <2>1. \A v \in Writers \ {w} : pc'[v] = "idle"
      BY <1>1, Alone DEF TypeOK, Actors
    <2>2. described'[w] = file /\ row' = file /\ file' = file
      BY <1>1, <1>3 DEF TypeOK
    <2>3. Remembers(w)'
      BY <1>6, <2>2 DEF Remembers
    <2>4. pc'[w] = "ready"
      BY <1>1 DEF TypeOK
    <2> QED
      BY <2>1, <2>3, <2>4 DEF WriterKnows, Knowing
  <1> QED
    BY <1>3, <1>4, <1>5, <1>7, <1>8

-----------------------------------------------------------------------------
(* What the system does to its processes. *)
LEMMA Dies ==
    ASSUME IInv, NEW p \in Procs, Kill(p)
    PROVE  IInv'
  <1> USE DEF IInv
  <1> DEFINE dead == {a \in Actors : ProcOf[a] = p}
  <1>1. /\ file' = file \/ \E w \in Writing(dead) : file' \in TornBy(w, file)
        /\ Forget(dead)
        /\ UNCHANGED <<synced, row, acked>>
    BY DEF Kill, db
  <1> HIDE DEF dead
  <1>2. /\ pc' = [a \in Actors |-> IF a \in dead THEN "idle" ELSE pc[a]]
        /\ described' = [a \in Actors |-> IF a \in dead THEN <<>> ELSE described[a]]
        /\ batch' = [a \in Actors |-> IF a \in dead THEN <<>> ELSE batch[a]]
        /\ todo' = [a \in Actors |-> IF a \in dead THEN <<>> ELSE todo[a]]
        /\ at' = [a \in Actors |-> IF a \in dead THEN 0 ELSE at[a]]
        /\ mutex' = IF mutex \in dead THEN None ELSE mutex
        /\ lock' = IF lock \in dead THEN "dead" ELSE lock
        /\ DOMAIN view' = Actors
    BY <1>1 DEF Forget, Without
  <1>3. \/ file' = file
        \/ /\ file' = Append(file, Torn)
           /\ \E w \in Writers : w \in dead /\ pc[w] = "write"
    BY <1>1 DEF Writing, TornBy
  <1>4. (LockHeld /\ FoldLockHeld /\ Roles)'
    BY <1>2, Participants DEF LockHeld, FoldLockHeld, Roles, Inside, Knowing,
                              TypeOK, Actors
  <1>5. ASSUME file' = file
        PROVE  (TypeOK /\ TornAtEnd /\ StoreKnown /\ WriterKnows)'
    <2>1. TypeOK'
      <3>1. <<>> \in Seq(Records)
        BY EmptySeq
      <3> QED
        BY <1>1, <1>2, <1>5, <3>1 DEF TypeOK, Places
    <2>2. \A v \in Writers : pc'[v] \notin Knowing \/ GoesOn(v)
      BY <1>2 DEF GoesOn, Knowing, Actors
    <2>3. (TornAtEnd /\ WriterKnows)'
      BY <1>1, <1>5, <2>2, Undisturbed
    <2>4. StoreKnown'
      BY <1>1, <1>2, <1>5 DEF StoreKnown, CaughtUp, Knowing
    <2> QED
      BY <2>1, <2>3, <2>4
  <1>6. ASSUME NEW w \in Writers, w \in dead, pc[w] = "write",
               file' = Append(file, Torn)
        PROVE  (TypeOK /\ TornAtEnd /\ StoreKnown /\ WriterKnows)'
    <2>1. /\ file \in Seq(Records) /\ row \in Seq(Records) /\ Describes(row, file)
      BY <1>6, WholeWhileWriting
    <2>2. /\ file \in Seq(Cells) /\ Torn \in Cells /\ Len(file) \in Nat
      BY <2>1, LenProperties DEF TypeOK, Cells
    <2>3. /\ file' \in Seq(Cells) /\ Len(file') = Len(file) + 1
          /\ \A i \in 1..Len(file) : file'[i] = file[i]
      BY <1>6, <2>2, AppendProperties
    <2>4. Describes(row, file')
      BY <1>6, <2>1, <2>2, PrefixOfMore
    <2>5. TypeOK'
      <3>1. <<>> \in Seq(Records)
        BY EmptySeq
      <3> QED
        BY <1>1, <1>2, <2>2, <2>3, <3>1 DEF TypeOK, Places
    <2>6. TornAtEnd'
      <3>1. \A i \in 1..Len(file) : file[i] \in Records
        BY <2>1, ElementOfSeq
      <3> QED
        BY <2>2, <2>3, <3>1, Participants DEF TornAtEnd
    <2>7. StoreKnown'
      BY <1>1, <2>4 DEF StoreKnown
    <2>8. \A v \in Writers : pc'[v] = "idle"
      BY <1>2, <1>6, Alone DEF Actors
    <2> QED
      BY <2>5, <2>6, <2>7, <2>8 DEF WriterKnows, Knowing
  <1> QED
    BY <1>3, <1>4, <1>5, <1>6

LEMMA LosesPower ==
    ASSUME IInv, PowerLoss
    PROVE  IInv'
  <1> USE DEF IInv
  <1>1. PICK n \in synced..Len(file) :
            \/ file' = SubSeq(file, 1, n)
            \/ n < Len(file) /\ file' = Append(SubSeq(file, 1, n), Torn)
    BY DEF PowerLoss
  <1>2. /\ synced' = Len(file') /\ Forget(Actors)
        /\ UNCHANGED <<row, acked>>
    BY DEF PowerLoss, db
  <1>3. /\ pc' = [a \in Actors |-> "idle"]
        /\ described' = [a \in Actors |-> <<>>]
        /\ batch' = [a \in Actors |-> <<>>]
        /\ todo' = [a \in Actors |-> <<>>]
        /\ at' = [a \in Actors |-> 0]
        /\ mutex' = IF mutex \in Actors THEN None ELSE mutex
        /\ lock' = IF lock \in Actors THEN "dead" ELSE lock
        /\ DOMAIN view' = Actors
    BY <1>2 DEF Forget, Without
  <1> DEFINE s == SubSeq(file, 1, n)
  <1>4. n \in Nat /\ Len(file) \in Nat /\ n <= Len(file) /\ file \in Seq(Cells)
    BY <1>1, LenProperties DEF TypeOK
  <1>5. /\ s \in Seq(Cells) /\ Len(s) = n
        /\ \A i \in 1..n : s[i] = file[i]
    <2>1. \A i \in 1..n : file[i] \in Cells
      BY <1>4, ElementOfSeq
    <2> QED
      BY <1>4, <2>1, SubSeqProperties
  <1>6. /\ file' \in Seq(Cells) /\ Len(file') \in Nat
        /\ TornAtEnd'
    <2>1. CASE file' = s
      <3>1. Len(file') = n
        BY <1>5, <2>1
      <3>2. \A i \in 1..(n - 1) : file'[i] = file[i]
        BY <1>4, <1>5, <2>1
      <3> QED
        BY <1>4, <1>5, <2>1, <3>1, <3>2 DEF TornAtEnd
    <2>2. CASE n < Len(file) /\ file' = Append(s, Torn)
      <3>1. Torn \in Cells
        BY DEF Cells
      <3> HIDE DEF s
      <3>2. /\ file' \in Seq(Cells) /\ Len(file') = n + 1
            /\ \A i \in 1..n : file'[i] = s[i]
        BY <1>5, <2>2, <3>1, AppendProperties
      <3> QED
        BY <1>4, <1>5, <2>2, <3>2 DEF TornAtEnd
    <2> QED
      BY <1>1, <2>1, <2>2
  <1>7. TypeOK'
    <2>1. <<>> \in Seq(Records)
      BY EmptySeq
    <2>2. synced' \in 0..Len(file')
      BY <1>2, <1>6
    <2> QED
      BY <1>2, <1>3, <1>6, <2>1, <2>2 DEF TypeOK, Places
  <1>8. (LockHeld /\ FoldLockHeld /\ Roles /\ StoreKnown /\ WriterKnows)'
    BY <1>3 DEF LockHeld, FoldLockHeld, Roles, StoreKnown, WriterKnows, Inside,
                Knowing, CaughtUp, Actors
  <1> QED
    BY <1>6, <1>7, <1>8

-----------------------------------------------------------------------------
LEMMA Inductive == IInv /\ [Next]_vars => IInv'
  <1> SUFFICES ASSUME IInv, [Next]_vars PROVE IInv'
    OBVIOUS
  <1>1. ASSUME NEW w \in Writers, WriterStep(w) PROVE IInv'
    <2>1. w \in Actors
      BY DEF Actors
    <2> QED
      BY <1>1, <2>1, Opens, Enters, Checks, FoldsTail, Cuts, Settles, Dedupes,
         Refuses, EndsDedupe, WritesRecord, Syncs, Commits
      DEF WriterStep
  <1>2. ASSUME NEW w \in Writers, WriterStart(w) PROVE IInv'
    <2>1. w \in Actors
      BY DEF Actors
    <2> QED
      BY <1>2, <2>1, Opens, Begins, Closes DEF WriterStart
  <1>3. ASSUME NEW r \in Readers, ReaderStep(r) \/ ReaderStart(r) PROVE IInv'
    <2>1. r \in Actors
      BY DEF Actors
    <2> QED
      BY <1>3, <2>1, Enters, Checks, FoldsTail, Reads, Closes
      DEF ReaderStep, ReaderStart
  <1>4. ASSUME Fault PROVE IInv'
    BY <1>4, Enters, FailsToWrite, Refuses, Dies, LosesPower DEF Fault
  <1>5. ASSUME BreakLock PROVE IInv'
    <2>1. lock = "dead" /\ lock' = None
      BY <1>5 DEF BreakLock
    <2>2. UNCHANGED <<file, synced, row, mutex, pc, described, batch, todo, at,
                      view, acked>>
      BY <1>5 DEF BreakLock, disk, db, mem, job
    <2>3. TypeOK'
      BY <2>1, <2>2 DEF IInv, TypeOK
    <2>4. (LockHeld /\ FoldLockHeld /\ Roles /\ StoreKnown)'
      BY <2>1, <2>2, Participants DEF IInv, LockHeld, FoldLockHeld, Roles,
                                      StoreKnown, Actors
    <2>5. (TornAtEnd /\ WriterKnows)'
      BY <2>2, Undisturbed DEF GoesOn
    <2> QED
      BY <2>3, <2>4, <2>5 DEF IInv
  <1>6. ASSUME UNCHANGED vars PROVE IInv'
    BY <1>6 DEF vars, IInv, TypeOK, TornAtEnd, LockHeld, FoldLockHeld, Roles,
                StoreKnown, WriterKnows, Remembers, AtCut, Settled, Writes
  <1> QED
    BY <1>1, <1>2, <1>3, <1>4, <1>5, <1>6 DEF Next

LEMMA Invariant == Spec => []IInv
  BY Initially, Inductive, PTL DEF Spec

(* All that ever happens to the log. *)
Lengthened == /\ file \in Seq(Records)
              /\ \E c \in Cells : file' = Append(file, c)
              /\ \E w \in Writers :
                    /\ pc[w] = "write"
                    /\ \/ WriteLog(w)
                       \/ /\ file' = Append(file, Torn)
                          /\ Faults \cap {"kill", "io"} # {}

LEMMA LogSteps ==
    ASSUME IInv, [Next]_vars
    PROVE  \/ file' = file \/ Lengthened \/ PowerLoss
           \/ \E w \in Writers : CutTail(w)
  <1>1. ASSUME NEW w \in Writers, WriterStep(w) \/ WriterStart(w)
        PROVE  file' = file \/ Lengthened \/ CutTail(w)
    <2>1. ASSUME WriteLog(w) PROVE Lengthened
      <3>1. /\ pc[w] = "write" /\ at[w] < Len(todo[w])
            /\ file' = Append(file, todo[w][at[w] + 1])
        BY <2>1 DEF WriteLog
      <3>2. /\ file \in Seq(Records) /\ todo[w] \in Seq(Records)
            /\ at[w] + 1 \in 1..Len(todo[w])
        BY <3>1, WholeWhileWriting
      <3>3. todo[w][at[w] + 1] \in Cells
        BY <3>2, ElementOfSeq DEF Cells
      <3> QED
        BY <2>1, <3>1, <3>2, <3>3 DEF Lengthened
    <2> QED
      BY <1>1, <2>1
      DEF WriterStep, WriterStart, OpenShared, GiveUp, EnterCatchUp, CheckPrefix,
          FoldTail, Settle, Dedupe, NoHashes, Deduped, SyncLog, Commit,
          AcquireLock, BeginAppend, TakeReader, CloseWriter, CloseView, disk
  <1>2. ASSUME NEW r \in Readers, ReaderStep(r) \/ ReaderStart(r)
        PROVE  file' = file
    BY <1>2 DEF ReaderStep, ReaderStart, EnterCatchUp, CheckPrefix, FoldTail,
                Load, OpenReader, ReadLog, CloseView, disk
  <1>3. ASSUME NEW w \in Writers, pc[w] = "write", file' \in TornBy(w, file),
               Faults \cap {"kill", "io"} # {}
        PROVE  file' = file \/ Lengthened
    <2>1. file' = file \/ file' = Append(file, Torn)
      BY <1>3 DEF TornBy
    <2>2. file \in Seq(Records) /\ Torn \in Cells
      BY <1>3, WholeWhileWriting DEF Cells
    <2> QED
      BY <1>3, <2>1, <2>2 DEF Lengthened
  <1>4. ASSUME Fault PROVE file' = file \/ Lengthened \/ PowerLoss
    <2>1. ASSUME NEW a \in Actors, FoldFails(a) PROVE file' = file
      BY <2>1 DEF FoldFails, disk
    <2>2. ASSUME NEW w \in Writers, CommitFails(w) PROVE file' = file
      BY <2>2 DEF CommitFails, disk
    <2>3. ASSUME NEW w \in Writers, WriteFails(w) PROVE file' = file \/ Lengthened
      BY <2>3, <1>3 DEF WriteFails
    <2>4. ASSUME NEW p \in Procs, Kill(p) PROVE file' = file \/ Lengthened
      BY <2>4, <1>3 DEF Kill, Writing
    <2> QED
      BY <1>4, <2>1, <2>2, <2>3, <2>4 DEF Fault
  <1>5. BreakLock => file' = file
    BY DEF BreakLock, disk
  <1>6. UNCHANGED vars => file' = file
    BY DEF vars
  <1> QED
    BY <1>1, <1>2, <1>4, <1>5, <1>6 DEF Next

(* Whoever changes what the store describes has caught up, or clears it.   *)
LEMMA StoreSteps ==
    ASSUME IInv, [Next]_vars
    PROVE  row' = row \/ row' = None \/ \E a \in Actors : pc'[a] \in CaughtUp
  <1>1. ASSUME NEW a \in Actors, FoldTail(a) PROVE pc'[a] \in CaughtUp
    BY <1>1 DEF FoldTail, Goto, IInv, TypeOK, CaughtUp, Knowing
  <1>2. ASSUME NEW w \in Writers, Settle(w) \/ Commit(w)
        PROVE  pc'[w] \in CaughtUp /\ w \in Actors
    BY <1>2 DEF Settle, Commit, Ok, Return, Goto, IInv, TypeOK, CaughtUp, Knowing,
                Actors
  <1>3. ASSUME NEW a \in Actors, CheckPrefix(a) PROVE row' = row \/ row' = None
    BY <1>3 DEF CheckPrefix, Clear, db
  <1>4. ASSUME NEW w \in Writers, WriterStep(w) \/ WriterStart(w)
        PROVE  row' = row \/ row' = None \/ \E a \in Actors : pc'[a] \in CaughtUp
    <2>1. w \in Actors
      BY DEF Actors
    <2> QED
      BY <1>1, <1>2, <1>3, <1>4, <2>1
      DEF WriterStep, WriterStart, OpenShared, GiveUp, EnterCatchUp, CutTail,
          Dedupe, NoHashes, Deduped, WriteLog, SyncLog,
          AcquireLock, BeginAppend, TakeReader, CloseWriter, CloseView, db
  <1>5. ASSUME NEW r \in Readers, ReaderStep(r) \/ ReaderStart(r)
        PROVE  row' = row \/ row' = None \/ \E a \in Actors : pc'[a] \in CaughtUp
    <2>1. r \in Actors
      BY DEF Actors
    <2> QED
      BY <1>1, <1>3, <1>5, <2>1
      DEF ReaderStep, ReaderStart, EnterCatchUp, Load, OpenReader, ReadLog,
          CloseView, db
  <1>6. Fault \/ BreakLock \/ UNCHANGED vars => row' = row
    BY DEF Fault, FoldFails, WriteFails, CommitFails, Kill, PowerLoss, BreakLock,
           vars, db
  <1> QED
    BY <1>4, <1>5, <1>6 DEF Next

-----------------------------------------------------------------------------
(* Every variable has its type, the database's row included: it never      *)
(* describes bytes that are no record (build.rs `fold`).                   *)
THEOREM TypeCorrect == Spec => []TypeOK
  <1>1. IInv => TypeOK
    BY DEF IInv
  <1> QED
    BY <1>1, Invariant, PTL

(* No process and no order of deaths, failed writes and reopenings makes a *)
(* writer write after bytes that are no record (shard.rs `open_rw`,        *)
(* `settle`).                                                              *)
THEOREM NeverAfterTorn == Spec => []TornAtEnd
  <1>1. IInv => TornAtEnd
    BY DEF IInv
  <1> QED
    BY <1>1, Invariant, PTL

(* Power failures and forced rebuilds included, a thread that has caught   *)
(* up has a store of a prefix of the log it has (build.rs `catch_up`).     *)
THEOREM CaughtUpNotAhead == Spec => []CaughtUpDescribes
  <1>1. IInv => CaughtUpDescribes
    BY DEF IInv, StoreKnown, CaughtUp, Knowing, CaughtUpDescribes, StoreBehindLog
  <1> QED
    BY <1>1, Invariant, PTL

(* A writer's own count of what is described and written is where the file *)
(* ends (shard.rs `append`).                                               *)
THEOREM AppendsInPlace == Spec => []WritesWhereDescribed
  <1>1. IInv => WritesWhereDescribed
    BY DEF IInv, WriterKnows, Writes, WritesWhereDescribed
  <1> QED
    BY <1>1, Invariant, PTL

(* Without power failures the database never describes what the log has    *)
(* not got, whoever dies and whatever fails (build.rs `fold`).             *)
THEOREM NeverAhead ==
    ASSUME "power" \notin Faults
    PROVE  Spec => []StoreBehindLog
  <1>1. Init => StoreBehindLog
    BY DEF Init, StoreBehindLog
  <1>2. IInv /\ StoreBehindLog /\ [Next]_vars => StoreBehindLog'
    <2> SUFFICES ASSUME IInv, StoreBehindLog, [Next]_vars, IInv' PROVE StoreBehindLog'
      BY Inductive
    <2>1. CASE \E a \in Actors : pc'[a] \in CaughtUp
      BY <2>1 DEF IInv, StoreKnown, StoreBehindLog
    <2>2. CASE row' = None
      BY <2>2 DEF StoreBehindLog
    <2>3. CASE row' = row /\ file' = file
      BY <2>3 DEF StoreBehindLog
    <2>4. CASE row' = row /\ Lengthened
      <3>1. PICK c \in Cells : file' = Append(file, c)
        BY <2>4 DEF Lengthened
      <3>2. file \in Seq(Cells) /\ (row # None => row \in Seq(Records))
        BY DEF IInv, TypeOK
      <3> QED
        BY <2>4, <3>1, <3>2, PrefixOfMore DEF StoreBehindLog
    <2>5. ASSUME NEW w \in Writers, CutTail(w)
          PROVE  \E a \in Actors : pc'[a] \in CaughtUp
      BY <2>5 DEF CutTail, Goto, IInv, TypeOK, CaughtUp, Knowing, Actors
    <2>6. ~PowerLoss
      BY DEF PowerLoss
    <2> QED
      BY <2>1, <2>2, <2>3, <2>4, <2>5, <2>6, LogSteps, StoreSteps
  <1> QED
    BY <1>1, <1>2, Invariant, PTL DEF Spec

(* What a reader of a whole log, and of one with a cell more, is given.    *)
LEMMA ReadableOf ==
    ASSUME NEW f \in Seq(Cells), TornLast(f)
    PROVE  /\ Len(Readable(f)) = End(f)
           /\ \A i \in 1..End(f) : Readable(f)[i] = f[i]
           /\ End(f) \in Nat
  <1>1. End(f) \in 0..Len(f) /\ Len(f) \in Nat
    BY EndOfLog, LenProperties
  <1>2. \A i \in 1..End(f) : f[i] \in Cells
    BY <1>1, ElementOfSeq
  <1> HIDE DEF End
  <1>3. /\ Len(SubSeq(f, 1, End(f))) = End(f)
        /\ \A i \in 1..End(f) : SubSeq(f, 1, End(f))[i] = f[i]
    BY <1>1, <1>2, SubSeqProperties
  <1> QED
    BY <1>1, <1>3 DEF Readable

LEMMA Grown ==
    ASSUME IInv, IInv', file' = file \/ Lengthened \/ \E w \in Writers : CutTail(w)
    PROVE  Describes(Readable(file), Readable(file'))
  <1>1. /\ file \in Seq(Cells) /\ TornLast(file)
        /\ file' \in Seq(Cells) /\ TornLast(file')
        /\ Len(file) \in Nat /\ Len(file') \in Nat
    BY LenProperties DEF IInv, TypeOK, TornAtEnd, TornLast
  <1> DEFINE m == End(file)
             n == End(file')
  <1>2. /\ Len(Readable(file)) = m /\ Len(Readable(file')) = n
        /\ \A i \in 1..m : Readable(file)[i] = file[i]
        /\ \A i \in 1..n : Readable(file')[i] = file'[i]
        /\ m \in Nat /\ n \in Nat
    BY <1>1, ReadableOf
  <1>3. /\ m \in {Len(file), Len(file) - 1}
        /\ n \in {Len(file'), Len(file') - 1}
        /\ Len(file) > 0 /\ file[Len(file)] = Torn => m = Len(file) - 1
        /\ n = Len(file') - 1 => file'[Len(file')] = Torn
    BY <1>1, EndOfLog
  <1>4. m <= n /\ \A i \in 1..m : file'[i] = file[i]
    <2>1. CASE file' = file
      BY <1>2, <2>1
    <2>2. CASE Lengthened
      <3>1. PICK c \in Cells : file' = Append(file, c)
        BY <2>2 DEF Lengthened
      <3>2. Len(file') = Len(file) + 1 /\ \A i \in 1..Len(file) : file'[i] = file[i]
        BY <1>1, <3>1, AppendProperties
      <3> HIDE DEF m, n
      <3> QED
        BY <1>1, <1>2, <1>3, <3>2
    <2>3. ASSUME NEW w \in Writers, CutTail(w)
          PROVE  m <= n /\ \A i \in 1..m : file'[i] = file[i]
      <3> DEFINE d == described[w]
      <3>1. /\ Describes(d, file) /\ Len(file) = Len(d) + 1 /\ file[Len(file)] = Torn
            /\ file' = SubSeq(file, 1, Len(d)) /\ d \in Seq(Records)
        BY <2>3 DEF CutTail, IInv, WriterKnows, Knowing, Remembers, AtCut, TypeOK, Actors
      <3>2. Len(d) \in Nat /\ \A i \in 1..Len(d) : d[i] \in Records
        BY <3>1, LenProperties, ElementOfSeq
      <3>3. \A i \in 1..Len(d) : file[i] \in Cells
        BY <1>1, <3>1, <3>2, ElementOfSeq
      <3> HIDE DEF d, m, n
      <3>4. Len(file') = Len(d) /\ \A i \in 1..Len(d) : file'[i] = file[i]
        BY <3>1, <3>2, <3>3, SubSeqProperties
      <3>5. m = Len(d)
        BY <1>3, <3>1, <3>2
      <3>6. Len(d) > 0 => file'[Len(file')] # Torn
        BY <3>1, <3>2, <3>4, Participants DEF Describes
      <3>7. n = Len(d)
        BY <1>2, <1>3, <3>2, <3>4, <3>6
      <3> QED
        BY <1>2, <3>4, <3>5, <3>7
    <2> QED
      BY <2>1, <2>2, <2>3
  <1> HIDE DEF m, n
  <1> QED
    BY <1>2, <1>4 DEF Describes

(* Every step of every thread, the cut of a torn tail included, leaves all *)
(* that could be read from the log where it was; only a power failure can  *)
(* take any of it (shard.rs `cut_tail`, `append`).                         *)
THEOREM OnlyGrows == Spec => LogOnlyGrows
  <1>1. IInv /\ IInv' /\ [Next]_vars =>
            [PowerLoss \/ Describes(Readable(file), Readable(file'))]_vars
    BY LogSteps, Grown
  <1> QED
    BY <1>1, Invariant, PTL DEF Spec, LogOnlyGrows

-----------------------------------------------------------------------------
(***************************************************************************)
(* Snapshots.  Between the fold and the read transaction a reader holds no *)
(* lock: what it was told is described must still be described by whatever *)
(* the store says when it looks, through other threads' folds, clears and  *)
(* appends.                                                                *)
(***************************************************************************)
Seen(a) == /\ view[a].described \in Seq(Records) /\ view[a].of \in Seq(Records)
           /\ Describes(view[a].described, view[a].of)
           /\ Describes(view[a].of, file)

Told(a) == /\ Describes(described[a], file)
           /\ row # None => Len(described[a]) <= Len(row)

SInv == \A a \in Actors : /\ view[a] # NoView => Seen(a)
                          /\ pc[a] = "load" => Told(a)

(* Of two prefixes of one log the shorter is a prefix of the longer. *)
LEMMA PrefixesNest ==
    ASSUME NEW d \in Seq(Records), NEW e \in Seq(Records), NEW f,
           Describes(d, f), Describes(e, f), Len(d) <= Len(e)
    PROVE  Describes(d, e)
  BY LenProperties DEF Describes

(* What was folded stays a prefix of the log. *)
LEMMA PrefixStays ==
    ASSUME IInv, IInv', file' = file \/ Lengthened \/ \E w \in Writers : CutTail(w),
           NEW d \in Seq(Records), Describes(d, file)
    PROVE  Describes(d, file')
  <1>1. /\ file \in Seq(Cells) /\ TornLast(file) /\ Len(file) \in Nat
        /\ file' \in Seq(Cells) /\ TornLast(file') /\ Len(file') \in Nat
    BY LenProperties DEF IInv, TypeOK, TornAtEnd, TornLast
  <1>2. /\ Len(d) \in Nat /\ Len(d) <= Len(file)
        /\ \A i \in 1..Len(d) : d[i] = file[i] /\ file[i] # Torn
    BY LenProperties, ElementOfSeq, Participants DEF Describes
  <1>3. /\ End(file) \in Nat
        /\ End(file) = Len(file) \/ (End(file) = Len(file) - 1 /\ file[Len(file)] = Torn)
        /\ Len(Readable(file)) = End(file)
        /\ \A i \in 1..End(file) : Readable(file)[i] = file[i]
    BY <1>1, EndOfLog, ReadableOf
  <1>4. /\ End(file') \in 0..Len(file')
        /\ Len(Readable(file')) = End(file')
        /\ \A i \in 1..End(file') : Readable(file')[i] = file'[i]
    BY <1>1, EndOfLog, ReadableOf
  <1>5. Describes(Readable(file), Readable(file'))
    BY Grown
  <1>6. Len(d) <= End(file)
    BY <1>1, <1>2, <1>3
  <1>7. Len(d) <= End(file') /\ \A i \in 1..Len(d) : d[i] = file'[i]
    BY <1>2, <1>3, <1>4, <1>5, <1>6 DEF Describes
  <1> QED
    BY <1>1, <1>2, <1>4, <1>7 DEF Describes

(* Nobody makes the store describe less than a reader was told. *)
LEMMA RowSteps ==
    ASSUME IInv, [Next]_vars
    PROVE  row' = row \/ row' = None \/ ReadToEnd(row')
  <1>1. ASSUME NEW w \in Writers, Commit(w) PROVE ReadToEnd(row')
    <2>1. row' = file
      BY <1>1, Commits
    <2>2. file \in Seq(Records)
      BY <1>1, WholeWhileWriting DEF Commit
    <2>3. Len(file) \in Nat
      BY <2>2, LenProperties
    <2> QED
      BY <2>1, <2>2, <2>3 DEF ReadToEnd, Describes
  <1>2. ASSUME NEW a \in Actors, CheckPrefix(a) PROVE row' = row \/ row' = None
    BY <1>2 DEF CheckPrefix, Clear, db
  <1>3. ASSUME NEW w \in Writers, WriterStep(w) \/ WriterStart(w)
        PROVE  row' = row \/ row' = None \/ ReadToEnd(row')
    <2>1. w \in Actors
      BY DEF Actors
    <2> QED
      BY <1>1, <1>2, <1>3, <2>1, FoldsTail, Settles
      DEF WriterStep, WriterStart, OpenShared, GiveUp, EnterCatchUp, CutTail,
          Dedupe, NoHashes, Deduped, WriteLog, SyncLog,
          AcquireLock, BeginAppend, TakeReader, CloseWriter, CloseView, db
  <1>4. ASSUME NEW r \in Readers, ReaderStep(r) \/ ReaderStart(r)
        PROVE  row' = row \/ row' = None \/ ReadToEnd(row')
    <2>1. r \in Actors
      BY DEF Actors
    <2> QED
      BY <1>2, <1>4, <2>1, FoldsTail
      DEF ReaderStep, ReaderStart, EnterCatchUp, Load, OpenReader, ReadLog,
          CloseView, db
  <1>5. Fault \/ BreakLock \/ UNCHANGED vars => row' = row
    BY DEF Fault, FoldFails, WriteFails, CommitFails, Kill, PowerLoss, BreakLock,
           vars, db
  <1> QED
    BY <1>3, <1>4, <1>5 DEF Next

(* A snapshot just taken, of the log or of the store. *)
Taken(v, f) == /\ v.described \in Seq(Records) /\ v.of \in Seq(Records)
            /\ Describes(v.described, v.of) /\ Describes(v.of, f)

LEMMA LogSnapshot ==
    ASSUME IInv
    PROVE  Taken([described |-> Readable(file), of |-> Readable(file)], file)
  <1>1. file \in Seq(Cells) /\ TornLast(file) /\ Len(file) \in Nat
    BY LenProperties DEF IInv, TypeOK, TornAtEnd, TornLast
  <1>2. End(file) \in 0..Len(file) /\ IsCut(file, End(file))
    BY <1>1, EndOfLog
  <1>3. /\ Len(Readable(file)) = End(file)
        /\ \A i \in 1..End(file) : Readable(file)[i] = file[i]
    BY <1>1, ReadableOf
  <1>4. \A i \in 1..End(file) : file[i] \in Records
    BY <1>1, <1>2, ElementOfSeq DEF IsCut, Cells
  <1>5. Readable(file) \in Seq(Records)
    <2> DEFINE e == End(file)
    <2>1. e \in Int
      BY <1>2
    <2> HIDE DEF e
    <2>2. SubSeq(file, 1, e) \in Seq(Records)
      BY <1>4, <2>1, SubSeqProperties DEF e
    <2> QED
      BY <2>2 DEF Readable, e
  <1> QED
    BY <1>1, <1>2, <1>3, <1>5 DEF Taken, Describes

LEMMA StoreSnapshot ==
    ASSUME IInv, NEW a \in Actors, row # None, described[a] \in Seq(Records),
           pc[a] \in CaughtUp, Describes(described[a], file),
           Len(described[a]) <= Len(row)
    PROVE  Taken(Snapshot(described[a]), file)
  <1>1. row \in Seq(Records) /\ Describes(row, file)
    BY DEF IInv, TypeOK, StoreKnown
  <1>2. Describes(described[a], row)
    BY <1>1, PrefixesNest
  <1> QED
    BY <1>1, <1>2 DEF Taken, Snapshot

(* What becomes of one thread's snapshot in a step. *)
Keeps(a) == \/ view'[a] = view[a]
            \/ view'[a] = NoView
            \/ Taken(view'[a], file) /\ file' = file

LEMMA SeenSteps ==
    ASSUME IInv, SInv, [Next]_vars, NEW a \in Actors
    PROVE  Keeps(a)
  <1> USE DEF Keeps
  <1>0. DOMAIN view = Actors /\ described \in [Actors -> Seq(Records)]
    BY DEF IInv, TypeOK
  <1>1. ASSUME NEW r \in Readers, ReadLog(r) PROVE Keeps(a)
    <2> DEFINE v == [described |-> Readable(file), of |-> Readable(file)]
    <2>1. view' = [view EXCEPT ![r] = v] /\ file' = file
      BY <1>1 DEF ReadLog, disk
    <2>2. Taken(v, file)
      BY LogSnapshot
    <2> HIDE DEF v
    <2> QED
      BY <1>0, <2>1, <2>2
  <1>2. ASSUME NEW r \in Readers, Load(r) PROVE Keeps(a)
    <2>1. CASE row = None
      BY <1>2, <2>1 DEF Load
    <2>2. CASE row # None
      <3>1. /\ view' = [view EXCEPT ![r] = Snapshot(described[r])] /\ file' = file
            /\ pc[r] = "load" /\ r \in Actors
        BY <1>2, <2>2 DEF Load, disk, Actors
      <3>2. Taken(Snapshot(described[r]), file)
        <4>1. Describes(described[r], file) /\ Len(described[r]) <= Len(row)
          BY <2>2, <3>1 DEF SInv, Told
        <4>2. pc[r] \in CaughtUp /\ described[r] \in Seq(Records)
          BY <1>0, <3>1 DEF CaughtUp
        <4> QED
          BY <2>2, <3>1, <4>1, <4>2, StoreSnapshot
      <3> QED
        BY <1>0, <3>1, <3>2
    <2> QED
      BY <2>1, <2>2
  <1>3. ASSUME NEW w \in Writers, TakeReader(w) PROVE Keeps(a)
    <2>1. /\ view' = [view EXCEPT ![w] = Snapshot(described[w])] /\ file' = file
          /\ pc[w] = "ready" /\ row # None /\ w \in Actors
      BY <1>3 DEF TakeReader, disk, Actors
    <2>2. Taken(Snapshot(described[w]), file)
      BY <1>0, <2>1, StoreSnapshot DEF IInv, WriterKnows, Remembers, CaughtUp, Knowing
    <2> QED
      BY <1>0, <2>1, <2>2
  <1>4. ASSUME NEW b \in Actors, CloseView(b) PROVE Keeps(a)
    BY <1>0, <1>4 DEF CloseView
  <1>5. ASSUME NEW w \in Writers, WriterStep(w) \/ WriterStart(w) PROVE Keeps(a)
    <2>1. w \in Actors
      BY DEF Actors
    <2> QED
      BY <1>3, <1>4, <1>5, <2>1
      DEF WriterStep, WriterStart, OpenShared, GiveUp, EnterCatchUp, CheckPrefix,
          FoldTail, CutTail, Settle, Dedupe, NoHashes, Deduped, WriteLog, SyncLog,
          Commit, AcquireLock, BeginAppend, CloseWriter
  <1>6. ASSUME NEW r \in Readers, ReaderStep(r) \/ ReaderStart(r) PROVE Keeps(a)
    <2>1. r \in Actors
      BY DEF Actors
    <2> QED
      BY <1>1, <1>2, <1>4, <1>6, <2>1
      DEF ReaderStep, ReaderStart, EnterCatchUp, CheckPrefix, FoldTail, OpenReader
  <1>7. ASSUME Fault PROVE Keeps(a)
    <2>1. ASSUME NEW dead, Forget(dead) PROVE Keeps(a)
      BY <2>1 DEF Forget, Without
    <2> QED
      BY <1>7, <2>1 DEF Fault, FoldFails, WriteFails, CommitFails, Kill, PowerLoss
  <1>8. BreakLock \/ UNCHANGED vars => Keeps(a)
    BY DEF BreakLock, vars
  <1> QED
    BY <1>5, <1>6, <1>7, <1>8 DEF Next

(* What becomes of what a reader about to look was told. *)
Hears(a) == pc'[a] = "load" =>
                \/ pc[a] = "load" /\ described'[a] = described[a]
                \/ file' = file /\ ReadToEnd(row') /\ described'[a] = row'

LEMMA ToldSteps ==
    ASSUME IInv, [Next]_vars, NEW a \in Actors
    PROVE  Hears(a)
  <1> USE DEF Hears
  <1>0. /\ pc \in [Actors -> Places] /\ described \in [Actors -> Seq(Records)]
        /\ \A w \in Writers : w \in Actors /\ pc[w] # "load"
    BY DEF IInv, TypeOK, Roles, Actors
  <1>1. ASSUME NEW b \in Actors, FoldTail(b) PROVE Hears(a)
    <2>1. /\ ReadToEnd(row') /\ described' = [described EXCEPT ![b] = row']
      BY <1>1, FoldsTail
    <2>2. file' = file
      BY <1>1 DEF FoldTail, disk
    <2>3. a # b => pc'[a] = pc[a]
      BY <1>0, <1>1 DEF FoldTail, Goto
    <2> QED
      BY <1>0, <2>1, <2>2, <2>3
  <1>2. ASSUME NEW w \in Writers, WriterStep(w) \/ WriterStart(w) PROVE Hears(a)
    <2>1. w \in Actors /\ pc[w] # "load"
      BY <1>0
    <2>2. FoldTail(w) \/ (pc'[w] # "load" /\ \A b \in Actors \ {w} :
                              pc'[b] = pc[b] /\ described'[b] = described[b])
      BY <1>0, <1>2, <2>1, Participants
      DEF WriterStep, WriterStart, OpenShared, GiveUp, EnterCatchUp, CheckPrefix,
          CutTail, Settle, Dedupe, NoHashes, Deduped, WriteLog, SyncLog,
          Commit, AcquireLock, BeginAppend, CloseWriter, TakeReader, CloseView,
          Leave, Return, Ok, Refuse, Goto, mem
    <2> QED
      BY <1>1, <2>1, <2>2
  <1>3. ASSUME NEW r \in Readers, ReaderStep(r) \/ ReaderStart(r) PROVE Hears(a)
    <2>1. r \in Actors
      BY DEF Actors
    <2>2. FoldTail(r) \/ (pc'[r] # "load" /\ \A b \in Actors \ {r} :
                              pc'[b] = pc[b] /\ described'[b] = described[b])
      BY <1>0, <1>3, <2>1
      DEF ReaderStep, ReaderStart, EnterCatchUp, CheckPrefix, OpenReader, ReadLog,
          Load, CloseView, Goto, mem
    <2> QED
      BY <1>1, <2>1, <2>2
  <1>4. ASSUME Fault PROVE Hears(a)
    <2>1. ASSUME NEW dead, Forget(dead) PROVE Hears(a)
      BY <2>1 DEF Forget, Without
    <2>2. ASSUME NEW b \in Actors, FoldFails(b) PROVE Hears(a)
      BY <1>0, <2>2 DEF FoldFails, Leave, Goto
    <2>3. ASSUME NEW w \in Writers, WriteFails(w) \/ CommitFails(w) PROVE Hears(a)
      BY <1>0, <2>3 DEF WriteFails, CommitFails, Refuse, Return, Goto
    <2> QED
      BY <1>4, <2>1, <2>2, <2>3 DEF Fault, Kill, PowerLoss
  <1>5. BreakLock \/ UNCHANGED vars => Hears(a)
    BY DEF BreakLock, vars, mem
  <1> QED
    BY <1>2, <1>3, <1>4, <1>5 DEF Next

LEMMA SnapshotsInductive == IInv /\ SInv /\ [Next]_vars => SInv'
  <1> SUFFICES ASSUME IInv, IInv', SInv, [Next]_vars PROVE SInv'
    BY Inductive
  <1>1. CASE PowerLoss
    <2>1. \A a \in Actors : pc'[a] = "idle" /\ view'[a] = NoView
      BY <1>1 DEF PowerLoss, Forget, Without
    <2> QED
      BY <2>1 DEF SInv
  <1>2. CASE file' = file \/ Lengthened \/ \E w \in Writers : CutTail(w)
    <2>1. ASSUME NEW a \in Actors, view'[a] # NoView PROVE Seen(a)'
      <3>1. CASE view'[a] = view[a]
        <4>1. Seen(a)
          BY <2>1, <3>1 DEF SInv
        <4>2. Describes(view[a].of, file')
          BY <1>2, <4>1, PrefixStays DEF Seen
        <4> QED
          BY <3>1, <4>1, <4>2 DEF Seen
      <3>2. CASE Taken(view'[a], file) /\ file' = file
        BY <3>2 DEF Taken, Seen
      <3> QED
        BY <2>1, <3>1, <3>2, SeenSteps DEF Keeps
    <2>2. ASSUME NEW a \in Actors, pc'[a] = "load" PROVE Told(a)'
      <3>1. CASE pc[a] = "load" /\ described'[a] = described[a]
        <4>1. Told(a) /\ described[a] \in Seq(Records)
          BY <3>1 DEF SInv, IInv, TypeOK
        <4>2. Describes(described[a], file')
          BY <1>2, <4>1, PrefixStays DEF Told
        <4>3. row' # None => Len(described[a]) <= Len(row')
          <5>1. CASE row' = row
            BY <4>1, <5>1 DEF Told
          <5>2. CASE ReadToEnd(row')
            <6>1. \A i \in 1..Len(described[a]) : file[i] # Torn
              BY <4>1, ElementOfSeq, Participants DEF Told, Describes
            <6>2. Len(described[a]) <= Len(file)
              BY <4>1 DEF Told, Describes
            <6>3. /\ Len(described[a]) \in Nat /\ Len(file) \in Nat
                  /\ Len(row') \in Nat
              BY <4>1, <5>2, LenProperties DEF ReadToEnd, IInv, TypeOK
            <6> QED
              BY <5>2, <6>1, <6>2, <6>3 DEF ReadToEnd
          <5> QED
            BY <5>1, <5>2, RowSteps
        <4> QED
          BY <3>1, <4>2, <4>3 DEF Told
      <3>2. CASE file' = file /\ ReadToEnd(row') /\ described'[a] = row'
        <4>1. Len(row') \in Nat
          BY <3>2, LenProperties DEF ReadToEnd
        <4> QED
          BY <3>2, <4>1 DEF ReadToEnd, Told
      <3> QED
        BY <2>2, <3>1, <3>2, ToldSteps DEF Hears
    <2> QED
      BY <2>1, <2>2 DEF SInv
  <1> QED
    BY <1>1, <1>2, LogSteps

(* A reader never gets less than it was told, and what it gets is always a *)
(* prefix of the log as it is: through forced rebuilds between its fold    *)
(* and its read transaction, cuts of torn tails, deaths and power failures *)
(* (mod.rs `open_shared`, `load`).                                         *)
THEOREM SnapshotsInOrder == Spec => []SnapshotNotBehind
  <1>1. Init => SInv
    BY DEF Init, SInv
  <1>2. SInv => SnapshotNotBehind
    BY DEF SInv, Seen, SnapshotNotBehind
  <1> QED
    BY <1>1, <1>2, SnapshotsInductive, Invariant, PTL DEF Spec
-----------------------------------------------------------------------------
(***************************************************************************)
(* What the tables say.  A step leaves row and tables as they are, clears  *)
(* both, or folds records into the tables and adds them to the row.        *)
(***************************************************************************)
Behind(w) == pc[w] = "settle" /\ Len(file) > Len(described[w])

FoldsFrom(d) == \E s \in Seq(Records) : /\ row' = d \o s
                                        /\ tables' = FoldLog(tables, One, s)

TablesStep == \/ UNCHANGED <<row, tables>>
              \/ Clear
              \/ FoldsFrom(From)
              \/ /\ row = None
                 /\ \E w \in Writers : Behind(w) /\ FoldsFrom(described[w])

LEMMA TailRecords ==
    ASSUME IInv, NEW d \in Seq(Records), Describes(d, file)
    PROVE  TailOf(file, Len(d), Len(file)) \in Seq(Records)
  BY ReadOn DEF IInv, TypeOK, TornAtEnd, TornLast

LEMMA TailFolds ==
    ASSUME IInv, NEW a \in Actors, FoldTail(a)
    PROVE  UNCHANGED <<row, tables>> \/ FoldsFrom(From)
  <1>1. row # None => row \in Seq(Records) /\ Describes(row, file)
    BY DEF FoldTail, IInv, TypeOK, StoreKnown, CaughtUp
  <1>2. From \in Seq(Records) /\ Describes(From, file)
    <2>1. Len(file) \in Nat /\ <<>> \in Seq(Records) /\ Len(<<>>) = 0
      BY LenProperties, EmptySeq DEF IInv, TypeOK
    <2> QED
      BY <1>1, <2>1 DEF From, Describes
  <1>3. TailOf(file, Len(From), Len(file)) \in Seq(Records)
    BY <1>2, TailRecords
  <1> QED
    BY <1>3 DEF FoldTail, FoldsFrom, db

LEMMA SettleFolds ==
    ASSUME IInv, NEW w \in Writers, Settle(w)
    PROVE  TablesStep
  <1> DEFINE d == Adopted(w)
  <1>1. /\ pc[w] = "settle" /\ w \in Actors /\ Remembers(w)
        /\ row # None => Describes(row, file) /\ row \in Seq(Records)
        /\ described[w] \in Seq(Records)
    BY DEF Settle, IInv, WriterKnows, StoreKnown, CaughtUp, Knowing, TypeOK, Actors
  <1>2. d \in Seq(Records) /\ Describes(d, file)
    BY <1>1 DEF Adopted, Remembers
  <1>3. row # None => d = From
    <2>1. CASE row # None /\ Len(row) <= Len(described[w])
      <3>1. Len(row) = Len(described[w])
        BY <1>1, <2>1, LenProperties DEF Remembers
      <3>2. \A i \in 1..Len(row) : row[i] = described[w][i]
        BY <1>1, <2>1, <3>1 DEF Remembers, Describes
      <3>3. row = described[w]
        BY <1>1, <2>1, <3>1, <3>2, SeqEqual
      <3> QED
        BY <2>1, <3>3 DEF Adopted, From
    <2>2. row # None => Len(row) \in Nat /\ Len(described[w]) \in Nat
      BY <1>1, LenProperties
    <2>3. CASE row # None /\ ~(Len(row) <= Len(described[w]))
      BY <2>2, <2>3 DEF Adopted, From
    <2> QED
      BY <2>1, <2>3
  <1>4. TailOf(file, Len(d), Len(file)) \in Seq(Records)
    BY <1>2, TailRecords
  <1>5. UNCHANGED <<row, tables>> \/ (Len(file) > Len(d) /\ FoldsFrom(d))
    BY <1>4 DEF Settle, FoldsFrom, db
  <1>6. row = None => d = described[w]
    BY DEF Adopted
  <1> QED
    BY <1>1, <1>3, <1>5, <1>6 DEF TablesStep, Behind

LEMMA CommitFolds ==
    ASSUME IInv, NEW w \in Writers, Commit(w)
    PROVE  FoldsFrom(From)
  <1>1. /\ pc[w] = "commit" /\ at[w] = Len(todo[w]) /\ row = described[w]
        /\ file = described[w] \o SubSeq(todo[w], 1, Len(todo[w]))
        /\ described[w] \in Seq(Records) /\ todo[w] \in Seq(Records)
        /\ row # None /\ Describes(row, file)
    BY WholeWhileWriting DEF Commit, IInv, WriterKnows
  <1>2. Len(file) = Len(described[w]) + Len(todo[w])
    <2>1. SubSeq(todo[w], 1, Len(todo[w])) = todo[w]
      BY <1>1, SubSeqFull
    <2>2. file = described[w] \o todo[w]
      BY <1>1, <2>1
    <2>3. described[w] \in Seq(Records) /\ todo[w] \in Seq(Records)
      BY <1>1
    <2> QED
      BY <2>2, <2>3, ConcatProperties
  <1>3. TailOf(file, Len(described[w]), Len(described[w]) + Len(todo[w])) \in Seq(Records)
    BY <1>1, <1>2, TailRecords
  <1>4. From = described[w]
    BY <1>1 DEF From
  <1> QED
    BY <1>3, <1>4 DEF Commit, FoldsFrom

LEMMA TablesSteps ==
    ASSUME IInv, [Next]_vars
    PROVE  TablesStep
  <1> DEFINE Same == UNCHANGED <<row, tables>>
  <1>1. ASSUME NEW a \in Actors, CheckPrefix(a) PROVE Same \/ Clear
    BY <1>1 DEF CheckPrefix, db
  <1>2. ASSUME NEW w \in Writers, WriterStep(w) \/ WriterStart(w)
        PROVE  TablesStep
    <2>1. w \in Actors
      BY DEF Actors
    <2>2. CheckPrefix(w) \/ FoldTail(w) \/ Settle(w) \/ Commit(w) \/ Same
      BY <1>2
      DEF WriterStep, WriterStart, OpenShared, GiveUp, EnterCatchUp, CutTail,
          Dedupe, NoHashes, Deduped, WriteLog, SyncLog,
          AcquireLock, BeginAppend, TakeReader, CloseWriter, CloseView, db
    <2> QED
      BY <1>1, <2>1, <2>2, TailFolds, SettleFolds, CommitFolds DEF TablesStep
  <1>3. ASSUME NEW r \in Readers, ReaderStep(r) \/ ReaderStart(r)
        PROVE  TablesStep
    <2>1. r \in Actors
      BY DEF Actors
    <2>2. CheckPrefix(r) \/ FoldTail(r) \/ Same
      BY <1>3
      DEF ReaderStep, ReaderStart, EnterCatchUp, Load, OpenReader, ReadLog,
          CloseView, db
    <2> QED
      BY <1>1, <2>1, <2>2, TailFolds DEF TablesStep
  <1>4. Fault \/ BreakLock \/ UNCHANGED vars => Same
    BY DEF Fault, FoldFails, WriteFails, CommitFails, Kill, PowerLoss, BreakLock,
           vars, db
  <1> QED
    BY <1>2, <1>3, <1>4 DEF Next, TablesStep

(* A writer that is not appending has a store to append to: nobody has     *)
(* cleared it, or it would not have to fold from its own idea of the log.  *)
(* Both could only be were a rebuild forced and abandoned while the log    *)
(* has records that a failed append put there.                             *)
RebuildsWhole == "force" \notin Faults \/ Faults \cap {"io", "db"} = {}

NotCleared == "force" \notin Faults =>
                 \A w \in Writers : pc[w] \in Knowing => row # None

NotBehind  == Faults \cap {"io", "db"} = {} =>
                 \A w \in Writers : pc[w] \in {"ready", "settle"} =>
                    Len(file) = Len(described[w])

(* How a writer gets to know the log, and who clears the store. *)
LEMMA KnowingSteps ==
    ASSUME IInv, [Next]_vars, NEW w \in Writers, pc'[w] \in Knowing
    PROVE  pc[w] \in Knowing \/ FoldTail(w)
  <1>0. pc \in [Actors -> Places] /\ w \in Actors
    BY DEF IInv, TypeOK, Actors
  <1>1. ASSUME NEW v \in Writers, WriterStep(v) \/ WriterStart(v)
        PROVE  pc[w] \in Knowing \/ FoldTail(w)
    <2>1. v \in Actors /\ (v # w => pc'[w] = pc[w])
      BY <1>0, <1>1
      DEF WriterStep, WriterStart, OpenShared, GiveUp, EnterCatchUp, CheckPrefix,
          FoldTail, CutTail, Settle, Dedupe, NoHashes, Deduped, WriteLog, SyncLog,
          Commit, AcquireLock, BeginAppend, CloseWriter, TakeReader, CloseView,
          Leave, Return, Ok, Refuse, Goto, Actors
    <2>2. v = w => pc[w] \in Knowing \/ FoldTail(w)
      BY <1>0, <1>1
      DEF WriterStep, WriterStart, OpenShared, GiveUp, EnterCatchUp, CheckPrefix,
          CutTail, Settle, Dedupe, NoHashes, Deduped, WriteLog, SyncLog,
          Commit, AcquireLock, BeginAppend, CloseWriter, TakeReader, CloseView,
          Leave, Goto, Knowing, Participants
    <2> QED
      BY <2>1, <2>2
  <1>2. ASSUME NEW r \in Readers, ReaderStep(r) \/ ReaderStart(r)
        PROVE  pc'[w] = pc[w]
    <2>1. r \in Actors /\ r # w
      BY Participants DEF Actors
    <2> QED
      BY <1>0, <1>2, <2>1
      DEF ReaderStep, ReaderStart, EnterCatchUp, CheckPrefix, FoldTail, OpenReader,
          ReadLog, Load, CloseView, Goto
  <1>3. ASSUME Fault PROVE pc[w] \in Knowing
    <2>1. ASSUME NEW dead, Forget(dead) PROVE pc[w] \in Knowing
      BY <1>0, <2>1 DEF Forget, Without, Knowing
    <2>2. ASSUME NEW b \in Actors, FoldFails(b) PROVE pc[w] \in Knowing
      BY <1>0, <2>2 DEF FoldFails, Leave, Goto, Knowing
    <2>3. ASSUME NEW v \in Writers, WriteFails(v) \/ CommitFails(v)
          PROVE  pc[w] \in Knowing
      BY <1>0, <2>3 DEF WriteFails, CommitFails, Refuse, Return, Goto, Knowing
    <2> QED
      BY <1>3, <2>1, <2>2, <2>3 DEF Fault, Kill, PowerLoss
  <1>4. BreakLock \/ UNCHANGED vars => pc' = pc
    BY DEF BreakLock, vars
  <1> QED
    BY <1>1, <1>2, <1>3, <1>4 DEF Next

LEMMA ClearSteps ==
    ASSUME IInv, [Next]_vars, row # None, row' = None
    PROVE  \E a \in Actors : CheckPrefix(a)
  <1>1. row' # row /\ ~ReadToEnd(row')
    BY Participants DEF ReadToEnd
  <1>2. ASSUME NEW a \in Actors, FoldTail(a) PROVE ReadToEnd(row')
    BY <1>2, FoldsTail
  <1>3. ASSUME NEW w \in Writers, WriterStep(w) \/ WriterStart(w)
        PROVE  CheckPrefix(w) /\ w \in Actors
    <2>1. w \in Actors
      BY DEF Actors
    <2>2. ASSUME Commit(w) PROVE row' # None
      BY <2>2, Commits, WholeWhileWriting, Participants DEF Commit
    <2> QED
      BY <1>1, <1>2, <1>3, <2>1, <2>2, Settles
      DEF WriterStep, WriterStart, OpenShared, GiveUp, EnterCatchUp, CutTail,
          Dedupe, NoHashes, Deduped, WriteLog, SyncLog,
          AcquireLock, BeginAppend, TakeReader, CloseWriter, CloseView, db
  <1>4. ASSUME NEW r \in Readers, ReaderStep(r) \/ ReaderStart(r)
        PROVE  CheckPrefix(r) /\ r \in Actors
    <2>1. r \in Actors
      BY DEF Actors
    <2> QED
      BY <1>1, <1>2, <1>4, <2>1
      DEF ReaderStep, ReaderStart, EnterCatchUp, Load, OpenReader, ReadLog,
          CloseView, db
  <1>5. Fault \/ BreakLock \/ UNCHANGED vars => row' = row
    BY DEF Fault, FoldFails, WriteFails, CommitFails, Kill, PowerLoss, BreakLock,
           vars, db
  <1> QED
    BY <1>1, <1>3, <1>4, <1>5 DEF Next

LEMMA StaysUncleared ==
    ASSUME IInv, NotCleared, [Next]_vars
    PROVE  NotCleared'
  <1> SUFFICES ASSUME "force" \notin Faults, NEW w \in Writers, pc'[w] \in Knowing,
                      row' = None
               PROVE  FALSE
    BY DEF NotCleared
  <1>1. ~FoldTail(w)
    BY FoldsTail, Participants DEF ReadToEnd, Actors
  <1>2. pc[w] \in Knowing /\ row # None
    BY <1>1, KnowingSteps DEF NotCleared
  <1>3. PICK a \in Actors : CheckPrefix(a)
    BY <1>2, ClearSteps
  <1>4. Describes(row, file)
    BY <1>2 DEF IInv, StoreKnown, CaughtUp, Actors
  <1>5. row' = row
    BY <1>2, <1>3, <1>4 DEF CheckPrefix, KnowsLog, db
  <1> QED
    BY <1>2, <1>5

(* A step of another thread than a writer that is ready leaves the file    *)
(* alone, and what that writer takes to be described.                      *)
LEMMA ReadyAlone ==
    ASSUME IInv, [Next]_vars, NEW w \in Writers, pc[w] \in Knowing,
           pc'[w] \in Knowing,
           ~WriterStep(w), \A v \in Writers : ~WriteFails(v)
    PROVE  file' = file /\ described'[w] = described[w]
  <1>0. /\ pc \in [Actors -> Places] /\ described \in [Actors -> Seq(Records)]
        /\ w \in Actors /\ pc[w] \notin {"idle", "locked", "enter", "check", "fold"}
    BY DEF IInv, TypeOK, Actors, Knowing
  <1>1. \A v \in Writers \ {w} : pc[v] = "idle"
    BY <1>0, Alone
  <1>2. ASSUME NEW v \in Writers, WriterStep(v) \/ WriterStart(v)
        PROVE  file' = file /\ described'[w] = described[w]
    <2>1. WriterStart(v) \/ v # w
      BY <1>2
    <2>2. v # w => AcquireLock(v) \/ CloseView(v)
      BY <1>0, <1>1, <1>2
      DEF WriterStep, WriterStart, OpenShared, GiveUp, EnterCatchUp, CheckPrefix,
          FoldTail, CutTail, Settle, Dedupe, NoHashes, Deduped, WriteLog, SyncLog,
          Commit, BeginAppend, CloseWriter, TakeReader
    <2>3. v = w => pc'[w] # "idle"
      BY <1>0 DEF Knowing
    <2> QED
      BY <1>0, <2>1, <2>2, <2>3
      DEF WriterStart, AcquireLock, BeginAppend, CloseWriter, TakeReader,
          CloseView, Leave, Goto, disk, mem
  <1>3. ASSUME NEW r \in Readers, ReaderStep(r) \/ ReaderStart(r)
        PROVE  file' = file /\ described'[w] = described[w]
    <2>1. r \in Actors /\ r # w
      BY Participants DEF Actors
    <2> QED
      BY <1>0, <1>3, <2>1
      DEF ReaderStep, ReaderStart, EnterCatchUp, CheckPrefix, FoldTail, OpenReader,
          ReadLog, Load, CloseView, disk, mem
  <1>4. ASSUME Fault PROVE file' = file /\ described'[w] = described[w]
    <2>1. ASSUME NEW dead, Forget(dead)
          PROVE  w \notin dead /\ described'[w] = described[w]
      BY <1>0, <2>1 DEF Forget, Without, Knowing
    <2>2. ASSUME NEW b \in Actors, FoldFails(b)
          PROVE  file' = file /\ described'[w] = described[w]
      BY <1>0, <2>2 DEF FoldFails, Leave, Goto, disk
    <2>3. ASSUME NEW v \in Writers, CommitFails(v)
          PROVE  file' = file /\ described'[w] = described[w]
      BY <2>3 DEF CommitFails, disk
    <2>4. ASSUME NEW p \in Procs, Kill(p)
          PROVE  file' = file /\ described'[w] = described[w]
      <3> DEFINE dead == {a \in Actors : ProcOf[a] = p}
      <3>1. /\ Forget(dead)
            /\ file' \in UNION ({{file}} \cup {TornBy(v, file) : v \in Writing(dead)})
        BY <2>4 DEF Kill
      <3>2. w \notin dead /\ described'[w] = described[w]
        BY <2>1, <3>1
      <3> HIDE DEF dead
      <3>3. Writing(dead) = {}
        BY <1>1, <3>2 DEF Writing
      <3> QED
        BY <3>1, <3>2, <3>3
    <2>5. ASSUME PowerLoss
          PROVE  FALSE
      BY <1>0, <2>1, <2>5 DEF PowerLoss
    <2> QED
      BY <1>4, <2>2, <2>3, <2>4, <2>5 DEF Fault
  <1>5. BreakLock \/ UNCHANGED vars => file' = file /\ described' = described
    BY DEF BreakLock, disk, mem, vars
  <1> QED
    BY <1>2, <1>3, <1>4, <1>5 DEF Next

LEMMA StaysCaughtUp ==
    ASSUME IInv, NotBehind, [Next]_vars
    PROVE  NotBehind'
  <1> SUFFICES ASSUME Faults \cap {"io", "db"} = {},
                      NEW w \in Writers, pc'[w] \in {"ready", "settle"}
               PROVE  Len(file') = Len(described'[w])
    BY DEF NotBehind
  <1>0. /\ pc \in [Actors -> Places] /\ described \in [Actors -> Seq(Records)]
        /\ w \in Actors /\ file \in Seq(Cells)
        /\ described[w] \in Seq(Records)
        /\ Len(file) \in Nat /\ Len(described[w]) \in Nat
    BY LenProperties DEF IInv, TypeOK, Actors
  <1>1. ASSUME FoldTail(w) PROVE Len(file') = Len(described'[w])
    <2>1. file' = file /\ described'[w] = row' /\ ReadToEnd(row')
      BY <1>0, <1>1, FoldsTail DEF FoldTail, disk
    <2>2. pc'[w] = "ready" => ~(Len(described'[w]) < Len(file))
      BY <1>0, <1>1, Participants DEF FoldTail, Goto
    <2>3. Len(row') \in Nat /\ Len(row') <= Len(file)
      BY <2>1, LenProperties DEF ReadToEnd, Describes
    <2>4. pc'[w] # "settle"
      BY <1>0, <1>1, Participants DEF FoldTail, Goto
    <2> QED
      BY <1>0, <2>1, <2>2, <2>3, <2>4
  <1>2. ASSUME CutTail(w) PROVE Len(file') = Len(described'[w])
    <2>1. /\ file' = SubSeq(file, 1, Len(described[w])) /\ described' = described
          /\ Len(described[w]) <= Len(file)
      BY <1>2 DEF CutTail, mem, IInv, WriterKnows, AtCut, Remembers, Knowing, Describes
    <2>2. \A i \in 1..Len(described[w]) : file[i] \in Cells
      BY <1>0, <2>1, ElementOfSeq
    <2> QED
      BY <1>0, <2>1, <2>2, SubSeqProperties
  <1>3. ASSUME Commit(w) PROVE Len(file') = Len(described'[w])
    <2>1. row' = file /\ file' = file /\ described'[w] = row'
      BY <1>0, <1>3, Commits DEF Commit, disk
    <2> QED
      BY <2>1
  <1>4. ASSUME Settle(w) PROVE Len(file') = Len(described'[w])
    <2>1. pc[w] = "settle" /\ Len(file) = Len(described[w])
      BY <1>4 DEF Settle, NotBehind
    <2>2. row # None => Describes(row, file) /\ Len(row) \in Nat
      BY <1>0, <2>1, LenProperties DEF IInv, StoreKnown, CaughtUp, Knowing, TypeOK
    <2>3. Adopted(w) = described[w]
      BY <1>0, <2>1, <2>2 DEF Adopted, Describes
    <2>4. pc'[w] = "dedupe"
      BY <1>0, <1>4, <2>1, <2>3 DEF Settle, Goto
    <2> QED
      BY <2>4
  <1>5. ASSUME NoHashes(w) \/ Deduped(w) PROVE Len(file') = Len(described'[w])
    <2>1. pc[w] = "dedupe" /\ file' = file /\ described' = described
      BY <1>5 DEF NoHashes, Deduped, disk
    <2> QED
      BY <2>1 DEF IInv, WriterKnows, Settled
  <1>6. ASSUME ~WriterStep(w) PROVE Len(file') = Len(described'[w])
    <2>1. \A v \in Writers : ~WriteFails(v) /\ ~CommitFails(v)
      BY DEF WriteFails, CommitFails
    <2>2. pc[w] \in Knowing
      BY <1>6, KnowingSteps DEF Knowing, WriterStep
    <2>3. file' = file /\ described'[w] = described[w]
      BY <1>6, <2>1, <2>2, ReadyAlone DEF Knowing
    <2>4. pc[w] \in {"ready", "settle"}
      <3>1. ASSUME NEW v \in Writers, WriterStart(v) \/ (WriterStep(v) /\ v # w)
            PROVE  pc[w] \in {"ready", "settle"}
        <4>1. v \in Actors
          BY DEF Actors
        <4> QED
          BY <1>0, <2>2, <3>1, <4>1
          DEF WriterStep, WriterStart, OpenShared, GiveUp, EnterCatchUp, CheckPrefix,
              FoldTail, CutTail, Settle, Dedupe, NoHashes, Deduped, WriteLog,
              SyncLog, Commit, AcquireLock, BeginAppend, CloseWriter, TakeReader,
              CloseView, Leave, Return, Ok, Refuse, Goto
      <3>2. ASSUME NEW r \in Readers, ReaderStep(r) \/ ReaderStart(r)
            PROVE  pc[w] \in {"ready", "settle"}
        <4>1. r \in Actors /\ r # w
          BY Participants DEF Actors
        <4> QED
          BY <1>0, <3>2, <4>1
          DEF ReaderStep, ReaderStart, EnterCatchUp, CheckPrefix, FoldTail,
              OpenReader, ReadLog, Load, CloseView, Goto
      <3>3. ASSUME Fault PROVE pc[w] \in {"ready", "settle"}
        <4>1. ASSUME NEW dead, Forget(dead) PROVE pc[w] \in {"ready", "settle"}
          BY <1>0, <4>1 DEF Forget, Without
        <4>2. ASSUME NEW b \in Actors, FoldFails(b) PROVE pc[w] \in {"ready", "settle"}
          BY <1>0, <4>2 DEF FoldFails, Leave, Goto
        <4> QED
          BY <2>1, <3>3, <4>1, <4>2 DEF Fault, Kill, PowerLoss
      <3>4. BreakLock \/ UNCHANGED vars => pc' = pc
        BY DEF BreakLock, vars
      <3> QED
        BY <1>6, <3>1, <3>2, <3>3, <3>4 DEF Next
    <2> QED
      BY <2>3, <2>4 DEF NotBehind
  <1>7. ASSUME WriterStep(w) PROVE Len(file') = Len(described'[w])
    <2>1. \/ FoldTail(w) \/ CutTail(w) \/ Commit(w) \/ Settle(w)
          \/ NoHashes(w) \/ Deduped(w)
      BY <1>0, <1>7
      DEF WriterStep, OpenShared, GiveUp, EnterCatchUp, CheckPrefix, Dedupe,
          WriteLog, SyncLog, Leave, Goto
    <2> QED
      BY <1>1, <1>2, <1>3, <1>4, <1>5, <2>1
  <1> QED
    BY <1>6, <1>7

FInv == /\ NotCleared /\ NotBehind
        /\ row = None => tables = EmptyTables(Log)
        /\ Says(tables, [l \in Log |-> From])

LEMMA FoldedInitially == Init => FInv
  <1> SUFFICES ASSUME Init PROVE FInv
    OBVIOUS
  <1>1. row = None /\ tables = EmptyTables(Log) /\ \A w \in Writers : pc[w] = "idle"
    BY DEF Init, Actors
  <1>2. [l \in Log |-> From] = [l \in Log |-> <<>>]
    BY <1>1 DEF From
  <1> QED
    BY <1>1, <1>2, EmptySays DEF FInv, NotCleared, NotBehind, Knowing

LEMMA FoldedInductive ==
    ASSUME RebuildsWhole, IInv, FInv, [Next]_vars
    PROVE  FInv'
  <1> DEFINE c == [l \in Log |-> From]
  <1>1. NotCleared' /\ NotBehind'
    BY StaysUncleared, StaysCaughtUp DEF FInv
  <1>2. CASE UNCHANGED <<row, tables>>
    BY <1>1, <1>2 DEF FInv, From
  <1>3. CASE Clear
    <2>1. row' = None /\ tables' = EmptyTables(Log)
      BY <1>3 DEF Clear
    <2>2. [l \in Log |-> From'] = [l \in Log |-> <<>>]
      BY <2>1 DEF From
    <2> QED
      BY <1>1, <2>1, <2>2, EmptySays DEF FInv
  <1>4. CASE FoldsFrom(From)
    <2>1. PICK s \in Seq(Records) : row' = From \o s /\ tables' = FoldLog(tables, One, s)
      BY <1>4 DEF FoldsFrom
    <2>2. From \in Seq(Records)
      BY EmptySeq DEF IInv, TypeOK, From
    <2>3. c \in Logs(Log) /\ One \in Log
      BY <2>2 DEF Logs, Log
    <2>4. Says(tables', [c EXCEPT ![One] = @ \o s])
      BY <2>1, <2>3, FoldSays DEF FInv
    <2>5. row' \in Seq(Records)
      BY <2>1, <2>2, ConcatProperties
    <2>6. row' # None /\ From' = row'
      BY <2>5, Participants DEF From
    <2>7. [c EXCEPT ![One] = @ \o s] = [l \in Log |-> From']
      BY <2>1, <2>6 DEF Log
    <2> QED
      BY <1>1, <2>4, <2>6, <2>7 DEF FInv
  <1>5. CASE row = None /\ \E w \in Writers : Behind(w)
    <2>1. PICK w \in Writers : Behind(w)
      BY <1>5
    <2>2. Len(file) # Len(described[w])
      <3>1. Len(file) \in Nat /\ Len(described[w]) \in Nat
        BY LenProperties DEF IInv, TypeOK, Actors
      <3> QED
        BY <2>1, <3>1 DEF Behind
    <2> QED
      BY <1>5, <2>1, <2>2 DEF Behind, FInv, NotCleared, NotBehind, Knowing, RebuildsWhole
  <1> QED
    BY <1>2, <1>3, <1>4, <1>5, TablesSteps DEF TablesStep

(* Whoever folds, clears, dies or fails wherever, and in whatever pieces   *)
(* the log got into it: the tables say of the described prefix what the    *)
(* prefix says.  It is not so where a rebuild may be forced and abandoned  *)
(* while the log has records of an append that failed: a writer then folds *)
(* those alone (build.rs:279, shard.rs `settle`).                          *)
THEOREM TablesSay ==
    ASSUME RebuildsWhole
    PROVE  Spec => []TablesSayRow
  <1>1. FInv => TablesSayRow
    <2> SUFFICES ASSUME FInv, row # None PROVE SaysOf(tables, [l \in Log |-> row])
      BY DEF TablesSayRow
    <2>1. From = row
      BY DEF From
    <2> QED
      BY <2>1 DEF FInv, Says
  <1>2. IInv /\ FInv /\ [Next]_vars => FInv'
    BY FoldedInductive
  <1> QED
    BY <1>1, <1>2, FoldedInitially, Invariant, PTL DEF Spec

-----------------------------------------------------------------------------
(***************************************************************************)
(* An append from dedupe to commit: everything in its batch is in what was *)
(* described or in what it is to write.                                    *)
(***************************************************************************)
Appends == {"dedupe", "write", "commit"}

Rests(w)  == pc[w] \notin Appends /\ todo[w] = <<>> /\ at[w] = 0
Handled(w, b) ==
    \A i \in 1..b : batch[w][i] \in Range(described[w]) \cup Range(todo[w])

Hashed == /\ "hash" \in DOMAIN tables
          /\ \A h \in tables.hash : \E r \in Range(From) : h = <<r, One>>

CInv == /\ Hashed
        /\ \A w \in Writers :
              /\ pc[w] \notin Appends => Rests(w)
              /\ pc[w] = "dedupe" => at[w] <= Len(batch[w]) /\ Handled(w, at[w])
              /\ pc[w] \in {"write", "commit"} => Handled(w, Len(batch[w]))

Holds(w) == /\ pc'[w] = pc[w]
            /\ <<batch'[w], todo'[w], at'[w], described'[w]>>
                 = <<batch[w], todo[w], at[w], described[w]>>

LEMMA AppendSteps ==
    ASSUME IInv, CInv, [Next]_vars, NEW w \in Writers
    PROVE  \/ Rests(w)' \/ (Holds(w) /\ pc[w] \in Appends)
           \/ Settle(w) \/ Dedupe(w) \/ Deduped(w) \/ WriteLog(w) \/ SyncLog(w)
  <1>0. /\ pc \in [Actors -> Places] /\ described \in [Actors -> Seq(Records)]
        /\ batch \in [Actors -> Seq(Records)] /\ todo \in [Actors -> Seq(Records)]
        /\ at \in [Actors -> Nat] /\ w \in Actors
    BY DEF IInv, TypeOK, Actors
  <1>1. pc[w] \notin Appends => Rests(w)
    BY DEF CInv
  <1> DEFINE Done == Rests(w)' \/ (Holds(w) /\ pc[w] \in Appends)
  <1>2. Holds(w) => Done
    BY <1>1 DEF Holds, Rests
  <1>3. ASSUME NEW v \in Actors, v # w,
               \/ WriterStep(v) \/ WriterStart(v) \/ ReaderStep(v) \/ ReaderStart(v)
               \/ FoldFails(v) \/ WriteFails(v) \/ CommitFails(v)
        PROVE  Holds(w)
    BY <1>0, <1>3
    DEF Holds, WriterStep, WriterStart, OpenShared, GiveUp, EnterCatchUp, CheckPrefix,
        FoldTail, CutTail, Settle, Dedupe, NoHashes, Deduped, WriteLog, SyncLog,
        Commit, AcquireLock, BeginAppend, CloseWriter, TakeReader, CloseView,
        ReaderStep, ReaderStart, OpenReader, ReadLog, Load, FoldFails, WriteFails,
        CommitFails, Leave, Return, Ok, Refuse, Goto, mem, job
  <1>4. ASSUME Return(w) PROVE Done
    BY <1>0, <1>4 DEF Return, Goto, Rests, Appends
  <1>5. ASSUME WriterStep(w)
        PROVE  Done \/ Settle(w) \/ Dedupe(w) \/ Deduped(w) \/ WriteLog(w) \/ SyncLog(w)
    <2>1. ASSUME NoHashes(w) \/ Commit(w) PROVE Done
      BY <1>4, <2>1 DEF NoHashes, Commit, Ok, Refuse
    <2>2. ASSUME OpenShared(w) \/ GiveUp(w) \/ EnterCatchUp(w) \/ CheckPrefix(w)
                 \/ FoldTail(w) \/ CutTail(w)
          PROVE  Rests(w)'
      <3>1. /\ pc[w] \notin Appends
            /\ todo' = todo /\ at' = at
        BY <2>2 DEF OpenShared, GiveUp, EnterCatchUp, CheckPrefix, FoldTail, CutTail,
                    mem, job, Appends
      <3>2. pc'[w] \notin Appends
        BY <1>0, <2>2 DEF OpenShared, GiveUp, EnterCatchUp, CheckPrefix, FoldTail,
                          CutTail, Leave, Goto, Appends
      <3> QED
        BY <1>1, <3>1, <3>2 DEF Rests
    <2> QED
      BY <1>5, <2>1, <2>2 DEF WriterStep
  <1>6. ASSUME WriterStart(w) PROVE Done
    <2>1. ASSUME CloseView(w) \/ TakeReader(w) PROVE Holds(w)
      BY <1>0, <2>1, Participants DEF CloseView, TakeReader, Goto, mem, job, Holds
    <2>2. ASSUME AcquireLock(w) \/ BeginAppend(w) \/ CloseWriter(w)
          PROVE  Rests(w)'
      <3>1. pc[w] \notin Appends /\ todo' = todo /\ at' = at
        BY <2>2 DEF AcquireLock, BeginAppend, CloseWriter, mem, job, Appends
      <3>2. pc'[w] \notin Appends
        BY <1>0, <2>2 DEF AcquireLock, BeginAppend, CloseWriter, Leave, Goto, Appends
      <3> QED
        BY <1>1, <3>1, <3>2 DEF Rests
    <2> QED
      BY <1>2, <1>6, <2>1, <2>2 DEF WriterStart
  <1>7. ASSUME FoldFails(w) \/ WriteFails(w) \/ CommitFails(w) PROVE Done
    <2>1. ASSUME FoldFails(w) PROVE Rests(w)'
      <3>1. pc[w] \notin Appends /\ todo' = todo /\ at' = at
        BY <2>1 DEF FoldFails, job, Appends
      <3>2. pc'[w] \notin Appends
        BY <1>0, <2>1 DEF FoldFails, Leave, Goto, Appends
      <3> QED
        BY <1>1, <3>1, <3>2 DEF Rests
    <2> QED
      BY <1>4, <1>7, <2>1 DEF WriteFails, CommitFails, Refuse
  <1>8. ASSUME NEW dead, Forget(dead) PROVE Done
    <2>1. CASE w \in dead
      BY <1>0, <1>8, <2>1 DEF Forget, Without, Rests, Appends
    <2>2. CASE w \notin dead
      BY <1>0, <1>2, <1>8, <2>2 DEF Forget, Without, Holds
    <2> QED
      BY <2>1, <2>2
  <1>9. BreakLock \/ UNCHANGED vars => Holds(w)
    BY DEF BreakLock, vars, mem, job, Holds
  <1>10. ASSUME Fault PROVE Done
    <2>1. CASE \E a \in Actors : FoldFails(a)
      BY <1>2, <1>3, <1>7, <2>1
    <2>2. CASE \E v \in Writers : WriteFails(v) \/ CommitFails(v)
      BY <1>2, <1>3, <1>7, <2>2 DEF Actors
    <2>3. CASE (\E p \in Procs : Kill(p)) \/ PowerLoss
      BY <1>8, <2>3 DEF Kill, PowerLoss
    <2> QED
      BY <1>10, <2>1, <2>2, <2>3 DEF Fault
  <1>11. ASSUME NEW v \in Writers, WriterStep(v) \/ WriterStart(v)
         PROVE  \/ Done \/ Settle(w) \/ Dedupe(w) \/ Deduped(w) \/ WriteLog(w)
                \/ SyncLog(w)
    BY <1>2, <1>3, <1>5, <1>6, <1>11 DEF Actors
  <1>12. ASSUME NEW r \in Readers, ReaderStep(r) \/ ReaderStart(r)
         PROVE  Done
    BY <1>2, <1>3, <1>12, Participants DEF Actors
  <1> QED
    BY <1>2, <1>9, <1>10, <1>11, <1>12 DEF Next

LEMMA HashedStays ==
    ASSUME IInv, Hashed, row = None => tables.hash = {}, [Next]_vars
    PROVE  Hashed' /\ (row' = None => tables'.hash = {})
  <1>1. CASE UNCHANGED <<row, tables>>
    BY <1>1 DEF Hashed, From
  <1>2. CASE Clear
    BY <1>2 DEF Clear, Hashed, EmptyTables
  <1>3. ASSUME NEW d \in Seq(Records), FoldsFrom(d), d = From \/ row = None
        PROVE  Hashed' /\ row' # None
    <2>1. PICK s \in Seq(Records) : row' = d \o s /\ tables' = FoldLog(tables, One, s)
      BY <1>3 DEF FoldsFrom
    <2>2. row' \in Seq(Records) /\ row' # None /\ From' = row'
      <3>1. row' \in Seq(Records)
        BY <2>1, ConcatProperties
      <3> QED
        BY <3>1, Participants DEF From
    <2>3. Range(d) \subseteq Range(row') /\ Range(s) \subseteq Range(row')
      BY <2>1, RangeConcatenation
    <2>4. \A h \in tables.hash : \E r \in Range(d) : h = <<r, One>>
      BY <1>3 DEF Hashed
    <2>5. /\ "hash" \in DOMAIN tables'
          /\ \A h \in tables'.hash :
                h \in tables.hash \/ \E r \in Range(s) : h = <<r, One>>
      BY <2>1, HashesFolded DEF Hashed
    <2> QED
      BY <2>2, <2>3, <2>4, <2>5 DEF Hashed
  <1>4. From \in Seq(Records) /\ \A w \in Writers : described[w] \in Seq(Records)
    BY EmptySeq DEF From, IInv, TypeOK, Actors
  <1> QED
    BY <1>1, <1>2, <1>3, <1>4, TablesSteps DEF TablesStep

LEMMA RangeOf ==
    ASSUME NEW q \in Seq(Records)
    PROVE  /\ Range(q) = {q[i] : i \in 1..Len(q)}
           /\ Range(q) \subseteq Records
           /\ Len(q) \in Nat
  BY RangeEquality, RangeOfSeq, LenProperties

LEMMA DedupeHandles ==
    ASSUME IInv, CInv, NEW w \in Writers, Dedupe(w)
    PROVE  /\ pc'[w] = "dedupe"
           /\ at'[w] <= Len(batch'[w]) /\ Handled(w, at[w])'
           /\ at'[w] = at[w] + 1
           /\ LET r == batch[w][at[w] + 1] IN
              todo'[w] = IF New(w, r) THEN Append(todo[w], r) ELSE todo[w]
           /\ described'[w] = described[w] /\ row = described[w]
           /\ batch[w][at[w] + 1] \in Records
           /\ UNCHANGED <<row, tables, file>>
  <1>0. /\ pc[w] = "dedupe" /\ w \in Actors /\ row # None
        /\ described[w] \in Seq(Records) /\ batch[w] \in Seq(Records)
        /\ todo \in [Actors -> Seq(Records)] /\ at \in [Actors -> Nat]
        /\ at[w] < Len(batch[w]) /\ Len(batch[w]) \in Nat
        /\ UNCHANGED <<pc, described, batch, row, tables, file>>
        /\ Settled(w)
    BY LenProperties DEF Dedupe, IInv, TypeOK, WriterKnows, Actors, db, disk
  <1> DEFINE r == batch[w][at[w] + 1]
  <1>1. row = described[w] /\ From = row
    BY <1>0 DEF Settled, From
  <1>2. at' = [at EXCEPT ![w] = @ + 1]
    BY DEF Dedupe
  <1>3. todo'[w] = IF New(w, r) THEN Append(todo[w], r) ELSE todo[w]
    BY <1>0 DEF Dedupe
  <1>4. r \in Records
    <2>1. at[w] \in Nat /\ at[w] + 1 \in 1..Len(batch[w])
      BY <1>0
    <2> QED
      BY <1>0, <2>1, ElementOfSeq
  <1> HIDE DEF r
  <1>5. Range(todo[w]) \subseteq Range(todo'[w])
    <2>1. todo[w] \in Seq(Records)
      BY <1>0
    <2> QED
      BY <1>3, <1>4, <2>1, RangeOfAppend
  <1>6. r \in Range(described[w]) \cup Range(todo'[w])
    <2>1. CASE New(w, r)
      BY <1>0, <1>3, <1>4, <2>1, RangeOfAppend
    <2>2. CASE r \in Range(todo[w])
      BY <1>5, <2>2
    <2>3. CASE ~Fresh(tables, One, r)
      <3>1. <<r, One>> \in tables.hash
        BY <2>3 DEF Fresh
      <3>2. r \in Range(From)
        BY <3>1 DEF CInv, Hashed
      <3> QED
        BY <1>1, <3>2
    <2> QED
      BY <2>1, <2>2, <2>3 DEF New
  <1>7. Handled(w, at[w])
    BY <1>0 DEF CInv
  <1>8. Handled(w, at[w])'
    <2>1. at'[w] = at[w] + 1 /\ at[w] \in Nat
      BY <1>0, <1>2
    <2>3. \A i \in 1..(at[w] + 1) : i \in 1..at[w] \/ i = at[w] + 1
      BY <2>1
    <2> QED
      BY <1>0, <1>5, <1>6, <1>7, <2>1, <2>3 DEF Handled, r
  <1> QED
    BY <1>0, <1>1, <1>2, <1>3, <1>4, <1>8 DEF r

LEMMA CoveredInductive ==
    ASSUME IInv, CInv, row = None => tables.hash = {}, [Next]_vars
    PROVE  CInv' /\ (row' = None => tables'.hash = {})
  <1>1. Hashed' /\ (row' = None => tables'.hash = {})
    BY HashedStays DEF CInv
  <1>2. ASSUME NEW w \in Writers
        PROVE  /\ pc'[w] \notin Appends => Rests(w)'
               /\ pc'[w] = "dedupe" => at'[w] <= Len(batch'[w]) /\ Handled(w, at[w])'
               /\ pc'[w] \in {"write", "commit"} => Handled(w, Len(batch[w]))'
    <2>0. /\ pc \in [Actors -> Places] /\ described \in [Actors -> Seq(Records)]
          /\ batch \in [Actors -> Seq(Records)] /\ todo \in [Actors -> Seq(Records)]
          /\ at \in [Actors -> Nat] /\ w \in Actors
          /\ batch' \in [Actors -> Seq(Records)]
      BY Inductive DEF IInv, TypeOK, Actors
    <2>1. CASE Rests(w)'
      BY <2>1 DEF Rests, Appends
    <2>2. CASE Holds(w) /\ pc[w] \in Appends
      BY <2>2 DEF Holds, CInv, Handled, Appends
    <2>3. CASE Settle(w)
      <3>1. pc[w] = "settle" /\ Rests(w)
        BY <2>3 DEF Settle, CInv, Appends
      <3>2. \/ pc'[w] = "ready" /\ todo'[w] = <<>> /\ at'[w] = 0
            \/ pc'[w] = "dedupe" /\ at'[w] = at[w] /\ batch' = batch
        BY <2>0, <2>3 DEF Settle, Return, Goto, job
      <3>3. pc'[w] = "dedupe" => at'[w] = 0 /\ Len(batch'[w]) \in Nat
        BY <2>0, <3>1, <3>2, LenProperties DEF Rests
      <3>4. pc'[w] = "dedupe" => Handled(w, at[w])'
        BY <3>3 DEF Handled
      <3> QED
        BY <3>2, <3>3, <3>4 DEF Rests, Appends
    <2>4. CASE Dedupe(w)
      BY <2>4, DedupeHandles DEF Appends
    <2>5. CASE Deduped(w)
      <3>1. CASE todo[w] = <<>>
        <4>1. Rests(w)'
          BY <2>0, <2>5, <3>1 DEF Deduped, Ok, Return, Goto, Rests, Appends
        <4> QED
          BY <4>1 DEF Rests, Appends
      <3>2. CASE todo[w] # <<>>
        <4>1. /\ pc[w] = "dedupe" /\ at[w] = Len(batch[w]) /\ pc'[w] = "write"
              /\ UNCHANGED <<batch, todo, described>>
          BY <2>0, <2>5, <3>2 DEF Deduped, Goto
        <4>2. Handled(w, Len(batch[w]))
          BY <4>1 DEF CInv
        <4> QED
          BY <4>1, <4>2 DEF Handled, Appends
      <3> QED
        BY <3>1, <3>2
    <2>6. CASE WriteLog(w) \/ SyncLog(w)
      <3>1. /\ pc[w] = "write" /\ pc'[w] \in {"write", "commit"}
            /\ UNCHANGED <<batch, todo, described>>
        BY <2>0, <2>6 DEF WriteLog, SyncLog, Goto, mem, job
      <3>2. Handled(w, Len(batch[w]))
        BY <3>1 DEF CInv
      <3> QED
        BY <3>1, <3>2 DEF Handled, Appends
    <2> QED
      BY <2>1, <2>2, <2>3, <2>4, <2>5, <2>6, AppendSteps
  <1> QED
    BY <1>1, <1>2 DEF CInv

-----------------------------------------------------------------------------
(***************************************************************************)
(* What has been answered.  It is in the part of the log that the faults   *)
(* there are cannot take, and in the prefix the store describes.           *)
(***************************************************************************)
Lasting == "power" \notin Faults \/ Faults \cap {"kill", "io"} = {}

Kept      == IF "power" \in Faults THEN synced ELSE Len(file)
Quiet     == \A w \in Writers : pc[w] # "write"
AckedLogged == acked \subseteq {file[i] : i \in 1..Kept}
AckedStored == row # None => acked \subseteq Range(row)

AInv == /\ "power" \in Faults /\ Quiet => synced = Len(file)
        /\ AckedLogged
        /\ AckedStored

(* An append answers: everything in its batch is in the log. *)
Answers == /\ Quiet
           /\ UNCHANGED <<file, synced>>
           /\ \E S \in SUBSET Range(file) : acked' = acked \cup S
           /\ row' = file /\ file \in Seq(Records)

LEMMA AnswerSteps ==
    ASSUME IInv, CInv, [Next]_vars
    PROVE  acked' = acked \/ (Answers /\ view' = view)
  <1>1. ASSUME NEW w \in Writers, Ok(w), pc[w] \in {"dedupe", "commit"},
               UNCHANGED <<file, synced, view>>, row' = file, file \in Seq(Records),
               Range(batch[w]) \subseteq Range(file)
        PROVE  Answers /\ view' = view
    <2>1. Quiet
      BY <1>1, Alone DEF Quiet
    <2> QED
      BY <1>1, <2>1 DEF Answers, Ok
  <1>2. ASSUME NEW w \in Writers PROVE /\ w \in Actors
                                       /\ batch[w] \in Seq(Records)
                                       /\ described[w] \in Seq(Records)
                                       /\ todo[w] \in Seq(Records)
    BY DEF IInv, TypeOK, Actors
  <1>3. ASSUME NEW w \in Writers, Deduped(w)
        PROVE  acked' = acked \/ (Answers /\ view' = view)
    <2>1. CASE todo[w] # <<>>
      BY <1>3, <2>1 DEF Deduped
    <2>2. CASE todo[w] = <<>>
      <3>1. /\ pc[w] = "dedupe" /\ Ok(w) /\ at[w] = Len(batch[w]) /\ row # None
            /\ UNCHANGED <<file, synced, row, view>>
        BY <1>3, <2>2 DEF Deduped, disk, db
      <3>2. row = described[w] /\ file = described[w]
        BY <3>1 DEF IInv, WriterKnows, Settled
      <3>3. Handled(w, Len(batch[w]))
        BY <3>1 DEF CInv
      <3>4. Range(batch[w]) \subseteq Range(file)
        <4>1. Range(todo[w]) = {}
          BY <2>2 DEF Range
        <4> QED
          BY <1>2, <3>2, <3>3, <4>1, RangeOf DEF Handled
      <3> QED
        BY <1>1, <1>2, <3>1, <3>2, <3>4
    <2> QED
      BY <2>1, <2>2
  <1>4. ASSUME NEW w \in Writers, Commit(w)
        PROVE  Answers /\ view' = view
    <2>1. /\ pc[w] = "commit" /\ Ok(w) /\ row' = file
          /\ UNCHANGED <<file, synced, view>>
      BY <1>4, Commits DEF Commit, disk
    <2>2. /\ at[w] = Len(todo[w]) /\ file \in Seq(Records)
          /\ file = described[w] \o SubSeq(todo[w], 1, at[w])
      BY <2>1, WholeWhileWriting DEF IInv, WriterKnows
    <2>3. file = described[w] \o todo[w]
      BY <1>2, <2>2, SubSeqFull
    <2>4. Range(file) = Range(described[w]) \cup Range(todo[w])
      BY <1>2, <2>3, RangeConcatenation
    <2>5. Handled(w, Len(batch[w]))
      BY <2>1 DEF CInv
    <2>6. Range(batch[w]) \subseteq Range(file)
      BY <1>2, <2>4, <2>5, RangeOf DEF Handled
    <2> QED
      BY <1>1, <2>1, <2>2, <2>6
  <1>5. ASSUME NEW w \in Writers, WriterStep(w) \/ WriterStart(w)
        PROVE  acked' = acked \/ (Answers /\ view' = view)
    <2>1. ASSUME Settle(w) \/ NoHashes(w) PROVE acked' = acked
      BY <2>1 DEF Settle, NoHashes, Refuse
    <2> QED
      BY <1>3, <1>4, <1>5, <2>1
      DEF WriterStep, WriterStart, OpenShared, GiveUp, EnterCatchUp, CheckPrefix,
          FoldTail, CutTail, Dedupe, WriteLog, SyncLog,
          AcquireLock, BeginAppend, TakeReader, CloseWriter, CloseView
  <1>6. ASSUME NEW r \in Readers, ReaderStep(r) \/ ReaderStart(r)
        PROVE  acked' = acked
    BY <1>6 DEF ReaderStep, ReaderStart, EnterCatchUp, CheckPrefix, FoldTail,
                Load, OpenReader, ReadLog, CloseView
  <1>7. Fault \/ BreakLock \/ UNCHANGED vars => acked' = acked
    BY DEF Fault, FoldFails, WriteFails, CommitFails, Refuse, Kill, PowerLoss,
           BreakLock, vars
  <1> QED
    BY <1>5, <1>6, <1>7 DEF Next

LEMMA SyncedSteps ==
    ASSUME [Next]_vars
    PROVE  \/ synced' = synced \/ PowerLoss
           \/ \E w \in Writers : CutTail(w) \/ SyncLog(w)
  <1>1. ASSUME NEW w \in Writers, WriterStep(w) \/ WriterStart(w)
        PROVE  synced' = synced \/ CutTail(w) \/ SyncLog(w)
    BY <1>1
    DEF WriterStep, WriterStart, OpenShared, GiveUp, EnterCatchUp, CheckPrefix,
        FoldTail, Settle, Dedupe, NoHashes, Deduped, WriteLog, Commit,
        AcquireLock, BeginAppend, TakeReader, CloseWriter, CloseView, disk
  <1>2. ASSUME NEW r \in Readers, ReaderStep(r) \/ ReaderStart(r)
        PROVE  synced' = synced
    BY <1>2 DEF ReaderStep, ReaderStart, EnterCatchUp, CheckPrefix, FoldTail,
                Load, OpenReader, ReadLog, CloseView, disk
  <1>3. Fault => synced' = synced \/ PowerLoss
    BY DEF Fault, FoldFails, WriteFails, CommitFails, Kill, disk
  <1>4. BreakLock \/ UNCHANGED vars => synced' = synced
    BY DEF BreakLock, disk, vars
  <1> QED
    BY <1>1, <1>2, <1>3, <1>4 DEF Next

(* Short of deaths and failing writes a writer stops writing by syncing.   *)
LEMMA WriteEnds ==
    ASSUME IInv, CInv, [Next]_vars, NEW w \in Writers, pc[w] = "write",
           pc'[w] # "write", Faults \cap {"kill", "io"} = {}
    PROVE  SyncLog(w) \/ PowerLoss
  <1>0. pc \in [Actors -> Places] /\ w \in Actors
    BY DEF IInv, TypeOK, Actors
  <1>1. ASSUME NEW v \in Writers, WriterStep(v) \/ WriterStart(v) \/ CommitFails(v)
        PROVE  SyncLog(w)
    <2>1. v # w => pc'[w] = pc[w]
      BY <1>0, <1>1
      DEF WriterStep, WriterStart, OpenShared, GiveUp, EnterCatchUp, CheckPrefix,
          FoldTail, CutTail, Settle, Dedupe, NoHashes, Deduped, WriteLog, SyncLog,
          Commit, AcquireLock, BeginAppend, CloseWriter, TakeReader, CloseView,
          CommitFails, Leave, Return, Ok, Refuse, Goto, Actors
    <2>2. v = w
      BY <2>1
    <2> QED
      BY <1>0, <1>1, <2>2, Participants
      DEF WriterStep, WriterStart, OpenShared, GiveUp, EnterCatchUp, CheckPrefix,
          FoldTail, CutTail, Settle, Dedupe, NoHashes, Deduped, WriteLog,
          Commit, AcquireLock, BeginAppend, CloseWriter, TakeReader, CloseView,
          CommitFails, Goto
  <1>2. ASSUME NEW r \in Readers, ReaderStep(r) \/ ReaderStart(r)
        PROVE  FALSE
    <2>1. r \in Actors /\ r # w
      BY Participants DEF Actors
    <2> QED
      BY <1>0, <1>2, <2>1
      DEF ReaderStep, ReaderStart, EnterCatchUp, CheckPrefix, FoldTail, OpenReader,
          ReadLog, Load, CloseView, Goto
  <1>3. ASSUME NEW a \in Actors, FoldFails(a) PROVE FALSE
    BY <1>0, <1>3 DEF FoldFails, Leave, Goto
  <1>4. BreakLock \/ UNCHANGED vars => pc' = pc
    BY DEF BreakLock, vars
  <1>5. ASSUME Fault PROVE SyncLog(w) \/ PowerLoss
    BY <1>1, <1>3, <1>5 DEF Fault, Kill, WriteFails
  <1> QED
    BY <1>1, <1>2, <1>4, <1>5 DEF Next

(* The complete records of the file, for whoever reads it to its end. *)
LEMMA ReadsAll ==
    ASSUME IInv, NEW g, ReadToEnd(g), NEW i \in 1..Len(file), file[i] \in Records
    PROVE  file[i] \in Range(g)
  <1>1. file[i] # Torn
    BY Participants
  <1>2. g \in Seq(Records) /\ Describes(g, file)
    BY DEF ReadToEnd
  <1>3. Len(g) \in Nat /\ Len(file) \in Nat /\ Range(g) = {g[j] : j \in 1..Len(g)}
    BY <1>2, RangeOf, LenProperties DEF IInv, TypeOK
  <1>4. CASE g = file
    BY <1>3, <1>4
  <1>5. CASE Len(file) = Len(g) + 1 /\ file[Len(file)] = Torn
    <2>1. i \in 1..Len(g)
      BY <1>1, <1>3, <1>5
    <2> QED
      BY <1>2, <1>3, <2>1 DEF Describes
  <1> QED
    BY <1>4, <1>5 DEF ReadToEnd

LEMMA StoredStays ==
    ASSUME IInv, CInv, AInv, [Next]_vars
    PROVE  AckedStored'
  <1>0. /\ acked \subseteq Records /\ Len(file) \in Nat /\ synced \in 0..Len(file)
        /\ \A x \in acked : \E i \in 1..Len(file) : x = file[i]
    <2>1. acked \subseteq Records /\ Len(file) \in Nat /\ synced \in 0..Len(file)
      BY LenProperties DEF IInv, TypeOK
    <2>2. Kept \in 0..Len(file)
      BY <2>1 DEF Kept
    <2>3. \A i \in 1..Kept : i \in 1..Len(file)
      BY <2>1, <2>2
    <2> QED
      BY <2>1, <2>3 DEF AInv, AckedLogged
  <1>1. CASE acked' = acked
    <2>1. CASE row' = row
      BY <1>1, <2>1 DEF AInv, AckedStored
    <2>2. CASE ReadToEnd(row')
      <3>1. ASSUME NEW x \in acked PROVE x \in Range(row')
        <4>1. PICK i \in 1..Len(file) : x = file[i]
          BY <1>0
        <4>2. file[i] \in Range(row')
          BY <1>0, <2>2, <4>1, ReadsAll
        <4> QED
          BY <4>1, <4>2
      <3> QED
        BY <1>1, <3>1 DEF AckedStored
    <2>3. CASE row' = None
      BY <2>3 DEF AckedStored
    <2> QED
      BY <2>1, <2>2, <2>3, RowSteps
  <1>2. CASE Answers
    <2>1. acked \subseteq Range(file)
      BY <1>0, <1>2, RangeOf DEF Answers
    <2> QED
      BY <1>2, <2>1 DEF Answers, AckedStored
  <1> QED
    BY <1>1, <1>2, AnswerSteps

LEMMA LoggedStays ==
    ASSUME Lasting, IInv, IInv', CInv, AInv, [Next]_vars
    PROVE  /\ "power" \in Faults /\ Quiet' => synced' = Len(file')
           /\ AckedLogged'
  <1>0. /\ acked \subseteq Records /\ file \in Seq(Cells)
        /\ Len(file) \in Nat /\ synced \in 0..Len(file)
        /\ Len(file') \in Nat /\ synced' \in 0..Len(file')
    BY LenProperties DEF IInv, TypeOK
  <1>1. Kept \in 0..Len(file) /\ Kept' \in 0..Len(file')
    BY <1>0 DEF Kept
  <1> DEFINE Keeps2 == /\ Kept <= Kept'
                       /\ \A i \in 1..Kept : file[i] \in Records => file'[i] = file[i]
  <1>2. ASSUME Keeps2, acked' = acked PROVE AckedLogged'
    <2>1. ASSUME NEW x \in acked PROVE \E i \in 1..Kept' : x = file'[i]
      <3>1. PICK i \in 1..Kept : x = file[i]
        BY DEF AInv, AckedLogged
      <3>2. i \in 1..Kept'
        BY <1>1, <1>2, <3>1
      <3> QED
        BY <1>0, <1>2, <3>1, <3>2
    <2> QED
      BY <1>2, <2>1 DEF AckedLogged
  <1>3. ASSUME PowerLoss
        PROVE  synced' = Len(file') /\ AckedLogged'
    <2>1. /\ "power" \in Faults /\ synced' = Len(file') /\ acked' = acked
      BY <1>3 DEF PowerLoss
    <2>2. PICK n \in synced..Len(file) :
             file' = SubSeq(file, 1, n) \/ file' = Append(SubSeq(file, 1, n), Torn)
      BY <1>3 DEF PowerLoss
    <2>3. /\ SubSeq(file, 1, n) \in Seq(Cells) /\ Len(SubSeq(file, 1, n)) = n
          /\ \A i \in 1..n : SubSeq(file, 1, n)[i] = file[i]
      <3>1. n \in Nat /\ \A i \in 1..n : file[i] \in Cells
        BY <1>0, ElementOfSeq
      <3> QED
        BY <3>1, SubSeqProperties
    <2>4. n <= Len(file') /\ \A i \in 1..n : file'[i] = file[i]
      <3>1. CASE file' = SubSeq(file, 1, n)
        BY <1>0, <2>3, <3>1
      <3>2. CASE file' = Append(SubSeq(file, 1, n), Torn)
        <4>1. Torn \in Cells
          BY DEF Cells
        <4>2. Len(file') = n + 1 /\ \A i \in 1..n : file'[i] = file[i]
          BY <2>3, <3>2, <4>1, AppendProperties
        <4> QED
          BY <1>0, <4>2
      <3> QED
        BY <2>2, <3>1, <3>2
    <2>5. Keeps2
      <3>1. Kept = synced /\ Kept' = Len(file')
        BY <2>1 DEF Kept
      <3> QED
        BY <1>0, <2>4, <3>1
    <2> QED
      BY <1>2, <2>1, <2>5
  <1>4. ASSUME NEW w \in Writers, CutTail(w)
        PROVE  synced' = Len(file') /\ AckedLogged'
    <2>1. /\ pc[w] = "cut" /\ w \in Actors
          /\ file' = SubSeq(file, 1, Len(described[w])) /\ synced' = Len(file')
          /\ acked' = acked
      BY <1>4 DEF CutTail, Actors
    <2>2. /\ described[w] \in Seq(Records) /\ Len(described[w]) \in Nat
          /\ Len(file) = Len(described[w]) + 1 /\ file[Len(file)] = Torn
      BY <2>1, LenProperties DEF IInv, TypeOK, WriterKnows, AtCut
    <2>3. /\ Len(file') = Len(described[w])
          /\ \A i \in 1..Len(described[w]) : file'[i] = file[i]
      <3>1. \A i \in 1..Len(described[w]) : file[i] \in Cells
        BY <1>0, <2>2, ElementOfSeq
      <3> QED
        BY <2>1, <2>2, <3>1, SubSeqProperties
    <2>4. ASSUME NEW x \in acked PROVE \E i \in 1..Kept' : x = file'[i]
      <3>1. PICK i \in 1..Kept : x = file[i]
        BY DEF AInv, AckedLogged
      <3>2. file[i] # Torn
        BY <1>0, <3>1, Participants
      <3>3. Kept' = Len(file')
        BY <2>1 DEF Kept
      <3>4. i \in 1..Len(described[w])
        BY <1>1, <2>2, <3>2
      <3> QED
        BY <2>3, <3>1, <3>3, <3>4
    <2> QED
      BY <2>1, <2>4 DEF AckedLogged
  <1>5. ASSUME Lengthened
        PROVE  /\ "power" \in Faults /\ Quiet' => synced' = Len(file')
               /\ AckedLogged'
    <2>1. PICK c \in Cells : file' = Append(file, c)
      BY <1>5 DEF Lengthened
    <2>2. Len(file') = Len(file) + 1 /\ \A i \in 1..Len(file) : file'[i] = file[i]
      BY <1>0, <2>1, AppendProperties
    <2>3. file' # file
      BY <1>0, <2>2
    <2>4. PICK w \in Writers : /\ pc[w] = "write"
                               /\ WriteLog(w) \/ Faults \cap {"kill", "io"} # {}
      BY <1>5 DEF Lengthened
    <2>5. acked' = acked
      BY <2>3, AnswerSteps DEF Answers
    <2>6. CASE "power" \notin Faults
      <3>1. Keeps2
        BY <1>0, <2>2, <2>6 DEF Kept
      <3> QED
        BY <1>2, <2>5, <2>6, <3>1
    <2>7. CASE "power" \in Faults
      <3>1. WriteLog(w)
        BY <2>4, <2>7 DEF Lasting
      <3>2. synced' = synced /\ pc'[w] = "write"
        BY <2>4, <3>1 DEF WriteLog
      <3>3. Keeps2
        BY <1>0, <2>2, <3>2, <2>7 DEF Kept
      <3> QED
        BY <1>2, <2>5, <3>2, <3>3 DEF Quiet
    <2> QED
      BY <2>6, <2>7
  <1>6. ASSUME file' = file, ~PowerLoss, \A w \in Writers : ~CutTail(w)
        PROVE  /\ "power" \in Faults /\ Quiet' => synced' = Len(file')
               /\ AckedLogged'
    <2>1. synced' = synced \/ synced' = Len(file)
      BY <1>6, SyncedSteps DEF SyncLog
    <2>2. Kept <= Kept'
      BY <1>0, <1>6, <2>1 DEF Kept
    <2>3. AckedLogged'
      <3>1. CASE acked' = acked
        BY <1>2, <1>6, <2>2, <3>1
      <3>2. CASE Answers
        <4>1. Kept = Len(file) /\ Kept' = Kept
          BY <3>2 DEF Kept, Answers, AInv
        <4>2. Range(file) = {file[i] : i \in 1..Len(file)}
          BY <3>2, RangeOf DEF Answers
        <4> QED
          BY <1>6, <3>2, <4>1, <4>2 DEF AInv, AckedLogged, Answers
      <3> QED
        BY <3>1, <3>2, AnswerSteps
    <2>4. ASSUME "power" \in Faults, Quiet' PROVE synced' = Len(file')
      <3>1. CASE Quiet
        BY <1>6, <2>1, <2>4, <3>1 DEF AInv
      <3>2. CASE ~Quiet
        <4>1. PICK w \in Writers : pc[w] = "write"
          BY <3>2 DEF Quiet
        <4>2. SyncLog(w)
          BY <1>6, <2>4, <4>1, WriteEnds DEF Quiet, Lasting
        <4> QED
          BY <1>6, <4>2 DEF SyncLog
      <3> QED
        BY <3>1, <3>2
    <2> QED
      BY <2>3, <2>4
  <1> QED
    BY <1>3, <1>4, <1>5, <1>6, LogSteps

-----------------------------------------------------------------------------
LEMMA AckedInitially == Init => CInv /\ AInv /\ (row = None => tables.hash = {})
  <1> SUFFICES ASSUME Init
               PROVE  CInv /\ AInv /\ (row = None => tables.hash = {})
    OBVIOUS
  <1>1. /\ file = <<>> /\ synced = 0 /\ acked = {} /\ row = None
        /\ tables = EmptyTables(Log)
        /\ \A w \in Writers : pc[w] = "idle" /\ todo[w] = <<>> /\ at[w] = 0
    BY DEF Init, Actors
  <1>2. CInv /\ tables.hash = {}
    BY <1>1 DEF CInv, Hashed, EmptyTables, Rests, Appends
  <1>3. Len(file) = 0
    BY <1>1
  <1>4. AInv
    BY <1>1, <1>3 DEF AInv, AckedLogged, AckedStored
  <1> QED
    BY <1>2, <1>4

LEMMA AckedInvariant ==
    ASSUME Lasting
    PROVE  Spec => [](CInv /\ AInv)
  <1> DEFINE Inv == CInv /\ AInv /\ (row = None => tables.hash = {})
  <1>1. Init => Inv
    BY AckedInitially
  <1>2. IInv /\ IInv' /\ Inv /\ [Next]_vars => Inv'
    <2> SUFFICES ASSUME IInv, IInv', Inv, [Next]_vars PROVE Inv'
      OBVIOUS
    <2>1. CInv' /\ (row' = None => tables'.hash = {})
      BY CoveredInductive
    <2>2. AckedStored'
      BY StoredStays
    <2>3. /\ "power" \in Faults /\ Quiet' => synced' = Len(file')
          /\ AckedLogged'
      BY LoggedStays
    <2> QED
      BY <2>1, <2>2, <2>3 DEF AInv
  <1> QED
    BY <1>1, <1>2, Invariant, PTL DEF Spec

LEMMA AckedRead ==
    ASSUME IInv, AInv
    PROVE  AckedKept
  <1>1. /\ file \in Seq(Cells) /\ TornLast(file)
        /\ Len(file) \in Nat /\ synced \in 0..Len(file) /\ acked \subseteq Records
    BY LenProperties DEF IInv, TypeOK, TornAtEnd, TornLast
  <1>2. /\ Readable(file) \in Seq(Records) /\ Len(Readable(file)) = End(file)
        /\ \A i \in 1..End(file) : Readable(file)[i] = file[i]
        /\ End(file) = Len(file) \/ (End(file) = Len(file) - 1 /\ file[Len(file)] = Torn)
    BY <1>1, ReadableOf, EndOfLog, LogSnapshot DEF Taken
  <1>3. Range(Readable(file)) = {Readable(file)[i] : i \in 1..End(file)}
    BY <1>2, RangeOf
  <1>4. Kept \in 0..Len(file)
    BY <1>1 DEF Kept
  <1>5. ASSUME NEW x \in acked PROVE x \in Range(Readable(file))
    <2>1. PICK i \in 1..Kept : x = file[i]
      BY DEF AInv, AckedLogged
    <2>2. x # Torn
      BY <1>1, Participants
    <2>3. i \in 1..End(file)
      <3>1. i \in 1..Len(file)
        BY <1>1, <1>4
      <3> HIDE DEF End
      <3> QED
        BY <1>1, <1>2, <2>1, <2>2, <3>1
    <2> QED
      BY <1>2, <1>3, <2>1, <2>3
  <1> QED
    BY <1>5 DEF AckedKept

(* What an append has answered for can be read from the log from then on.  *)
(* Processes may be killed and writes and commits may fail wherever they   *)
(* like, or the power may; not both, for a reader folds, and an append of  *)
(* the same records then answers for, what a dead writer had not synced    *)
(* (shard.rs `append`, `cut_tail`; log.rs).                                *)
THEOREM AckedStays ==
    ASSUME Lasting
    PROVE  Spec => []AckedKept
  <1>1. IInv /\ AInv => AckedKept
    BY AckedRead
  <1> QED
    BY <1>1, AckedInvariant, Invariant, PTL

-----------------------------------------------------------------------------
(***************************************************************************)
(* Each record once.  What an append is to write is not in what it found   *)
(* described, because RECORD_HASH says of the described prefix what the    *)
(* prefix says, and each record of it is new to the others.                *)
(***************************************************************************)
Once(q) == \A i, j \in 1..Len(q) : q[i] = q[j] => i = j

DInv == /\ NoRecordTwice
        /\ \A w \in Writers :
              pc[w] \in Appends =>
                 /\ Once(todo[w])
                 /\ Range(todo[w]) \cap Range(described[w]) = {}

(* One that is not there yet does not make it there twice. *)
LEMMA OnceMore ==
    ASSUME NEW S, NEW q \in Seq(S), Once(q), NEW x \in S,
           \A i \in 1..Len(q) : q[i] # x
    PROVE  Once(Append(q, x))
  <1>1. /\ Len(Append(q, x)) = Len(q) + 1 /\ Len(q) \in Nat
        /\ \A i \in 1..Len(q) : Append(q, x)[i] = q[i]
        /\ Append(q, x)[Len(q) + 1] = x
    BY AppendProperties, LenProperties
  <1> QED
    BY <1>1 DEF Once

LEMMA OncePrefix ==
    ASSUME NEW S, NEW q \in Seq(S), Once(q), NEW n \in 0..Len(q)
    PROVE  /\ SubSeq(q, 1, n) \in Seq(S) /\ Len(SubSeq(q, 1, n)) = n
           /\ \A i \in 1..n : SubSeq(q, 1, n)[i] = q[i]
           /\ Once(SubSeq(q, 1, n))
  <1>1. Len(q) \in Nat /\ n \in Nat
    BY LenProperties
  <1>2. \A i \in 1..n : q[i] \in S
    BY <1>1, ElementOfSeq
  <1>3. /\ SubSeq(q, 1, n) \in Seq(S) /\ Len(SubSeq(q, 1, n)) = n
        /\ \A i \in 1..n : SubSeq(q, 1, n)[i] = q[i]
    BY <1>1, <1>2, SubSeqProperties
  <1> QED
    BY <1>1, <1>3 DEF Once

(* What a writer writes next is not in the file. *)
LEMMA WritesNew ==
    ASSUME IInv, DInv, NEW w \in Writers, WriteLog(w)
    PROVE  /\ todo[w][at[w] + 1] \in Records
           /\ \A i \in 1..Len(file) : file[i] # todo[w][at[w] + 1]
           /\ file' = Append(file, todo[w][at[w] + 1])
  <1> DEFINE d == described[w]
             t == todo[w]
             s == SubSeq(t, 1, at[w])
  <1>1. /\ pc[w] = "write" /\ at[w] < Len(t)
        /\ file' = Append(file, t[at[w] + 1])
    BY DEF WriteLog
  <1>2. /\ file = d \o s /\ d \in Seq(Records) /\ t \in Seq(Records)
        /\ at[w] \in Nat /\ Len(t) \in Nat /\ Len(d) \in Nat
    BY <1>1, WholeWhileWriting, LenProperties
  <1>3. Once(t) /\ Range(t) \cap Range(d) = {}
    BY <1>1 DEF DInv, Appends
  <1>4. at[w] \in 0..Len(t) /\ at[w] + 1 \in 1..Len(t)
    BY <1>1, <1>2
  <1>5. /\ s \in Seq(Records) /\ Len(s) = at[w]
        /\ \A i \in 1..at[w] : s[i] = t[i]
    BY <1>2, <1>3, <1>4, OncePrefix
  <1>6. /\ Len(file) = Len(d) + at[w]
        /\ \A i \in 1..Len(file) : file[i] = IF i <= Len(d) THEN d[i] ELSE s[i - Len(d)]
    <2>1. /\ Len(d \o s) = Len(d) + Len(s)
          /\ \A i \in 1..(Len(d) + Len(s)) :
                (d \o s)[i] = IF i <= Len(d) THEN d[i] ELSE s[i - Len(d)]
      <3>1. d \in Seq(Records) /\ s \in Seq(Records)
        BY <1>2, <1>5
      <3> HIDE DEF d, s
      <3> QED
        BY <3>1, ConcatProperties
    <2> HIDE DEF d, s, t
    <2> QED
      BY <1>2, <1>5, <2>1
  <1>7. t[at[w] + 1] \in Range(t) /\ t[at[w] + 1] \in Records
    BY <1>2, <1>4, RangeOf, ElementOfSeq
  <1>8. \A i \in 1..Len(d) : d[i] \in Range(d)
    BY <1>2, RangeOf
  <1>9. ASSUME NEW i \in 1..Len(file), file[i] = t[at[w] + 1] PROVE FALSE
    <2>1. CASE i <= Len(d)
      BY <1>2, <1>3, <1>6, <1>7, <1>8, <1>9, <2>1
    <2>2. CASE ~(i <= Len(d))
      <3>1. i - Len(d) \in 1..at[w] /\ i - Len(d) \in 1..Len(t)
        BY <1>2, <1>4, <1>6, <2>2
      <3>2. t[i - Len(d)] = t[at[w] + 1]
        BY <1>5, <1>6, <1>9, <2>2, <3>1
      <3>3. i - Len(d) = at[w] + 1
        BY <1>3, <1>4, <3>1, <3>2 DEF Once
      <3> QED
        BY <1>2, <3>1, <3>3
    <2> QED
      BY <2>1, <2>2
  <1> QED
    BY <1>1, <1>7, <1>9

LEMMA FileOnce ==
    ASSUME IInv, DInv, [Next]_vars
    PROVE  NoRecordTwice'
  <1>0. /\ file \in Seq(Cells) /\ Len(file) \in Nat /\ synced \in 0..Len(file)
        /\ Once(file) /\ \A i \in 1..(Len(file) - 1) : file[i] # Torn
    BY LenProperties DEF IInv, TypeOK, TornAtEnd, DInv, NoRecordTwice, Once
  <1> SUFFICES Once(file')
    BY DEF NoRecordTwice, Once
  <1>1. CASE Lengthened
    <2>1. PICK w \in Writers : WriteLog(w) \/ file' = Append(file, Torn)
      BY <1>1 DEF Lengthened
    <2>2. CASE WriteLog(w)
      <3>1. todo[w][at[w] + 1] \in Cells
        BY <2>2, WritesNew DEF Cells
      <3> QED
        BY <1>0, <2>2, <3>1, WritesNew, OnceMore
    <2>3. CASE file' = Append(file, Torn)
      <3>1. \A i \in 1..Len(file) : file[i] # Torn
        BY <1>1, ElementOfSeq, Participants DEF Lengthened
      <3>2. Torn \in Cells
        BY DEF Cells
      <3> QED
        BY <1>0, <2>3, <3>1, <3>2, OnceMore
    <2> QED
      BY <2>1, <2>2, <2>3
  <1>2. CASE PowerLoss
    <2>1. PICK n \in synced..Len(file) :
             \/ file' = SubSeq(file, 1, n)
             \/ n < Len(file) /\ file' = Append(SubSeq(file, 1, n), Torn)
      BY <1>2 DEF PowerLoss
    <2>2. n \in 0..Len(file)
      BY <1>0
    <2> DEFINE f == SubSeq(file, 1, n)
    <2>3. /\ f \in Seq(Cells) /\ Len(f) = n /\ Once(f)
          /\ \A i \in 1..n : f[i] = file[i]
      BY <1>0, <2>2, OncePrefix
    <2> HIDE DEF f
    <2>4. n < Len(file) => \A i \in 1..Len(f) : f[i] # Torn
      BY <1>0, <2>2, <2>3
    <2>5. Torn \in Cells
      BY DEF Cells
    <2> QED
      BY <2>1, <2>3, <2>4, <2>5, OnceMore DEF f
  <1>3. ASSUME NEW w \in Writers, CutTail(w) PROVE Once(file')
    <2>1. /\ file' = SubSeq(file, 1, Len(described[w]))
          /\ described[w] \in Seq(Records) /\ Len(described[w]) <= Len(file)
      BY <1>3 DEF CutTail, IInv, TypeOK, WriterKnows, Remembers, Knowing, Describes,
                  Actors
    <2>2. Len(described[w]) \in 0..Len(file)
      BY <1>0, <2>1, LenProperties
    <2> QED
      BY <1>0, <2>1, <2>2, OncePrefix
  <1> QED
    BY <1>0, <1>1, <1>2, <1>3, LogSteps

LEMMA TodoOnce ==
    ASSUME IInv, FInv, CInv, DInv, [Next]_vars, NEW w \in Writers,
           pc'[w] \in Appends
    PROVE  Once(todo'[w]) /\ Range(todo'[w]) \cap Range(described'[w]) = {}
  <1>0. /\ pc \in [Actors -> Places] /\ todo \in [Actors -> Seq(Records)]
        /\ todo[w] \in Seq(Records) /\ w \in Actors
    BY DEF IInv, TypeOK, Actors
  <1>1. ASSUME todo'[w] = <<>>
        PROVE  Once(todo'[w]) /\ Range(todo'[w]) \cap Range(described'[w]) = {}
    BY <1>1 DEF Once, Range
  <1>2. ASSUME pc[w] \in Appends, todo'[w] = todo[w], described'[w] = described[w]
        PROVE  Once(todo'[w]) /\ Range(todo'[w]) \cap Range(described'[w]) = {}
    BY <1>2 DEF DInv
  <1>3. CASE Settle(w)
    <2>1. todo[w] = <<>>
      BY <1>3 DEF Settle, CInv, Appends, Rests
    <2>2. todo'[w] = <<>>
      BY <1>0, <1>3, <2>1 DEF Settle, Return, job
    <2> QED
      BY <1>1, <2>2
  <1>4. CASE Dedupe(w)
    <2> DEFINE r == batch[w][at[w] + 1]
    <2>1. /\ todo'[w] = IF New(w, r) THEN Append(todo[w], r) ELSE todo[w]
          /\ described'[w] = described[w] /\ row = described[w] /\ r \in Records
      BY <1>4, DedupeHandles
    <2>2. pc[w] \in Appends
      BY <1>4 DEF Dedupe, Appends
    <2>3. CASE ~New(w, r)
      BY <1>2, <2>1, <2>2, <2>3
    <2>4. CASE New(w, r)
      <3>1. /\ r \notin Range(todo[w]) /\ <<r, One>> \notin tables.hash
        BY <2>4 DEF New, Fresh
      <3>2. From = described[w]
        BY <1>4, <2>1 DEF From, Dedupe
      <3>3. r \notin Range(described[w])
        <4> DEFINE c == [l \in Log |-> From]
        <4>1. tables.hash = {h \in Records \X DOMAIN c : InLog(c, h)}
          BY DEF FInv, Says, SaysOf
        <4>2. DOMAIN c = Log /\ One \in Log /\ c[One] = From
          BY DEF Log
        <4>3. InLog(c, <<r, One>>) <=> r \in Range(From)
          BY <4>2 DEF InLog
        <4> HIDE DEF c, r
        <4> QED
          BY <2>1, <3>1, <3>2, <4>1, <4>2, <4>3
      <3> HIDE DEF r
      <3>4. todo'[w] = Append(todo[w], r)
        BY <2>1, <2>4
      <3>5. Range(todo'[w]) = Range(todo[w]) \cup {r}
        BY <1>0, <2>1, <3>4, RangeOfAppend
      <3>6. Once(todo[w]) /\ Range(todo[w]) \cap Range(described[w]) = {}
        BY <2>2 DEF DInv
      <3>7. \A i \in 1..Len(todo[w]) : todo[w][i] # r
        BY <1>0, <3>1, RangeOf
      <3> QED
        BY <1>0, <2>1, <3>3, <3>4, <3>5, <3>6, <3>7, OnceMore
    <2> QED
      BY <2>3, <2>4
  <1>5. CASE Deduped(w)
    <2>1. pc[w] \in Appends
      BY <1>5 DEF Deduped, Appends
    <2>2. described'[w] = described[w] /\ (todo'[w] = <<>> \/ todo'[w] = todo[w])
      BY <1>0, <1>5 DEF Deduped, Ok, Return
    <2> QED
      BY <1>1, <1>2, <2>1, <2>2
  <1>6. CASE WriteLog(w) \/ SyncLog(w)
    BY <1>2, <1>6 DEF WriteLog, SyncLog, mem, job, Appends
  <1> QED
    BY <1>1, <1>2, <1>3, <1>4, <1>5, <1>6, AppendSteps DEF Rests, Holds

LEMMA OnceInvariant ==
    ASSUME RebuildsWhole
    PROVE  Spec => [](FInv /\ CInv /\ DInv)
  <1> DEFINE Inv == FInv /\ CInv /\ DInv
  <1>1. Init => Inv
    <2> SUFFICES ASSUME Init PROVE DInv
      BY FoldedInitially, AckedInitially
    <2>1. file = <<>> /\ \A w \in Writers : pc[w] = "idle"
      BY DEF Init, Actors
    <2> QED
      BY <2>1 DEF DInv, NoRecordTwice, Appends
  <1>2. IInv /\ Inv /\ [Next]_vars => Inv'
    <2> SUFFICES ASSUME IInv, Inv, [Next]_vars PROVE Inv'
      OBVIOUS
    <2>1. FInv'
      BY FoldedInductive
    <2>2. CInv'
      BY CoveredInductive DEF FInv, EmptyTables
    <2>3. DInv'
      BY FileOnce, TodoOnce DEF DInv
    <2> QED
      BY <2>1, <2>2, <2>3
  <1> QED
    BY <1>1, <1>2, Invariant, PTL DEF Spec

(* However often a record is appended, by however many writers, and        *)
(* whichever attempts failed or died halfway: it is in the log once        *)
(* (shard.rs `append`).                                                    *)
THEOREM EachRecordOnce ==
    ASSUME RebuildsWhole
    PROVE  Spec => []NoRecordTwice
  <1>1. DInv => NoRecordTwice
    BY DEF DInv
  <1> QED
    BY <1>1, OnceInvariant, PTL

-----------------------------------------------------------------------------
(***************************************************************************)
(* The promise.  What of a step AckedLog sees: what can be read from the   *)
(* log, what has been answered, and what each snapshot was taken of.       *)
(***************************************************************************)
(* What is read is all there is before the torn end. *)
LEMMA ReadableIs ==
    ASSUME NEW f \in Seq(Cells), TornLast(f), NEW q \in Seq(Records),
           Describes(q, f),
           Len(f) = Len(q) \/ (Len(f) = Len(q) + 1 /\ f[Len(f)] = Torn)
    PROVE  Readable(f) = q
  <1>1. Len(f) \in Nat /\ Len(q) \in Nat /\ \A i \in 1..Len(q) : q[i] \in Records
    BY LenProperties, ElementOfSeq
  <1>2. /\ Len(f) > 0 /\ f[Len(f)] = Torn => End(f) = Len(f) - 1
        /\ ~(Len(f) > 0 /\ f[Len(f)] = Torn) => End(f) = Len(f)
        /\ End(f) \in Nat
    BY EndOfLog, ReadableOf
  <1>3. End(f) = Len(q)
    <2>1. Len(f) = Len(q) /\ Len(f) > 0 => f[Len(f)] # Torn
      BY <1>1, Participants DEF Describes
    <2> HIDE DEF End
    <2> QED
      BY <1>1, <1>2, <2>1
  <1>4. \A i \in 1..Len(q) : f[i] = q[i]
    BY DEF Describes
  <1>5. /\ SubSeq(f, 1, Len(q)) \in Seq(Records) /\ Len(SubSeq(f, 1, Len(q))) = Len(q)
        /\ \A i \in 1..Len(q) : SubSeq(f, 1, Len(q))[i] = q[i]
    <2>1. \A i \in 1..Len(q) : f[i] \in Records
      BY <1>1, <1>4
    <2> QED
      BY <1>1, <1>4, <2>1, SubSeqProperties
  <1>6. SubSeq(f, 1, Len(q)) = q
    BY <1>5, SeqEqual
  <1> QED
    BY <1>3, <1>6 DEF Readable

LEMMA WholeReadable ==
    ASSUME NEW f \in Seq(Records)
    PROVE  Readable(f) = f
  <1>1. f \in Seq(Cells)
    BY SeqMonotonic DEF Cells
  <1>2. TornLast(f) /\ Describes(f, f)
    BY ElementOfSeq, LenProperties, Participants DEF TornLast, Describes
  <1> QED
    BY <1>1, <1>2, ReadableIs

(* What can be read: the same, one record more, or after a power failure   *)
(* the start of it.                                                        *)
LEMMA GrowsByOne ==
    ASSUME IInv, DInv, NEW w \in Writers, WriteLog(w)
    PROVE  \E r \in Records \ Range(Readable(file)) :
              Readable(file') = Append(Readable(file), r)
  <1> DEFINE r == todo[w][at[w] + 1]
  <1>1. file \in Seq(Records)
    BY WholeWhileWriting DEF WriteLog
  <1>2. r \in Records /\ file' = Append(file, r) /\ \A i \in 1..Len(file) : file[i] # r
    BY WritesNew
  <1> HIDE DEF r
  <1>3. r \notin Range(file)
    BY <1>1, <1>2, RangeOf
  <1>4. file' \in Seq(Records)
    BY <1>1, <1>2, AppendProperties
  <1> QED
    BY <1>1, <1>2, <1>3, <1>4, WholeReadable

LEMMA ReadableStays ==
    ASSUME IInv, IInv', [Next]_vars, ~PowerLoss, \A w \in Writers : ~WriteLog(w)
    PROVE  Readable(file') = Readable(file)
  <1>0. file' \in Seq(Cells) /\ TornLast(file') /\ file \in Seq(Cells) /\ TornLast(file)
    BY DEF IInv, TypeOK, TornAtEnd, TornLast
  <1>1. CASE Lengthened
    <2>1. file \in Seq(Records) /\ file' = Append(file, Torn) /\ Torn \in Cells
      BY <1>1 DEF Lengthened, Cells
    <2>2. /\ Len(file') = Len(file) + 1 /\ file'[Len(file')] = Torn
          /\ \A i \in 1..Len(file) : file'[i] = file[i]
          /\ Len(file) \in Nat
      BY <1>0, <2>1, AppendProperties, LenProperties
    <2>3. Describes(file, file')
      BY <2>2 DEF Describes
    <2>4. Readable(file') = file
      BY <1>0, <2>1, <2>2, <2>3, ReadableIs
    <2> QED
      BY <2>1, <2>4, WholeReadable
  <1>2. ASSUME NEW w \in Writers, CutTail(w)
        PROVE  Readable(file') = Readable(file)
    <2> DEFINE d == described[w]
    <2>1. /\ Describes(d, file) /\ Len(file) = Len(d) + 1 /\ file[Len(file)] = Torn
          /\ file' = SubSeq(file, 1, Len(d)) /\ d \in Seq(Records)
      BY <1>2 DEF CutTail, IInv, WriterKnows, Knowing, Remembers, AtCut, TypeOK, Actors
    <2>2. Len(d) \in Nat /\ \A i \in 1..Len(d) : file[i] \in Cells
      BY <1>0, <2>1, LenProperties, ElementOfSeq
    <2> HIDE DEF d
    <2>3. Len(file') = Len(d) /\ \A i \in 1..Len(d) : file'[i] = file[i]
      BY <2>1, <2>2, SubSeqProperties
    <2>4. Describes(d, file')
      BY <2>1, <2>2, <2>3 DEF Describes
    <2>5. Readable(file) = d /\ Readable(file') = d
      BY <1>0, <2>1, <2>3, <2>4, ReadableIs
    <2> QED
      BY <2>5
  <1> QED
    BY <1>1, <1>2, LogSteps

LEMMA ReadableLost ==
    ASSUME IInv, IInv', PowerLoss
    PROVE  \E n \in 0..Len(Readable(file)) : Readable(file') = SubSeq(Readable(file), 1, n)
  <1>0. /\ file' \in Seq(Cells) /\ TornLast(file') /\ file \in Seq(Cells)
        /\ TornLast(file) /\ Len(file) \in Nat /\ synced \in 0..Len(file)
    BY LenProperties DEF IInv, TypeOK, TornAtEnd, TornLast
  <1>1. PICK n \in synced..Len(file) :
           \/ file' = SubSeq(file, 1, n)
           \/ n < Len(file) /\ file' = Append(SubSeq(file, 1, n), Torn)
    BY DEF PowerLoss
  <1>2. n \in 0..Len(file) /\ n \in Nat
    BY <1>0
  <1>3. /\ Readable(file) \in Seq(Records) /\ Len(Readable(file)) = End(file)
        /\ \A i \in 1..End(file) : Readable(file)[i] = file[i]
        /\ End(file) \in {Len(file), Len(file) - 1} /\ End(file) \in Nat
    BY <1>0, ReadableOf, EndOfLog, LogSnapshot DEF Taken
  <1>4. CASE n = Len(file)
    <2>1. file' = file
      BY <1>0, <1>1, <1>4, SubSeqFull
    <2>2. Readable(file) = SubSeq(Readable(file), 1, Len(Readable(file)))
      BY <1>3, SubSeqFull
    <2>3. Len(Readable(file)) \in 0..Len(Readable(file))
      BY <1>3, LenProperties
    <2> QED
      BY <2>1, <2>2, <2>3
  <1>5. CASE n < Len(file)
    <2> DEFINE q == SubSeq(Readable(file), 1, n)
    <2>1. n <= Len(Readable(file))
      <3> HIDE DEF End, Readable
      <3> QED
        BY <1>0, <1>2, <1>3, <1>5
    <2>2. /\ q \in Seq(Records) /\ Len(q) = n
          /\ \A i \in 1..n : q[i] = Readable(file)[i]
      <3>1. \A i \in 1..n : Readable(file)[i] \in Records
        <4>1. \A i \in 1..n : i \in 1..Len(Readable(file))
          BY <1>2, <1>3, <2>1
        <4> QED
          BY <1>3, <4>1, ElementOfSeq
      <3> HIDE DEF Readable
      <3> QED
        BY <1>2, <3>1, SubSeqProperties
    <2>3. \A i \in 1..n : q[i] = file[i]
      <3>1. \A i \in 1..n : i \in 1..End(file)
        BY <1>2, <1>3, <2>1
      <3> QED
        BY <1>3, <2>2, <3>1
    <2> HIDE DEF q
    <2> DEFINE f == SubSeq(file, 1, n)
    <2>4. /\ f \in Seq(Cells) /\ Len(f) = n /\ \A i \in 1..n : f[i] = file[i]
      <3>1. \A i \in 1..n : file[i] \in Cells
        BY <1>0, <1>2, ElementOfSeq
      <3> QED
        BY <1>2, <3>1, SubSeqProperties
    <2> HIDE DEF f
    <2>5. Readable(file') = q
      <3>1. CASE file' = f
        <4>1. Describes(q, f) /\ Len(f) = Len(q)
          BY <1>2, <2>2, <2>3, <2>4 DEF Describes
        <4> QED
          BY <1>0, <2>2, <3>1, <4>1, ReadableIs
      <3>2. CASE file' = Append(f, Torn)
        <4>1. /\ Len(file') = n + 1 /\ file'[n + 1] = Torn
              /\ \A i \in 1..n : file'[i] = f[i]
          <5>1. Torn \in Cells
            BY DEF Cells
          <5> QED
            BY <2>4, <3>2, <5>1, AppendProperties
        <4>2. Describes(q, file')
          BY <1>2, <2>2, <2>3, <2>4, <4>1 DEF Describes
        <4> QED
          BY <1>0, <2>2, <4>1, <4>2, ReadableIs
      <3> QED
        BY <1>1, <3>1, <3>2 DEF f
    <2>6. n \in 0..Len(Readable(file))
      <3> HIDE DEF Readable
      <3> QED
        BY <1>2, <2>1
    <2> QED
      BY <2>5, <2>6 DEF q
  <1> QED
    BY <1>1, <1>0, <1>2, <1>4, <1>5

(* What becomes of the snapshots: some are dropped, or one is taken, and   *)
(* then the log and what is answered stay as they are.                     *)
Dropped == \E S \in SUBSET Actors :
              /\ \A a \in Actors : view'[a] = IF a \in S THEN NoView ELSE view[a]
              /\ acked' = acked

Looks(a) == /\ UNCHANGED <<file, acked>>
            /\ \A b \in Actors \ {a} : view'[b] = view[b]
            /\ \/ view'[a].of = Readable(file)
               \/ row # None /\ view'[a].of = row /\ Describes(row, file)

LEMMA ViewSteps ==
    ASSUME IInv, [Next]_vars
    PROVE  view' = view \/ Dropped \/ \E a \in Actors : Looks(a)
  <1> DEFINE Done == view' = view \/ Dropped \/ \E a \in Actors : Looks(a)
  <1>0. DOMAIN view = Actors
    BY DEF IInv, TypeOK
  <1>1. ASSUME NEW r \in Readers, ReadLog(r) PROVE Looks(r) /\ r \in Actors
    <2>1. /\ view' = [view EXCEPT ![r] =
                        [described |-> Readable(file), of |-> Readable(file)]]
          /\ UNCHANGED <<file, acked>> /\ r \in Actors
      BY <1>1 DEF ReadLog, disk, Actors
    <2> QED
      BY <1>0, <2>1 DEF Looks
  <1>2. ASSUME NEW a \in Actors, row # None, pc[a] \in CaughtUp,
               UNCHANGED <<file, acked>>,
               view' = [view EXCEPT ![a] = Snapshot(described[a])]
        PROVE  Looks(a)
    <2>1. Describes(row, file)
      BY <1>2 DEF IInv, StoreKnown
    <2> QED
      BY <1>0, <1>2, <2>1 DEF Looks, Snapshot
  <1>3. ASSUME NEW r \in Readers, Load(r) PROVE Done
    <2>1. CASE row = None
      BY <1>3, <2>1 DEF Load
    <2>2. CASE row # None
      BY <1>2, <1>3, <2>2 DEF Load, disk, Actors, CaughtUp
    <2> QED
      BY <2>1, <2>2
  <1>4. ASSUME NEW w \in Writers, TakeReader(w) PROVE Done
    BY <1>2, <1>4 DEF TakeReader, disk, Actors, CaughtUp, Knowing
  <1>5. ASSUME NEW a \in Actors, CloseView(a) PROVE Dropped
    <2>1. view' = [view EXCEPT ![a] = NoView] /\ acked' = acked
      BY <1>5 DEF CloseView
    <2>2. \A b \in Actors : view'[b] = IF b \in {a} THEN NoView ELSE view[b]
      BY <1>0, <2>1
    <2> QED
      BY <2>1, <2>2 DEF Dropped
  <1>6. ASSUME NEW dead, Forget(dead), acked' = acked PROVE Dropped
    <2>1. \A b \in Actors : view'[b] = IF b \in dead \cap Actors THEN NoView ELSE view[b]
      BY <1>6 DEF Forget, Without
    <2> QED
      BY <1>6, <2>1 DEF Dropped
  <1>7. ASSUME NEW w \in Writers, WriterStep(w) \/ WriterStart(w) PROVE Done
    <2>1. w \in Actors
      BY DEF Actors
    <2> QED
      BY <1>4, <1>5, <1>7, <2>1
      DEF WriterStep, WriterStart, OpenShared, GiveUp, EnterCatchUp, CheckPrefix,
          FoldTail, CutTail, Settle, Dedupe, NoHashes, Deduped, WriteLog, SyncLog,
          Commit, AcquireLock, BeginAppend, CloseWriter
  <1>8. ASSUME NEW r \in Readers, ReaderStep(r) \/ ReaderStart(r) PROVE Done
    <2>1. r \in Actors
      BY DEF Actors
    <2> QED
      BY <1>1, <1>3, <1>5, <1>8, <2>1
      DEF ReaderStep, ReaderStart, EnterCatchUp, CheckPrefix, FoldTail, OpenReader
  <1>9. ASSUME Fault PROVE Done
    BY <1>6, <1>9 DEF Fault, FoldFails, WriteFails, CommitFails, Kill, PowerLoss
  <1>10. BreakLock \/ UNCHANGED vars => view' = view
    BY DEF BreakLock, vars
  <1> QED
    BY <1>7, <1>8, <1>9, <1>10 DEF Next

(* A prefix of the file that is described is one of what can be read. *)
LEMMA PrefixIs ==
    ASSUME NEW q \in Seq(Records), NEW d \in Seq(Records), Describes(d, q)
    PROVE  d = SubSeq(q, 1, Len(d)) /\ Len(d) \in 0..Len(q)
  <1>1. /\ Len(d) \in Nat /\ Len(q) \in Nat /\ Len(d) <= Len(q)
        /\ \A i \in 1..Len(d) : d[i] = q[i] /\ q[i] \in Records
    BY LenProperties, ElementOfSeq DEF Describes
  <1>2. /\ SubSeq(q, 1, Len(d)) \in Seq(Records)
        /\ Len(SubSeq(q, 1, Len(d))) = Len(d)
        /\ \A i \in 1..Len(d) : SubSeq(q, 1, Len(d))[i] = q[i]
    BY <1>1, SubSeqProperties
  <1>3. \A i \in 1..Len(d) : SubSeq(q, 1, Len(d))[i] = d[i]
    BY <1>1, <1>2
  <1> QED
    BY <1>1, <1>2, <1>3, SeqEqual

LEMMA RowReadable ==
    ASSUME IInv, NEW d \in Seq(Records), Describes(d, file)
    PROVE  Describes(d, Readable(file))
  <1>1. file \in Seq(Cells) /\ TornLast(file) /\ Len(file) \in Nat
    BY LenProperties DEF IInv, TypeOK, TornAtEnd, TornLast
  <1>2. /\ Len(d) \in Nat /\ Len(d) <= Len(file)
        /\ \A i \in 1..Len(d) : d[i] = file[i] /\ file[i] # Torn
    BY LenProperties, ElementOfSeq, Participants DEF Describes
  <1>3. /\ Len(Readable(file)) = End(file)
        /\ \A i \in 1..End(file) : Readable(file)[i] = file[i]
        /\ End(file) = Len(file) \/ (End(file) = Len(file) - 1 /\ file[Len(file)] = Torn)
        /\ End(file) \in Nat
    BY <1>1, ReadableOf, EndOfLog
  <1> HIDE DEF End, Readable
  <1>4. Len(d) <= End(file)
    BY <1>1, <1>2, <1>3
  <1> QED
    BY <1>2, <1>3, <1>4 DEF Describes

(* Each step is one of AckedLog's, or none. *)
LEMMA PromiseKept ==
    ASSUME IInv, IInv', CInv, DInv, AInv, AckedKept, AckedKept', [Next]_vars
    PROVE  [Promise!Next]_<<Readable(file), acked, [a \in Actors |-> view[a].of]>>
  <1> DEFINE log  == Readable(file)
             seen == [a \in Actors |-> view[a].of]
  <1>0. /\ log \in Seq(Records) /\ Len(log) \in Nat
        /\ acked \subseteq Range(log) /\ acked' \subseteq Range(log')
    BY LogSnapshot, LenProperties DEF Taken, AckedKept
  <1> USE DEF Promise!Range, Range
  <1>1. CASE PowerLoss
    <2>1. \E n \in 0..Len(log) : log' = SubSeq(log, 1, n)
      BY <1>1, ReadableLost
    <2>2. seen' = [a \in Actors |-> None] /\ acked' = acked /\ "power" \in Faults
      BY <1>1 DEF PowerLoss, Forget, Without, NoView
    <2> HIDE DEF log, seen
    <2>3. Promise!Lose
      BY <1>0, <2>1, <2>2 DEF Promise!Lose, log, seen
    <2> QED
      BY <2>3 DEF Promise!Next, log, seen
  <1>2. ASSUME NEW w \in Writers, WriteLog(w)
        PROVE  Promise!Next
    <2>1. \E r \in Records \ Range(log) : log' = Append(log, r)
      BY <1>2, GrowsByOne
    <2>2. acked' = acked /\ seen' = seen
      BY <1>2 DEF WriteLog
    <2> HIDE DEF log, seen
    <2>3. Promise!Grow
      BY <2>1, <2>2 DEF Promise!Grow, log, seen
    <2> QED
      BY <2>3 DEF Promise!Next
  <1>3. CASE ~PowerLoss /\ \A w \in Writers : ~WriteLog(w)
    <2>1. log' = log
      BY <1>3, ReadableStays
    <2>2. CASE Answers /\ view' = view
      <3>1. log = file
        BY <2>2, WholeReadable DEF Answers
      <3>2. \E S \in SUBSET Range(log) : acked' = acked \cup S
        BY <2>2, <3>1 DEF Answers
      <3>3. seen' = seen
        BY <2>2
      <3> HIDE DEF log, seen
      <3>4. Promise!Answer
        BY <2>1, <3>2, <3>3 DEF Promise!Answer, log, seen
      <3> QED
        BY <3>4 DEF Promise!Next
    <2>3. CASE acked' = acked /\ view' = view
      BY <2>1, <2>3
    <2>4. CASE acked' = acked /\ Dropped
      <3>1. \E S \in SUBSET Actors :
               seen' = [a \in Actors |-> IF a \in S THEN None ELSE seen[a]]
        BY <2>4 DEF Dropped, NoView
      <3> HIDE DEF log, seen
      <3>2. Promise!Drop
        BY <2>1, <2>4, <3>1 DEF Promise!Drop, log, seen
      <3> QED
        BY <3>2 DEF Promise!Next
    <2>5. ASSUME NEW a \in Actors, Looks(a), acked' = acked
          PROVE  Promise!Next
      <3>1. \E n \in 0..Len(log) : /\ view'[a].of = SubSeq(log, 1, n)
                                   /\ acked \subseteq Range(SubSeq(log, 1, n))
        <4>1. CASE view'[a].of = log
          <5> DEFINE n == Len(log)
          <5>1. log = SubSeq(log, 1, n) /\ n \in 0..Len(log)
            BY <1>0, SubSeqFull
          <5> HIDE DEF log, n
          <5>2. /\ view'[a].of = SubSeq(log, 1, n)
                /\ acked \subseteq Range(SubSeq(log, 1, n))
            BY <1>0, <4>1, <5>1
          <5> QED
            BY <5>1, <5>2
        <4>2. CASE row # None /\ view'[a].of = row /\ Describes(row, file)
          <5>1. row \in Seq(Records) /\ Describes(row, log) /\ Len(row) \in Nat
            BY <4>2, RowReadable, LenProperties DEF IInv, TypeOK
          <5> DEFINE n == Len(row)
          <5>2. row = SubSeq(log, 1, n) /\ n \in 0..Len(log)
            BY <1>0, <5>1, PrefixIs
          <5> HIDE DEF log, n
          <5>3. acked \subseteq Range(row)
            BY <4>2 DEF AInv, AckedStored
          <5>4. /\ view'[a].of = SubSeq(log, 1, n)
                /\ acked \subseteq Range(SubSeq(log, 1, n))
            BY <4>2, <5>2, <5>3
          <5> QED
            BY <5>2, <5>4
        <4> QED
          BY <2>5, <4>1, <4>2 DEF Looks
      <3>2. PICK n \in 0..Len(log) : /\ view'[a].of = SubSeq(log, 1, n)
                                     /\ acked \subseteq Range(SubSeq(log, 1, n))
        BY <3>1
      <3>3. seen' = [seen EXCEPT ![a] = SubSeq(log, 1, n)]
        BY <2>5, <3>2 DEF Looks
      <3> HIDE DEF log, seen
      <3>4. Promise!Look(a)
        BY <2>1, <2>5, <3>2, <3>3 DEF Promise!Look, log, seen
      <3> QED
        BY <3>4 DEF Promise!Next
    <2> QED
      BY <2>2, <2>3, <2>4, <2>5, AnswerSteps, ViewSteps DEF Looks
  <1> QED
    BY <1>1, <1>2, <1>3

(* The whole of what a log with its unit store promises: one sequence of   *)
(* records, each once, that only grows; an append is answered when its     *)
(* records are in it; an open sees all that was answered before, whichever *)
(* process appended it (shard.rs, build.rs, mod.rs, lock.rs together).     *)
THEOREM StoreKeepsPromise ==
    ASSUME RebuildsWhole, Lasting
    PROVE  Spec => ImplementsAckedLog
  <1>1. Init => Promise!Init
    <2> SUFFICES ASSUME Init PROVE Promise!Init
      OBVIOUS
    <2>1. file = <<>> /\ acked = {} /\ \A a \in Actors : view[a] = NoView
      BY DEF Init
    <2>2. Readable(file) = <<>>
      BY <2>1, WholeReadable, EmptySeq
    <2> QED
      BY <2>1, <2>2 DEF Promise!Init, NoView
  <1>2. (IInv /\ IInv' /\ CInv /\ DInv /\ AInv
         /\ AckedKept /\ AckedKept' /\ [Next]_vars)
          => [Promise!Next]_<<Readable(file), acked, [a \in Actors |-> view[a].of]>>
    BY PromiseKept
  <1> QED
    BY <1>1, <1>2, Invariant, AckedInvariant, AckedStays, OnceInvariant, PTL
    DEF Spec, ImplementsAckedLog, Promise!Spec
=============================================================================
