--------------------------- MODULE ShardMigration ---------------------------
(***************************************************************************)
(* One shard of a library, moved into the unit store and back              *)
(* (crates/smysl-text/src: library.rs `open`, `settle_migrations`,         *)
(* `migrate_primary_all`, `migrate_index`, `append_records`; shards.rs     *)
(* `ShardLog`, `open_store`; crates/smysl-graph/src/store/redb/primary.rs; *)
(* store/any.rs `open_redb_shards`).                                       *)
(*                                                                         *)
(* In index mode the shard's records are a log file, which the unit store  *)
(* describes.  In primary mode they are in the store, a marker file says   *)
(* so, and the log has been set aside.  Each change of mode is several     *)
(* writes to three places; whoever opens the library next settles what a   *)
(* crash left of one.                                                      *)
(*                                                                         *)
(* A command (main.rs `with_library`, `text add`) opens the library first, *)
(* settling and then reading the shard with no lock, takes the library     *)
(* lock, does one thing and exits.  The database of the unit store is open *)
(* in one process at a time: a command that finds it held settles nothing, *)
(* gives up moving the shard at once, and waits a while to read a primary  *)
(* shard or append to it.  Other processes read the library through the    *)
(* unit store alone (main.rs `open_library_union`) and never settle it.    *)
(*                                                                         *)
(* The log set aside is not read again and is left out: setting the log    *)
(* aside takes the file away.  What a command knows of the shard is not    *)
(* kept up to date after what it came to do, since it then exits.          *)
(***************************************************************************)
EXTENDS LogCells, FiniteSets, SequencesExt

CONSTANTS Records,   \* what is appended to the shard
          Commands,  \* processes that open the library
          Readers,   \* processes that read it through the unit store
          MaxCells,  \* bound: nothing is appended to a log of so many cells
          None

ASSUME Roles ==
    /\ Commands \cap Readers = {}
    /\ (Commands \cup Readers) \cap {None, "dead"} = {}
    /\ Torn \notin Records /\ Torn # None
    /\ MaxCells \in Nat

VARIABLES
    file,      \* the shard's log, cell by cell, or None
    marked,    \* whether <stem>.primary is there
    row,       \* the shard's row in the store, None before the first one
    store,     \* the process that has the store open, or None
    lock,      \* the library lock: a command, "dead" if it died, or None
    pc,        \* where each command is
    known,     \* what it read of the shard when it opened the library
    todo,      \* the record it is appending
    before,    \* what the log held when it was copied
    answer,    \* what each reader was given, None if it has nothing open
    acked      \* the records an append has answered Ok for

disk == <<file, marked, row>>
vars == <<file, marked, row, store, lock, pc, known, todo, before, answer, acked>>

Places == {"idle", "settle", "settling", "look", "file", "wait", "open",
           "ready", "write", "written", "stored", "caughtup", "copy", "verify",
           "mark", "aside", "unstored", "fill", "switch", "unmark", "done"}

(* recs: the records the row describes, in primary mode those of RECORDS;  *)
(* chained: in primary mode the hash is a chain over its appends, and once *)
(* there has been one it is no longer the hash of any file.                *)
Rows == [primary : BOOLEAN, chained : BOOLEAN, recs : Seq(Records)]

Libraries == [primary : BOOLEAN, torn : BOOLEAN, recs : Seq(Records)]

ASSUME NothingIsThere ==
    /\ None \notin Records /\ None \notin Seq(Records \cup {Torn})
    /\ None \notin Rows /\ None \notin Libraries

Init == /\ file = None /\ marked = FALSE /\ row = None
        /\ store = None /\ lock = None
        /\ pc = [p \in Commands |-> "idle"]
        /\ known = [p \in Commands |-> None]
        /\ todo = [p \in Commands |-> None]
        /\ before = [p \in Commands |-> None]
        /\ answer = [h \in Readers |-> None]
        /\ acked = {}

-----------------------------------------------------------------------------
Bytes     == IF file = None THEN <<>> ELSE file
WholeFile == Bytes
Whole     == Readable(Bytes)
Primary   == row # None /\ row.primary

(* The database is open in some other process. *)
Held      == store # None

(* The log is there and begins with what the store says it was made        *)
(* primary from, or describes (primary.rs, the hash_prefix of either).     *)
FileMatches == /\ file # None
               /\ Describes(row.recs, file)
               /\ ~row.chained

(* build.rs `catch_up` over this shard: nothing for a primary one, else    *)
(* what the log holds, folded from where the row ended or anew.            *)
CaughtUp == IF Primary THEN row
            ELSE [primary |-> FALSE, chained |-> FALSE, recs |-> Whole]

InMode(primary) == [row EXCEPT !.primary = primary, !.chained = FALSE]

Goto(p, where)    == pc' = [pc EXCEPT ![p] = where]
Step(p, from, to) == pc[p] = from /\ Goto(p, to)

(* The process ends, one way or another: what it held goes with it. *)
Exit(p) == /\ Goto(p, "idle")
           /\ known' = [known EXCEPT ![p] = None]
           /\ todo' = [todo EXCEPT ![p] = None]
           /\ before' = [before EXCEPT ![p] = None]
           /\ store' = IF store = p THEN None ELSE store
           /\ UNCHANGED <<answer, acked>>

Leave(p) == Exit(p) /\ lock' = IF lock = p THEN None ELSE lock
Fails(p) == Leave(p) /\ UNCHANGED disk

(* What only a command that is moving along changes: pc, known and such.   *)
mind   == <<known, todo, before>>
others == <<answer, acked>>

-----------------------------------------------------------------------------
(* Library::open: settle_migrations, then the shard's log or the store.    *)

Start(p) == /\ Step(p, "idle", "settle")
            /\ UNCHANGED <<disk, store, lock, mind, others>>

(* No store yet, or another process has it and is taken to have settled.   *)
SkipSettle(p) == /\ Step(p, "settle", "look")
                 /\ row = None \/ Held
                 /\ UNCHANGED <<disk, store, lock, mind, others>>

BeginSettle(p) == /\ Step(p, "settle", "settling")
                  /\ row # None /\ ~Held
                  /\ store' = p
                  /\ UNCHANGED <<disk, lock, mind, others>>

EndSettle(p) == /\ store' = None
                /\ Goto(p, "look")
                /\ UNCHANGED <<lock, mind, others>>

(* In the store, with no marker, the log still there: back to index mode,  *)
(* provided the log is the one the store was made primary from.            *)
Abandons == Primary /\ ~marked /\ file # None

SettleBack(p) == /\ pc[p] = "settling"
                 /\ Abandons /\ FileMatches
                 /\ row' = InMode(FALSE)
                 /\ EndSettle(p)
                 /\ UNCHANGED <<file, marked>>

SettleRefused(p) == /\ pc[p] = "settling"
                    /\ Abandons /\ ~FileMatches
                    /\ Fails(p)

(* In the store and marked, the log still there: set aside. *)
SettleForward(p) == /\ pc[p] = "settling"
                    /\ Primary /\ marked /\ file # None
                    /\ file' = None
                    /\ EndSettle(p)
                    /\ UNCHANGED <<marked, row>>

(* Marked, and not in the store: the marker goes. *)
SettleUnmark(p) == /\ pc[p] = "settling"
                   /\ ~Primary /\ marked /\ file # None
                   /\ marked' = FALSE
                   /\ EndSettle(p)
                   /\ UNCHANGED <<file, row>>

SettleNothing(p) == /\ pc[p] = "settling"
                    /\ (~Primary /\ ~marked) \/ file = None
                    /\ EndSettle(p)
                    /\ UNCHANGED disk

(* ShardLog::read: the marker first, and then what it says to read.        *)
Look(p) == /\ pc[p] = "look"
           /\ Goto(p, IF marked THEN "wait" ELSE "file")
           /\ UNCHANGED <<disk, store, lock, mind, others>>

Knows(p, primary, torn, recs) ==
    known' = [known EXCEPT ![p] =
                 [primary |-> primary, torn |-> torn, recs |-> recs]]

ReadFile(p) == /\ Step(p, "file", "open")
               /\ Knows(p, FALSE, Len(Whole) < Len(Bytes), Whole)
               /\ UNCHANGED <<disk, store, lock, todo, before, others>>

ReadStore(p) == /\ Step(p, "wait", "open")
                /\ ~Held /\ Primary
                /\ Knows(p, TRUE, FALSE, row.recs)
                /\ UNCHANGED <<disk, store, lock, todo, before, others>>

(* Held for longer than it waits, or marked and not there. *)
ReadRefused(p) == /\ pc[p] = "wait"
                  /\ Held \/ ~Primary
                  /\ Fails(p)

-----------------------------------------------------------------------------
(* lock.rs: the library lock, taken when the library has been read.        *)

Acquire(p) == /\ Step(p, "open", "ready")
              /\ lock = None
              /\ lock' = p
              /\ UNCHANGED <<disk, store, mind, others>>

(* Refused, or a command that only reads. *)
Close(p) == /\ pc[p] = "open"
            /\ Fails(p)

Finish(p) == /\ pc[p] = "done"
             /\ Fails(p)

(* An operator removes the lock of a writer that died. *)
BreakLock == /\ lock = "dead"
             /\ lock' = None
             /\ UNCHANGED <<disk, store, pc, mind, others>>

-----------------------------------------------------------------------------
(* append_records of one record, ShardLog::append.                         *)

Acknowledge(p, r) == /\ acked' = acked \cup {r}
                     /\ Goto(p, "done")
                     /\ UNCHANGED <<disk, store, lock, mind, answer>>

AppendKnown(p, r) == /\ pc[p] = "ready"
                     /\ r \in Range(known[p].recs)
                     /\ Acknowledge(p, r)

(* The log is created if need be, and cut where the command found its last *)
(* complete record to end, if it found more there.                         *)
KeepTail(n) == Bytes
CutAt(n) == [i \in 1..n |-> IF i <= Len(Bytes) THEN Bytes[i] ELSE Torn]

BeginAppend(p, r) ==
    /\ Step(p, "ready", "write")
    /\ ~known[p].primary /\ r \notin Range(known[p].recs)
    /\ Len(Bytes) < MaxCells
    /\ file' = IF known[p].torn THEN CutAt(Len(known[p].recs)) ELSE Bytes
    /\ todo' = [todo EXCEPT ![p] = r]
    /\ UNCHANGED <<marked, row, store, lock, known, before, others>>

Write(p) == /\ Step(p, "write", "written")
            /\ file' = Append(Bytes, todo[p])
            /\ UNCHANGED <<marked, row, store, lock, mind, others>>

Written(p) == pc[p] \in {"written", "stored"} /\ Acknowledge(p, todo[p])

(* RedbShards::append: into the store, which stays open from then on.      *)
AppendStored(p, r) ==
    /\ Step(p, "ready", "stored")
    /\ known[p].primary /\ r \notin Range(known[p].recs)
    /\ ~Held /\ Primary
    /\ Len(row.recs) < MaxCells
    /\ row' = [row EXCEPT !.recs = Append(@, r), !.chained = TRUE]
    /\ store' = p
    /\ todo' = [todo EXCEPT ![p] = r]
    /\ UNCHANGED <<file, marked, lock, known, before, others>>

AppendRefused(p, r) ==
    /\ pc[p] = "ready"
    /\ known[p].primary /\ r \notin Range(known[p].recs)
    /\ Held \/ ~Primary
    /\ Fails(p)

-----------------------------------------------------------------------------
(* migrate_primary_all of this shard.                                      *)

(* open_shards, dropped again: the store brought up to the log.  Either    *)
(* open of the store fails at once when it is held.                        *)
CatchUp(p) == /\ Step(p, "ready", "caughtup")
              /\ ~Held
              /\ row' = CaughtUp
              /\ UNCHANGED <<file, marked, store, lock, mind, others>>

HoldStore(p) == /\ pc[p] = "caughtup"
                /\ ~Held
                /\ store' = p
                /\ Goto(p, IF known[p].primary THEN "done" ELSE "copy")
                /\ UNCHANGED <<disk, lock, mind, others>>

WaitsForStore(p) == FALSE

MoveRefused(p) == /\ pc[p] \in {"ready", "caughtup"}
                  /\ Held
                  /\ Fails(p)

(* ShardLog::read again, for its digest, and make_primary: nothing when    *)
(* the store has the shard already.                                        *)
Copies     == Primary \/ FileMatches
Original   == IF marked THEN row.recs ELSE Whole

MakePrimary(p) == /\ Step(p, "copy", "verify")
                  /\ marked => Primary
                  /\ Copies
                  /\ before' = [before EXCEPT ![p] = Original]
                  /\ row' = IF Primary THEN row ELSE InMode(TRUE)
                  /\ UNCHANGED <<file, marked, store, lock, known, todo, others>>

CopyRefused(p) == /\ pc[p] = "copy"
                  /\ ~Copies \/ (marked /\ ~Primary)
                  /\ Fails(p)

(* The record sets of the log, of what is read back and of the tables.     *)
Trusted(p)     == TRUE
SameRecords(p) == Range(before[p]) = Range(row.recs)

Verify(p) == /\ Step(p, "verify", "mark")
             /\ SameRecords(p)
             /\ UNCHANGED <<disk, store, lock, mind, others>>

(* SMY-E505: the store put back as it was, if the log still allows that.   *)
Disagrees(p) == /\ pc[p] = "verify"
                /\ ~SameRecords(p)
                /\ row' = IF FileMatches THEN InMode(FALSE) ELSE row
                /\ Leave(p)
                /\ UNCHANGED <<file, marked>>

MarkLater(p) == /\ Step(p, "mark", "aside")
                /\ UNCHANGED <<disk, store, lock, mind, others>>

Mark(p) == /\ Step(p, "mark", "aside")
           /\ marked' = TRUE
           /\ UNCHANGED <<file, row, store, lock, mind, others>>

SetAside(p) == /\ Step(p, "aside", "done")
               /\ file # None
               /\ file' = None
               /\ store' = None
               /\ UNCHANGED <<marked, row, lock, mind, others>>

NothingAside(p) == /\ pc[p] = "aside"
                   /\ file = None
                   /\ Fails(p)

-----------------------------------------------------------------------------
(* migrate_index.                                                          *)

TakeBack(p) == /\ Step(p, "ready", "unstored")
               /\ known[p].primary
               /\ ~Held
               /\ store' = p
               /\ UNCHANGED <<disk, lock, mind, others>>

(* make_index: nothing when the store does not have the shard; a new file, *)
(* filled and synced; then the row.                                        *)
NotStored(p) == /\ Step(p, "unstored", "unmark")
                /\ ~Primary
                /\ store' = None
                /\ UNCHANGED <<disk, lock, mind, others>>

StoreFirst(p) == /\ Step(p, "unstored", "fill")
                 /\ Primary /\ file = None
                 /\ file' = <<>>
                 /\ row' = InMode(FALSE)
                 /\ UNCHANGED <<marked, store, lock, mind, others>>

CreateLog(p) == /\ Step(p, "unstored", "fill")
                /\ Primary /\ file = None
                /\ file' = <<>>
                /\ UNCHANGED <<marked, row, store, lock, mind, others>>

LogExists(p) == /\ pc[p] = "unstored"
                /\ Primary /\ file # None
                /\ Fails(p)

Fill(p) == /\ Step(p, "fill", "switch")
           /\ file' = row.recs
           /\ UNCHANGED <<marked, row, store, lock, mind, others>>

Switch(p) == /\ Step(p, "switch", "unmark")
             /\ row' = InMode(FALSE)
             /\ store' = None
             /\ UNCHANGED <<file, marked, lock, mind, others>>

Unmark(p) == /\ Step(p, "unmark", "done")
             /\ marked
             /\ marked' = FALSE
             /\ UNCHANGED <<file, row, store, lock, mind, others>>

(* Somebody who opened the library meanwhile has settled it. *)
NoMarker(p) == /\ pc[p] = "unmark"
               /\ ~marked
               /\ Fails(p)

-----------------------------------------------------------------------------
(* A command is killed: its lock file stays, the store is let go, and a    *)
(* write it was in may be there in part.                                   *)
PartOf(recs) == {SubSeq(recs, 1, n) : n \in 0..(Len(recs) - 1)} \cup
                {Append(SubSeq(recs, 1, n), Torn) : n \in 0..(Len(recs) - 1)}

Left(p) == {file} \cup (IF pc[p] = "write" THEN {Append(Bytes, Torn)}
                        ELSE IF pc[p] = "fill" THEN PartOf(row.recs) ELSE {})

Kill(p) == /\ pc[p] # "idle"
           /\ file' \in Left(p)
           /\ lock' = IF lock = p THEN "dead" ELSE lock
           /\ Exit(p)
           /\ UNCHANGED <<marked, row>>

-----------------------------------------------------------------------------
(* AnyStore::open_redb_shards, and the reader letting go of what it got.   *)

Answers(h, recs) == answer' = [answer EXCEPT ![h] = recs]

OpenStore(h) == /\ answer[h] = None
                /\ ~Held
                /\ row' = CaughtUp
                /\ store' = h
                /\ Answers(h, CaughtUp.recs)
                /\ UNCHANGED <<file, marked, lock, pc, mind, acked>>

(* Held for longer than it waits: the log is read into memory. *)
OpenLog(h) == /\ answer[h] = None
              /\ Held
              /\ Answers(h, Whole)
              /\ UNCHANGED <<disk, store, lock, pc, mind, acked>>

CloseReader(h) == /\ answer[h] # None
                  /\ answer' = [answer EXCEPT ![h] = None]
                  /\ store' = IF store = h THEN None ELSE store
                  /\ UNCHANGED <<disk, lock, pc, mind, acked>>

-----------------------------------------------------------------------------
Opening(p) ==
    \/ SkipSettle(p) \/ BeginSettle(p) \/ SettleBack(p) \/ SettleRefused(p)
    \/ SettleForward(p) \/ SettleUnmark(p) \/ SettleNothing(p)
    \/ Look(p) \/ ReadFile(p) \/ ReadStore(p) \/ ReadRefused(p)
    \/ Acquire(p) \/ Close(p)

Appending(p) ==
    \/ \E r \in Records : AppendKnown(p, r) \/ BeginAppend(p, r)
                          \/ AppendStored(p, r) \/ AppendRefused(p, r)
    \/ Write(p) \/ Written(p)

Moving(p) ==
    \/ CatchUp(p) \/ HoldStore(p) \/ MoveRefused(p) \/ MakePrimary(p)
    \/ CopyRefused(p) \/ Verify(p) \/ Disagrees(p) \/ Mark(p) \/ SetAside(p)
    \/ NothingAside(p)

MovingBack(p) ==
    \/ TakeBack(p) \/ NotStored(p) \/ CreateLog(p) \/ LogExists(p)
    \/ Fill(p) \/ Switch(p) \/ Unmark(p) \/ NoMarker(p)

(* A command that has been started runs until it exits. *)
Run(p) == Opening(p) \/ Appending(p) \/ Moving(p) \/ MovingBack(p) \/ Finish(p)

Next == \/ \E p \in Commands : Start(p) \/ Run(p) \/ Kill(p)
        \/ \E h \in Readers : OpenStore(h) \/ OpenLog(h) \/ CloseReader(h)
        \/ BreakLock

Spec == Init /\ [][Next]_vars

FairSpec == Spec /\ \A p \in Commands : WF_vars(Run(p))

-----------------------------------------------------------------------------
TypeOK ==
    /\ file \in {None} \cup Seq(Records \cup {Torn})
    /\ marked \in BOOLEAN
    /\ row \in {None} \cup Rows
    /\ store \in {None} \cup Commands \cup Readers
    /\ lock \in {None, "dead"} \cup Commands
    /\ pc \in [Commands -> Places]
    /\ known \in [Commands -> {None} \cup Libraries]
    /\ todo \in [Commands -> {None} \cup Records]
    /\ before \in [Commands -> {None} \cup Seq(Records)]
    /\ answer \in [Readers -> {None} \cup Seq(Records)]
    /\ acked \subseteq Records

(* The marker says where the records are, once settled: a shard in the     *)
(* store is marked or has its log still, and a marked shard is in the      *)
(* store or has its log again.  Whatever is interrupted, and whoever else  *)
(* opens the library meanwhile (library.rs `settle_migrations`, shards.rs  *)
(* `primary_marker`).                                                      *)
RecordsSomewhere == /\ (Primary /\ ~marked) => file # None
                    /\ (marked /\ ~Primary) => file # None

(* What the next open may take away is kept elsewhere: a log beside a      *)
(* marked primary shard holds nothing the store does not, and one beside   *)
(* an unmarked primary shard holds all the store does ("whichever loses    *)
(* nothing", tests/shards.rs:482).                                         *)
SettleLosesNothing ==
    (Primary /\ file # None) =>
        IF marked THEN Range(Whole) \subseteq Range(row.recs) ELSE FileMatches

(* The records a settled open of the library reads. *)
Settled == IF Primary /\ (marked \/ file = None) THEN row.recs ELSE Whole

(* What is in a primary shard is not lost: each step leaves it in the      *)
(* store or, going back, in the log, whatever the other commands believe   *)
(* of the shard (primary.rs `make_index`, `abandon_primary`).              *)
StoredKept ==
    [][(Primary /\ marked) => Range(row.recs) \subseteq Range(Settled')]_vars

(* With one command at a time, whatever it is killed in the middle of: the *)
(* shard is one log that only grows, a change of mode is no change of it,  *)
(* and every library opened holds what was answered for (library.rs        *)
(* `open`, `append_records`, `migrate_primary_all`, `migrate_index`).      *)
Promise == INSTANCE AckedLog WITH
    log    <- Settled,
    Actors <- Commands,
    seen   <- [p \in Commands |-> IF known[p] = None THEN None
                                  ELSE known[p].recs],
    Lossy  <- FALSE,
    Unseen <- None

ImplementsAckedLog == Promise!Spec

(* A command that has the library lock lets it go: every wait for the      *)
(* store it holds the lock through is bounded, whoever has the store and   *)
(* for however long (shards.rs `open_store`, primary.rs `open`).           *)
LockReturned == \A p \in Commands : lock = p ~> lock # p
=============================================================================
