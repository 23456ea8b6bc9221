----------------------------- MODULE UnitStore ------------------------------
(***************************************************************************)
(* The unit store of one log, and everything that opens it                 *)
(* (crates/smysl-graph/src/store/redb: shard.rs, build.rs, shared.rs,      *)
(* mod.rs; lock.rs; store/any.rs).                                         *)
(*                                                                         *)
(* A log of records is the authority.  Beside it a database holds tables   *)
(* folded from a prefix of the log, and a row saying which prefix.  A      *)
(* writer (RedbShard) takes the shard's lock file, brings the database up  *)
(* to the log, and appends: to the log, durably, and then to the database. *)
(* A reader (RedbStore, AnyStore::open_redb) takes no lock file; it brings *)
(* the database up to the log too, and then answers from one read          *)
(* transaction.  The database is open in one process at a time; inside     *)
(* that process a mutex covers reading what the store describes up to      *)
(* committing what it now describes.                                       *)
(*                                                                         *)
(* Each step is what happens between two points at which another thread    *)
(* can observe the files or the process can die: one write, one sync, one  *)
(* commit, one lock taken.                                                 *)
(***************************************************************************)
EXTENDS RecordFold, LogCells

CONSTANTS Writers,   \* threads that write: open_rw, append, reader, close
          Readers,   \* threads that read: open_redb, close
          Procs,     \* processes
          ProcOf,    \* the process a thread is in
          Batches,   \* the lists of records a caller appends
          Faults,    \* what may go wrong, see below
          None

(* kill:  a process dies, its lock file left behind, its buffers kept by   *)
(*        the system;                                                      *)
(* power: the machine stops, and bytes of the log not synced are lost;     *)
(* io:    writing or syncing the log fails and append returns the error;   *)
(* open:  a transaction of catch_up fails and so does the open;            *)
(* db:    a transaction of an append fails and append returns the error;   *)
(* force: somebody opens with force_rebuild.                               *)
FaultKinds == {"kill", "power", "io", "open", "db", "force"}

Actors == Writers \cup Readers

ASSUME Participants ==
    /\ Writers \cap Readers = {}
    /\ ProcOf \in [Actors -> Procs]
    /\ Batches \subseteq Seq(Records)
    /\ Faults \subseteq FaultKinds
    /\ None \notin Seq(Records) \cup {"dead"}
    /\ Actors \cap {None, "dead"} = {}
    /\ Torn \notin Records

VARIABLES
    file,       \* the log, cell by cell
    synced,     \* how many of its cells a power failure cannot take
    row,        \* LOGS: the prefix the database describes, None if cleared
    tables,     \* the tables folded from it
    lock,       \* the lock file: who made it, "dead" if they died, or None
    mutex,      \* the thread inside the fold lock, or None
    pc,         \* where each thread is
    described,  \* Described and the running hash a thread holds
    batch,      \* the records being appended
    todo,       \* of which these are new to the store
    at,         \* how far through batch, then todo, the append has got
    view,       \* what an opener was told is described, and the prefix its
                \* snapshot was folded from
    acked       \* the records an append has answered Ok for

disk  == <<file, synced>>
db    == <<row, tables>>
job   == <<batch, todo, at>>
mem   == <<described, job>>
vars  == <<file, synced, row, tables, lock, mutex, pc, described, batch,
           todo, at, view, acked>>

One == "one-log"     \* the name a store of one log gives it
Log == {One}

NoView == [described |-> None, of |-> None]

-----------------------------------------------------------------------------
(* The cells of f after the first n, up to m, that a LogReader gets.      *)
TailOfAnyCells(f, n, m) == SubSeq(f, n + 1, m)
TailOf(f, n, m) == SubSeq(f, n + 1, End(SubSeq(f, 1, m)))

-----------------------------------------------------------------------------
(* A thread holds the database open from shared::open until it drops its  *)
(* shard, and as long as it keeps a snapshot.                              *)
HasDb(a)         == \/ pc[a] \notin {"idle", "locked", "memory"}
                    \/ pc[a] # "memory" /\ view[a] # NoView
HeldElsewhere(a) == \E b \in Actors : ProcOf[b] # ProcOf[a] /\ HasDb(b)

Goto(a, where) == pc' = [pc EXCEPT ![a] = where]

(* The thread drops what it had open: a writer's lock file goes with it.  *)
Leave(a) == /\ Goto(a, "idle")
            /\ described' = [described EXCEPT ![a] = <<>>]
            /\ lock' = IF a \in Writers THEN None ELSE lock

(* An append returns, and lets go of the fold lock. *)
ReturnLocked(w) == /\ Goto(w, "ready")
                   /\ batch' = [batch EXCEPT ![w] = <<>>]
                   /\ todo' = [todo EXCEPT ![w] = <<>>]
                   /\ at' = [at EXCEPT ![w] = 0]
                   /\ UNCHANGED mutex

Return(w) == /\ Goto(w, "ready")
             /\ mutex' = None
             /\ batch' = [batch EXCEPT ![w] = <<>>]
             /\ todo' = [todo EXCEPT ![w] = <<>>]
             /\ at' = [at EXCEPT ![w] = 0]

Ok(w)     == Return(w) /\ acked' = acked \cup Range(batch[w])
RefuseWithOk(w) == Ok(w)
Refuse(w) == Return(w) /\ UNCHANGED acked

Init ==
    /\ file = <<>> /\ synced = 0
    /\ row = None /\ tables = EmptyTables(Log)
    /\ lock = None /\ mutex = None
    /\ pc = [a \in Actors |-> "idle"]
    /\ described = [a \in Actors |-> <<>>]
    /\ batch = [a \in Actors |-> <<>>]
    /\ todo = [a \in Actors |-> <<>>]
    /\ at = [a \in Actors |-> 0]
    /\ view = [a \in Actors |-> NoView]
    /\ acked = {}

-----------------------------------------------------------------------------
(* Opening for writing: the lock file first, then the database, waiting   *)
(* for a reader in another process until the deadline.                     *)
AcquireLock(w) ==
    /\ pc[w] = "idle" /\ lock = None
    /\ lock' = w
    /\ Goto(w, "locked")
    /\ UNCHANGED <<disk, db, mutex, mem, view, acked>>

OpenShared(w) ==
    /\ pc[w] = "locked" /\ ~HeldElsewhere(w)
    /\ Goto(w, "enter")
    /\ UNCHANGED <<disk, db, lock, mutex, mem, view, acked>>

(* The deadline passes: WouldBlock, and the lock is dropped on the way.   *)
WaitForGood(w) == FALSE /\ UNCHANGED vars

GiveUp(w) ==
    /\ pc[w] = "locked" /\ HeldElsewhere(w)
    /\ Leave(w)
    /\ UNCHANGED <<disk, db, mutex, job, view, acked>>

(* Opening for reading: the database, or the log if another process has   *)
(* it and keeps it for the whole wait.                                     *)
OpenReader(r) ==
    /\ pc[r] = "idle" /\ ~HeldElsewhere(r)
    /\ Goto(r, "enter")
    /\ UNCHANGED <<disk, db, lock, mutex, mem, view, acked>>

ReadLog(r) ==
    /\ pc[r] = "idle" /\ HeldElsewhere(r)
    /\ view' = [view EXCEPT ![r] =
          [described |-> Readable(file), of |-> Readable(file)]]
    /\ Goto(r, "memory")
    /\ UNCHANGED <<disk, db, lock, mutex, mem, acked>>

(* Both: the fold lock, then catch_up. *)
EnterCatchUp(a) ==
    /\ pc[a] = "enter" /\ mutex = None
    /\ mutex' = a
    /\ Goto(a, "check")
    /\ UNCHANGED <<disk, db, lock, mem, view, acked>>

(* A store that describes nothing, or some other log, or is to be rebuilt *)
(* as asked, is cleared in a transaction of its own.                       *)
KnowsLength == row # None /\ Len(row) <= Len(file)
KnowsLog    == row # None /\ Describes(row, file)

Clear == row' = None /\ tables' = EmptyTables(Log)

CheckPrefix(a) ==
    /\ pc[a] = "check" /\ mutex = a
    /\ \/ KnowsLog /\ UNCHANGED db
       \/ ~KnowsLog /\ Clear
       \/ "force" \in Faults /\ Clear
    /\ Goto(a, "fold")
    /\ UNCHANGED <<disk, lock, mutex, mem, view, acked>>

(* The tail of a log it describes, or all of one it does not; nothing if  *)
(* there is nothing after what is described.  A writer that met a torn     *)
(* tail goes on to cut it, outside the fold lock.                          *)
From == IF row = None THEN <<>> ELSE row

FoldTail(a) ==
    /\ pc[a] = "fold" /\ mutex = a
    /\ IF row # None /\ Len(file) <= Len(row)
       THEN UNCHANGED db /\ described' = [described EXCEPT ![a] = row]
       ELSE LET tail == TailOf(file, Len(From), Len(file)) IN
            /\ row' = From \o tail
            /\ tables' = FoldLog(tables, One, tail)
            /\ described' = [described EXCEPT ![a] = From \o tail]
    /\ mutex' = None
    /\ Goto(a, IF a \in Readers THEN "load"
               ELSE IF Len(described'[a]) < Len(file) THEN "cut" ELSE "ready")
    /\ UNCHANGED <<disk, lock, job, view, acked>>

(* A transaction of catch_up fails: the open returns the error.  A clear   *)
(* that committed before a fold that did not stays committed.              *)
FoldFails(a) ==
    /\ "open" \in Faults
    /\ pc[a] \in {"check", "fold"} /\ mutex = a
    /\ mutex' = None
    /\ Leave(a)
    /\ UNCHANGED <<disk, db, job, view, acked>>

CutToSynced(w) ==
    /\ pc[w] = "cut"
    /\ file' = SubSeq(file, 1, synced)
    /\ synced' = Len(file')
    /\ Goto(w, "ready")
    /\ UNCHANGED <<db, lock, mutex, mem, view, acked>>

CutTail(w) ==
    /\ pc[w] = "cut"
    /\ file' = SubSeq(file, 1, Len(described[w]))
    /\ synced' = Len(file')
    /\ Goto(w, "ready")
    /\ UNCHANGED <<db, lock, mutex, mem, view, acked>>

SnapshotOfLog(d) == [described |-> Readable(file), of |-> row]
Snapshot(d)      == [described |-> d, of |-> row]

(* The read transaction is begun after the fold lock is let go.  A store  *)
(* that was cleared meanwhile has no tables to open, and the open fails.   *)
Load(r) ==
    /\ pc[r] = "load"
    /\ IF row = None
       THEN Goto(r, "idle") /\ UNCHANGED view
       ELSE /\ view' = [view EXCEPT ![r] = Snapshot(described[r])]
            /\ Goto(r, "open")
    /\ described' = [described EXCEPT ![r] = <<>>]
    /\ UNCHANGED <<disk, db, lock, mutex, job, acked>>

-----------------------------------------------------------------------------
(* RedbShard::append: the fold lock for all of it. *)
BeginUnsettled(w) ==
    /\ pc[w] = "ready" /\ mutex = None
    /\ \E b \in Batches : batch' = [batch EXCEPT ![w] = b]
    /\ mutex' = w
    /\ Goto(w, "dedupe")
    /\ UNCHANGED <<disk, db, lock, described, todo, at, view, acked>>

BeginAppend(w) ==
    /\ pc[w] = "ready" /\ mutex = None
    /\ \E b \in Batches : batch' = [batch EXCEPT ![w] = b]
    /\ mutex' = w
    /\ Goto(w, "settle")
    /\ UNCHANGED <<disk, db, lock, described, todo, at, view, acked>>

(* settle: first what a reader in this process folded, then what is in    *)
(* the log and not in the store.  Bytes after that which are no record are *)
(* somebody else's, and the append is refused.                             *)
Adopted(w) == IF row # None /\ Len(row) > Len(described[w])
              THEN row ELSE described[w]

NobodyElses(now)   == FALSE
SomebodyElses(now) == Len(now) < Len(file)

Settle(w) ==
    /\ pc[w] = "settle" /\ mutex = w
    /\ IF Len(file) > Len(Adopted(w))
       THEN LET tail == TailOf(file, Len(Adopted(w)), Len(file))
                now  == Adopted(w) \o tail IN
            /\ row' = now
            /\ tables' = FoldLog(tables, One, tail)
            /\ described' = [described EXCEPT ![w] = now]
            /\ IF SomebodyElses(now)
               THEN Return(w)
               ELSE Goto(w, "dedupe") /\ UNCHANGED <<mutex, job>>
       ELSE /\ described' = [described EXCEPT ![w] = Adopted(w)]
            /\ Goto(w, "dedupe")
            /\ UNCHANGED <<db, mutex, job>>
    /\ UNCHANGED <<disk, lock, view, acked>>

(* The records of the batch not in RECORD_HASH, each once, a record at a  *)
(* time.  A store that was cleared and not folded again has no RECORD_HASH *)
(* to open, and the append fails.                                          *)
NewToStore(w, r) == Fresh(tables, One, r)
New(w, r)        == Fresh(tables, One, r) /\ r \notin Range(todo[w])

Dedupe(w) ==
    /\ pc[w] = "dedupe" /\ mutex = w
    /\ row # None /\ at[w] < Len(batch[w])
    /\ LET r == batch[w][at[w] + 1] IN
       IF New(w, r)
       THEN todo' = [todo EXCEPT ![w] = Append(@, r)]
       ELSE UNCHANGED todo
    /\ at' = [at EXCEPT ![w] = @ + 1]
    /\ UNCHANGED <<disk, db, lock, mutex, pc, described, batch, view, acked>>

NoHashes(w) ==
    /\ pc[w] = "dedupe" /\ mutex = w
    /\ row = None
    /\ Refuse(w)
    /\ UNCHANGED <<disk, db, lock, described, view>>

(* Nothing new is Ok with nothing written. *)
StoreFirst(w) ==
    /\ pc[w] = "dedupe" /\ mutex = w
    /\ row # None /\ at[w] = Len(batch[w])
    /\ todo[w] # <<>>
    /\ at' = [at EXCEPT ![w] = 0]
    /\ row' = row \o todo[w]
    /\ tables' = FoldLog(tables, One, todo[w])
    /\ Goto(w, "write")
    /\ UNCHANGED <<disk, lock, mutex, described, batch, todo, view, acked>>

Deduped(w) ==
    /\ pc[w] = "dedupe" /\ mutex = w
    /\ row # None /\ at[w] = Len(batch[w])
    /\ IF todo[w] = <<>>
       THEN Ok(w)
       ELSE /\ at' = [at EXCEPT ![w] = 0]
            /\ Goto(w, "write")
            /\ UNCHANGED <<mutex, batch, todo, acked>>
    /\ UNCHANGED <<disk, db, lock, described, view>>

(* write_all, as far as another reader of the file can tell: a record more *)
(* at a time.                                                              *)
WriteLog(w) ==
    /\ pc[w] = "write" /\ at[w] < Len(todo[w])
    /\ file' = Append(file, todo[w][at[w] + 1])
    /\ at' = [at EXCEPT ![w] = @ + 1]
    /\ UNCHANGED <<synced, db, lock, mutex, pc, described, batch, todo, view,
                   acked>>

SkipSync(w) ==
    /\ pc[w] = "write" /\ at[w] = Len(todo[w])
    /\ Goto(w, "commit")
    /\ UNCHANGED <<disk, db, lock, mutex, mem, view, acked>>

SyncLog(w) ==
    /\ pc[w] = "write" /\ at[w] = Len(todo[w])
    /\ synced' = Len(file)
    /\ Goto(w, "commit")
    /\ UNCHANGED <<file, db, lock, mutex, mem, view, acked>>

(* A part of a record may be what the failed write leaves behind.          *)
TornBy(w, f) == IF at[w] < Len(todo[w]) THEN {f, Append(f, Torn)} ELSE {f}

WriteFails(w) ==
    /\ "io" \in Faults
    /\ pc[w] = "write"
    /\ file' \in TornBy(w, file)
    /\ Refuse(w)
    /\ UNCHANGED <<synced, db, lock, described, view>>

(* The store is folded from what was described up to where the write ended,*)
(* and the append is answered.                                             *)
CommitUnread(w) ==
    /\ pc[w] = "commit"
    /\ row' = described[w] \o todo[w]
    /\ tables' = FoldLog(tables, One, todo[w])
    /\ described' = [described EXCEPT ![w] = row']
    /\ Ok(w)
    /\ UNCHANGED <<disk, lock, view>>

Commit(w) ==
    /\ pc[w] = "commit"
    /\ LET from == Len(described[w])
           tail == TailOf(file, from, from + Len(todo[w])) IN
       /\ row' = described[w] \o tail
       /\ tables' = FoldLog(tables, One, tail)
       /\ described' = [described EXCEPT ![w] = described[w] \o tail]
    /\ Ok(w)
    /\ UNCHANGED <<disk, lock, view>>

(* The log has the records, the store has not, and the caller has an error.*)
CommitFails(w) ==
    /\ "db" \in Faults
    /\ pc[w] \in {"settle", "commit"} /\ mutex = w
    /\ Refuse(w)
    /\ UNCHANGED <<disk, db, lock, described, view>>

(* RedbShard::reader: a snapshot for the writer itself. *)
TakeReader(w) ==
    /\ pc[w] = "ready" /\ row # None
    /\ view' = [view EXCEPT ![w] = Snapshot(described[w])]
    /\ UNCHANGED <<disk, db, lock, mutex, pc, mem, acked>>

(* The shard is dropped: the files first, the lock file last.              *)
CloseWriter(w) ==
    /\ pc[w] = "ready"
    /\ Leave(w)
    /\ UNCHANGED <<disk, db, mutex, job, view, acked>>

(* A snapshot is dropped; a reader is then done. *)
CloseView(a) ==
    /\ view[a] # NoView
    /\ view' = [view EXCEPT ![a] = NoView]
    /\ Goto(a, IF a \in Readers THEN "idle" ELSE pc[a])
    /\ UNCHANGED <<disk, db, lock, mutex, mem, acked>>

-----------------------------------------------------------------------------
(* What the system does to its processes. *)
Without(f, dead, x) == [a \in Actors |-> IF a \in dead THEN x ELSE f[a]]

Forget(dead) ==
    /\ pc' = Without(pc, dead, "idle")
    /\ view' = Without(view, dead, NoView)
    /\ described' = Without(described, dead, <<>>)
    /\ batch' = Without(batch, dead, <<>>)
    /\ todo' = Without(todo, dead, <<>>)
    /\ at' = Without(at, dead, 0)
    /\ mutex' = IF mutex \in dead THEN None ELSE mutex
    /\ lock' = IF lock \in dead THEN "dead" ELSE lock

Writing(dead) == {w \in Writers \cap dead : pc[w] = "write"}

Kill(p) ==
    /\ "kill" \in Faults
    /\ LET dead == {a \in Actors : ProcOf[a] = p} IN
       /\ \E a \in dead : pc[a] # "idle" \/ view[a] # NoView
       /\ file' \in UNION ({{file}} \cup {TornBy(w, file) : w \in Writing(dead)})
       /\ Forget(dead)
    /\ UNCHANGED <<synced, db, acked>>

(* Every process stops, and the log keeps what was synced and any part of *)
(* the rest.  What the database committed was durable when it committed.   *)
PowerLoss ==
    /\ "power" \in Faults
    /\ \E a \in Actors : pc[a] # "idle"
    /\ \E n \in synced..Len(file) :
          file' \in {SubSeq(file, 1, n)}
                    \cup (IF n < Len(file)
                          THEN {Append(SubSeq(file, 1, n), Torn)} ELSE {})
    /\ synced' = Len(file')
    /\ Forget(Actors)
    /\ UNCHANGED <<db, acked>>

(* --break-lock, by an operator who has read whose it is. *)
BreakLock ==
    /\ lock = "dead"
    /\ lock' = None
    /\ UNCHANGED <<disk, db, mutex, pc, mem, view, acked>>

-----------------------------------------------------------------------------
(* What a thread does once it has started something. *)
WriterStep(w) ==
    \/ OpenShared(w) \/ GiveUp(w) \/ EnterCatchUp(w) \/ CheckPrefix(w)
    \/ FoldTail(w) \/ CutTail(w) \/ Settle(w) \/ Dedupe(w)
    \/ NoHashes(w) \/ Deduped(w) \/ WriteLog(w) \/ SyncLog(w) \/ Commit(w)

ReaderStep(r) ==
    EnterCatchUp(r) \/ CheckPrefix(r) \/ FoldTail(r) \/ Load(r)

(* What a thread may choose to start. *)
WriterStart(w) == \/ AcquireLock(w) \/ BeginAppend(w) \/ TakeReader(w)
                  \/ CloseWriter(w) \/ CloseView(w)
ReaderStart(r) == OpenReader(r) \/ ReadLog(r) \/ CloseView(r)

Fault == \/ \E a \in Actors : FoldFails(a)
         \/ \E w \in Writers : WriteFails(w) \/ CommitFails(w)
         \/ \E p \in Procs : Kill(p)
         \/ PowerLoss

Next ==
    \/ \E w \in Writers : WriterStep(w) \/ WriterStart(w)
    \/ \E r \in Readers : ReaderStep(r) \/ ReaderStart(r)
    \/ Fault
    \/ BreakLock

Spec == Init /\ [][Next]_vars

(* A thread the system runs takes its next step; none has to begin.        *)
Fairness == /\ \A w \in Writers : WF_vars(WriterStep(w))
            /\ \A r \in Readers : WF_vars(ReaderStep(r))

FairSpec == Spec /\ Fairness

-----------------------------------------------------------------------------
(* Types. *)
Cells  == Records \cup {Torn}
Places == {"idle", "locked", "enter", "check", "fold", "cut", "ready",
           "settle", "dedupe", "write", "commit", "load", "open", "memory"}

TypeOK ==
    /\ file \in Seq(Cells)
    /\ synced \in 0..Len(file)
    /\ row \in Seq(Records) \cup {None}
    /\ lock \in Writers \cup {"dead", None}
    /\ mutex \in Actors \cup {None}
    /\ pc \in [Actors -> Places]
    /\ described \in [Actors -> Seq(Records)]
    /\ batch \in [Actors -> Seq(Records)]
    /\ todo \in [Actors -> Seq(Records)]
    /\ at \in [Actors -> Nat]
    /\ acked \subseteq Records
    /\ DOMAIN view = Actors

(* What the database says it describes is the start of the log: the log    *)
(* was written first, so the store is behind it and never ahead of it,     *)
(* whoever died and whoever folded the tail (build.rs `fold`).             *)
StoreBehindLog == row # None => Describes(row, file)

(* The tables say of the described prefix what the whole prefix says,      *)
(* whatever was folded by whom in which pieces, an attestation before its  *)
(* unit included (build.rs `fold` and `catch_up`).                         *)
TablesSayRow == row # None => SaysOf(tables, [l \in Log |-> row])

(* Every record an append has answered Ok for can be read from the log     *)
(* (shard.rs `append`, and `cut_tail`, which removes bytes from it).       *)
AckedKept == acked \subseteq Range(Readable(file))

(* Nothing is ever written after bytes that are no record, which would     *)
(* make it unreadable (shard.rs `open_rw` cuts, `settle` refuses).         *)
TornAtEnd == \A i \in 1..(Len(file) - 1) : file[i] # Torn

(* A record reaches the log once, however often it is appended and         *)
(* whichever attempts failed halfway (shard.rs `append`).                  *)
NoRecordTwice == \A i, j \in 1..Len(file) :
                     file[i] = file[j] => i = j

(* While a writer writes, the file is what the store describes and then    *)
(* what the writer wrote: so the end it computes from its own length is    *)
(* the end of the file, and what it folds is what it wrote (shard.rs       *)
(* `append`, described.log_len + bytes_written).                           *)
WritesWhereDescribed ==
    \A w \in Writers : pc[w] \in {"write", "commit"} =>
        /\ row = described[w]
        /\ file = described[w] \o SubSeq(todo[w], 1, at[w])

(* A snapshot answers for some prefix of the log, and for at least what    *)
(* its opener was told is described (mod.rs `open_shared`, `load`).        *)
SnapshotNotBehind ==
    \A a \in Actors : view[a] # NoView =>
        /\ Describes(view[a].described, view[a].of)
        /\ Describes(view[a].of, file)

(* Whatever a power failure left, a store behind its log or ahead of it,   *)
(* or of a log that no longer is: a thread that has caught up has a store  *)
(* that describes the log as it is (build.rs `catch_up`, hash_prefix).     *)
CaughtUpDescribes ==
    (\E a \in Actors : pc[a] \in {"cut", "ready", "dedupe", "write", "commit",
                                 "load", "open"})
        => StoreBehindLog

(* Short of a power failure, no step takes a complete record out of the    *)
(* readable log or puts one before another: what CutTail removes was never *)
(* read by anyone (shard.rs `cut_tail`).                                   *)
LogOnlyGrows ==
    [][PowerLoss \/ Describes(Readable(file), Readable(file'))]_vars

(* All of it at once, as one specification: every step of the unit store   *)
(* is a step of AckedLog, or none.                                         *)
Promise == INSTANCE AckedLog WITH
    log    <- Readable(file),
    seen   <- [a \in Actors |-> view[a].of],
    Lossy  <- "power" \in Faults,
    Unseen <- None

ImplementsAckedLog == Promise!Spec

(* The fold lock is always let go: no open and no append waits on it for   *)
(* good because of the one that has it (shared.rs `folding`).              *)
FoldLockReleased == \A a \in Actors : mutex = a ~> mutex # a

(* A writer that has the lock file gets the database or gives up, and does *)
(* not hold the lock file waiting (shard.rs `open_rw`).                    *)
OpenDecided == \A w \in Writers : pc[w] = "locked" ~> pc[w] # "locked"
=============================================================================
