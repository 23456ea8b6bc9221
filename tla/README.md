# smysl: specifications

Smysl keeps graphs of claims ("units") in append-only logs of records, beside
which it keeps a database of tables that makes the logs quick to ask. This
directory specifies, in TLA+, the parts of it whose correctness depends on the
order of things: who writes when, who died where, what a reader saw. Paths are
relative to `src/`; `graph/` stands for `crates/smysl-graph/src/`.

## The system

| component | state | operations | interacts by | hard part | what makes it correct |
|---|---|---|---|---|---|
| in-memory `Store` (`graph/store/mod.rs`) | records, their hashes, log length and running hash | `open_with`, `append` | the log file, with no lock | others append to the same file; torn tails | nothing acknowledged is lost; nothing is removed |
| unit store (`graph/store/redb/`) | redb tables, and a row per log saying which prefix they describe | `open_rw`, `append`, `settle`, `cut_tail`, `reader`, `open`, `open_shards` | lock file, database held by one process, fold mutex inside it | crashes between log, sync and commit; readers that fold | the tables say what the log says; the store is behind its log |
| shard lock (`graph/lock.rs`) | a file naming its holder | `acquire`, release on drop, `break_lock` | the file system | a holder that died, a lock broken too early | one writer at a time |
| primary shards (`graph/store/redb/primary.rs`, `smysl-text/src/library.rs`) | records in the database, a marker file, a log set aside | `make_primary`, `make_index`, `abandon_primary`, `settle_migrations` | database, marker, log file | crash between the three | every record is in exactly the place readers look |
| several shards (`graph/store/shards.rs`, `union.rs`, `redb` kind Many) | a log per shard, one database | `open_shards` over a subset | one fold transaction per log | a store half rebuilt; a log that disappears | as the union of the logs |
| interpretive layer and merge (`graph/store/interp.rs`, `graph/store/mod.rs`, `graph/merge/mod.rs`) | units, attestations and those that wait, relations, threads, views, contentions, withdrawals | `append`, `absorb_hashed`, `rebuild_adjacency`, `merge`, `join` | records handed on by peers, in any order; shards read together | two peers absorb in different orders; an attestation that comes before what it is about | the result does not depend on the order |
| retraction and review (`graph/merge/retraction.rs`, `review.rs`) | none: statuses are computed from relations | `retract`, `effective_status` | relations of the graph | what loses its support by it; records that come back | a retraction stands whatever is dropped |
| compaction and relinking (`graph/compact.rs`, `relink.rs`) | none: a store in, a store out | `compact`, `relink` | units and relations | a unit is its content: repointing one makes another, which has dependents; what is dropped is referred to | statuses do not change; nothing points at what is not there |
| text library (`crates/smysl-text/src/library.rs`, `objects.rs`) | catalog and shard logs, objects, redactions | `add`, `append`, `redact`, `enforce_z` | the object store and the catalog | crash between record and object; a redacted part offered again; the catalog read before the lock is taken | no redacted part has bytes; what a manifest names is there |
| import (`crates/smysl-lib/src/import/`) | a manifest in the log, staged, waiting and quarantine files, two tables | `import`, `accept`, `discard`, `promote` | the library, under its lock | several files and tables written one by one; imports that wait for one another | nothing imported is lost; the order of imports does not matter |
| ingest journal (`crates/smysl-ingest/src/text/`) | a file of finished windows | `open`, `record`, `forget` | the library's logs, the provider | a run killed and resumed; writes that fail while it goes on | a window is never recorded and not staged; a resumed run repeats only what was in flight |
| providers (`crates/smysl-provider/src/`) | a worker thread, a registry, usage counts | calls, retries, streams | channels | retry of what was done; a job that waits on the worker | every call ends; usage counts each call |
| time engine (`crates/smysl-text/src/time/`) | a temporal network | propagate | pure | inconsistent constraints | the network's minimal form |
| export, verify (`crates/smysl-lib/src/`) | archives | export, verify | files | references into shards not there | a round trip |
| checks, packing, threads, rendering, query, retrieval, measures | none of their own | functions of a store | calls | - | as their definitions |
| codec and types (`crates/smysl-core/src/`) | none | encode, decode, parse | calls | - | a round trip |
| command line, terminal interface, other languages | none | - | all of the above | - | - |

## Modules

| module | models |
|---|---|
| `RecordFold` | `build.rs` `fold`: what a sequence of records does to the tables, and a reference of what the tables should say |
| `RecordFoldProofs` | a theorem about `RecordFold`, and lemmas `UnitStoreProofs` cites |
| `UnitStore` | the unit store of one log: threads, processes, lock file, database, fold mutex, crashes |
| `AckedLog` | what a log with its unit store promises, with none of that in it |
| `UnitStoreProofs` | theorems about `UnitStore` and their proofs |
| `LogCells` | a log file as a reader sees it: complete records, torn bytes, prefixes |
| `MixedWriters` | `UnitStore` and Stores that append to its log without the lock |
| `ShardMigration` | one shard of a library moved into the unit store and back, by several commands |
| `ShardMigrationProofs` | theorems about `ShardMigration` and their proofs |
| `TextLibrary` | a library's catalog and object store, written and redacted by several commands |
| `TextLibraryProofs` | theorems about `TextLibrary` and their proofs |
| `Classify` | which records of an import are accepted, wait, or are quarantined: `classify.rs` as operators |
| `LibraryImport` | `TextLibrary` and the import commands over it |
| `LibraryImportProofs` | theorems about `LibraryImport` and their proofs |
| `Merge` | peers that write records and hand them on, what each store makes of them, and stores read together |
| `MergeProofs` | theorems about `Merge` and their proofs |
| `Revision` | a store in which claims are replaced, retracted, relinked and compacted |
| `RevisionProofs` | theorems about `Revision` and their proofs |
| `IngestJournal` | runs that take a text into a library window by window, and the journal they go on from |
| `IngestJournalProofs` | theorems about `IngestJournal` and their proofs |
| `MC_UnitStore`, `MC_MixedWriters`, `MC_ShardMigration`, `MC_TextLibrary`, `MC_LibraryImport`, `MC_Merge`, `MC_Revision`, `MC_IngestJournal` | the instances TLC checks |

`RecordFold` and `LogCells` are extended by `UnitStore`, which `MixedWriters`
and `UnitStoreProofs` extend; `ShardMigration` extends `LogCells` alone, and
takes of the unit store what its callers can tell: it is open in one process
at a time, and an open has the row say what the log says. `LibraryImport`
extends `TextLibrary`, whose commands run beside its own, and `Classify`;
`TextLibraryProofs` extends `TextLibrary`, and its lemmas speak of the library's
variables alone, so that `LibraryImportProofs` cites them too. In a library the logs are taken as
what they hold, each record appended in one step: what happens to a log within
an append is `UnitStore`'s and `ShardMigration`'s. `UnitStore` and
`ShardMigration` each instantiate `AckedLog`, with a refinement mapping, and
are checked to implement it.

### RecordFold

A record is one of a unit, an attestation of a unit, and anything else. It
stands for its bytes, so two records with one hash are one record. `tables` is
a record of the tables of `store/redb/tables.rs` that depend on what was folded
before: `RECORD_HASH`, `HOLDS`, `HEADER`, `ATTEST`, `INTERP`. `FoldUnit`,
`FoldAtt` and `FoldHot` are the arms of the match in `fold`, `Fresh` and
`First` its two questions of `RECORD_HASH`, and `Waiting` the attestations a
unit finds when it comes. `SaysOf` says the same of tables and logs directly,
with no order in it but that of the hot records, which `INTERP` keeps:
`HotsOf` says that they are those of the log, each at a place of its own, in the
order of the places.

### UnitStore

| variable | code |
|---|---|
| `file`, `synced` | the log file; how much of it `sync_data` has covered |
| `row`, `tables` | the `LOGS` row of the one log; the tables |
| `lock` | the lock file and its holder; `"dead"` when its process has died |
| `mutex` | `Shared::folding` |
| `pc` | where a thread is in `open_rw`, `append` or `open_shared` |
| `described` | `RedbShard::described` with its hasher, or the local of `open_shared` |
| `batch`, `todo`, `at` | the records appended, those to be written, the place in either |
| `view` | a `RedbStore`: the `Described` it was given and what its read transaction sees |
| `acked` | a history variable: every record an `append` has returned `Ok` for |

A step is what happens between two points at which another thread, or a crash,
can tell the difference: a lock taken, a record written, a sync, a commit.

| action | code |
|---|---|
| `AcquireLock`, `OpenShared`, `GiveUp` | `open_rw`: `Lock::acquire`, the loop around `shared::open`, its deadline |
| `OpenReader`, `ReadLog` | `AnyStore::open_redb`: the database, or the log with `SMY-W504` |
| `EnterCatchUp`, `CheckPrefix`, `FoldTail`, `FoldFails` | `catch_up` inside the fold lock: decide, clear, fold; a transaction fails |
| `CutTail` | `cut_tail` |
| `Load` | `RedbStore::load`, after the fold lock |
| `BeginAppend`, `Settle`, `Dedupe`, `NoHashes`, `Deduped`, `WriteLog`, `SyncLog`, `Commit` | `append`, in its order, with its early returns |
| `WriteFails`, `CommitFails` | its `?`s |
| `TakeReader`, `CloseWriter`, `CloseView` | `reader`, and the drops |
| `Kill`, `PowerLoss`, `BreakLock` | the environment and the operator |

A log is a sequence of cells: complete records, and `Torn`, what a record not
written whole leaves. All records have length one, so a length in bytes and a
number of records are one number, and the hash of a prefix is the prefix. A
database transaction is one step, durable when it commits (the code sets
`Durability::Immediate`). A power failure takes any part of the log that was not
synced, perhaps tearing the next record. A thread that is killed takes its
process with it: the mutex and the database are free, the lock file stays until
an operator breaks it.

Two steps stand for more than one point: the deadline of `open_rw` may pass at
any time another process has the database, since nothing bounds how long a
thread is not scheduled; and the truncation and sync of `cut_tail` are one.

### MixedWriters

`Plain` threads have a `Store` each. `store[s]` is what it holds in memory, and
`half[s]` the record it is in the middle of writing: the file then ends in
`Torn`, and `PlainRest` completes it. One write of a file runs at a time.

### ShardMigration

A *command* opens the library, takes its lock, appends a record or moves the
shard, and exits. A *reader* opens the shard through the unit store and never
settles anything.

| variable | code |
|---|---|
| `file` | `<stem>.cbor`, or `None` |
| `marked` | whether `<stem>.primary` is there |
| `row` | the shard's `LogState` and, in primary mode, its `RECORDS`; `chained` when the hash is that of appends rather than of a file |
| `store` | the process that has the database open |
| `lock` | the library lock, `"dead"` when its holder was killed |
| `pc` | where a command is |
| `known` | the shard as `Library::open` read it: its mode, whether it had a torn tail, its records |
| `todo`, `before` | the record being appended; the records `migrate_primary_all` read for its digest |
| `answer` | what a reader was given |
| `acked` | a history variable: records an append has answered `Ok` for |

| action | code |
|---|---|
| `Start`, `SkipSettle`, `BeginSettle`, `SettleBack`, `SettleRefused`, `SettleForward`, `SettleUnmark`, `SettleNothing` | `settle_migrations`, with `abandon_primary` |
| `Look`, `ReadFile`, `ReadStore`, `ReadRefused` | `ShardLog::read` |
| `Acquire`, `Close`, `Finish` | `with_library`: the lock, after the open; the exit |
| `AppendKnown`, `BeginAppend`, `Write`, `Written` | `append_records`, `ShardLog::append` to a log |
| `AppendStored`, `AppendRefused` | the same to a primary shard, `RedbShards::append` |
| `CatchUp`, `HoldStore`, `MoveRefused`, `MakePrimary`, `CopyRefused`, `Verify`, `Disagrees`, `Mark`, `SetAside`, `NothingAside` | `migrate_primary_all`, `make_primary` |
| `TakeBack`, `NotStored`, `CreateLog`, `LogExists`, `Fill`, `Switch`, `Unmark`, `NoMarker` | `migrate_index`, `make_index` |
| `Kill`, `BreakLock` | the environment and the operator |
| `OpenStore`, `OpenLog`, `CloseReader` | `AnyStore::open_redb_shards`, and letting go |

A step is again what another process can tell from the next: opening the
database, a commit of it, a file created, written or renamed, a marker. The
open and its reading of the shard are several steps taken with no lock, as they
are in the code; what the command found is in `known` from then on and is not
read again. The set-aside log is not read by anything and is left out, so
`SetAside` and `SettleForward` take the file away. Power failures are left
out: every write of a move is synced before the next.

### TextLibrary

A *command* is a process: it opens the library, which reads the catalog and
enforces rule Z, then takes the library lock, does one thing and exits. A
command that only reads (`look`) opens too, and so unlinks too.

| variable | code |
|---|---|
| `catalog` | the records of the logs: versions (manifests of expressions with what they supersede), redactions, anything else |
| `objects`, `temp` | the object store and `objects/tmp` |
| `lock` | the library lock, `"dead"` when its holder was killed |
| `pc`, `op` | where a command is, and what it came to do |
| `snap` | the catalog as the command read it, with what it has appended since |
| `todo` | the objects it has still to write, or to unlink |
| `alone` | a history variable: no other command has run beside it |

| action | code |
|---|---|
| `Open`, `Unlink`, `Enforced` | `Library::open`, `enforce_z` |
| `Looked`, `Acquire`, `AcquireRefused`, `Finish` | `with_library`, `acquire_all` |
| `BeginAdd`, `AppendRefused`, `PutHeld`, `PutTemp`, `PutRename`, `Unchanged`, `AddManifest` | `add_with`, `append`, `ObjectStore::write`, `append_records` |
| `Redact`, `RedactDone` | `redact` |
| `Kill`, `BreakLock` | the environment and the operator |

A part stands for its text and a document for the readings its manifest names.
There is one expression; a version of it is the sequence of the documents it
was made from, so that a version supersedes the one without its last document.
An append names the expression, and then follows its one head, or a version,
which may be one of several heads or have been followed before (`Target`). What
an import brought is not appended to. The catalog's records are absorbed in no particular order, so it is a record of
sets.

### Classify and LibraryImport

A record names ids and provides ids (`Names`, `Provides`); a unit or a part is
its own id. What the checks find is given, as a set of pairs `Findings`: an
error on one record whenever another is in the store beside it. `classify` takes
findings on any record (`classify.rs:279`), and so does `Blamed`; every pass of
`smysl-check` blames units (only a test calls `Diagnostic::on_record`), which is
the second part of `OwnFindings`. `Waits` is the
loop that lets a record wait until nothing changes, `Gone` one round of the
quarantine, `ClassifyAll` both to their end. They are recursive functions over
the number of records, which bounds the rounds.

| variable | code |
|---|---|
| `staged`, `waiting`, `quarantine` | the three files of each import |
| `batches`, `rows` | the batch table and the waiting table |
| `work` | what a command has worked out: the classes, its copy of the tables, the round of `promote` it is in |
| `gaveUp`, `troubles` | history variables: imports whose discarding has begun; kills, and commands started beside another |

| action | code |
|---|---|
| `ImportRefused`, `BeginImport`, `ImportLog`, `WriteStaged`, `WriteWaiting`, `WriteQuarantine` | `import` |
| `NotStaged`, `BeginAccept`, `AcceptLog`, `Unstage` | `accept` |
| `BeginDiscard`, `Unstage`, `Unwait` | `discard` |
| `Promote`, `SetApart`, `Shorten`, `Promoted` | `promote`, a round in three writes |
| `SaveBatches`, `SaveRows` | `tables.rs`, each table written whole |

One file makes an import, and its manifest is the import's name. Left out: the
`imported` table and the counts, which nothing decides by, files read together,
originals kept, joins (one more staged import), and the refusal of an import
that brings contentions.

### Merge

| variable | code |
|---|---|
| `held` | the records a `Store` holds, by their hashes |
| `layer` | what it has made of them: units, attestations by what they are about, those that wait (`pending`), and the layer of `interp.rs` |
| `appending`, `inbox` | the store in the middle of an append, and the records it has still to absorb |

| action | code |
|---|---|
| `Write`, `Receive` | a peer's own records; `merge`, or a bundle of some of another's records |
| `Append` | `Store::append`: what is held already is left out, and hashed before it is absorbed |
| `Absorb` | one turn of the loop of `absorb_hashed`: `attach`, `absorb_hot` |
| `Rebuild` | its end: `rebuild_adjacency`, which finds the subjects of what waits |

`Join` and `UnionOf` are `Interpretive::join` and the constructor of `Union`.
`Tells` says what a layer must say of a set of records, with no order in it. An
edge is the kind and the ends of a relation, which is what a relation's id is a
hash of, so relations of one edge can differ in weight or note. Absorbing is a
step per record so that any order within a batch occurs; nobody reads a store in
the middle of an append, and the properties speak of stores that are not.

### Revision

| variable | code |
|---|---|
| `units` | the units a store holds, each with what it rests on |
| `supersedes`, `retracts`, `remarks` | its relations, by kind; `remarks` are all other kinds |

| action | code |
|---|---|
| `DeliverUnit`, `DeliverReplacement`, `DeliverRemark` | a record comes from elsewhere, the first time or after it was dropped |
| `Retract` | `cmd_retract`: a relation from the unit to itself |
| `Relink` | `cmd_relink`: `supersession_heads`, then every unit that rests on a replaced one emitted again, and what rests on that one |
| `Compact` | `cmd_compact`: what has been superseded and nothing needs is dropped, and the relations that name it |

A unit is its name and its grounds, since its id is a hash of its content:
`[u EXCEPT !.grounds = ...]` is another unit, as it is in the code. A ground may
be a unit the store does not hold, or has dropped, and an edge may end in one:
records come in any order. `Unfounded` is `effective_status` run to its end, and
`Relinked` is the single sweep of `resettle`, in which grounds come before what
rests on them. Left out are `deps`, attestations, threads and views, which
compaction keeps or drops by the same rule, who may retract, and the retraction
policies other than `strict`, the default. Nothing is asked of the ends of a
replacement that arrives: units may replace each other, and one itself, as
`Relation::new` lets them.

### IngestJournal

| variable | code |
|---|---|
| `logs` | the logs of the library's shards: what is read of each (`held`), whether it ends in torn bytes, what has been written behind those, and what is synced |
| `journal` | `journal.cbor`, as such a file; its entries are a window and the hash of its batch |
| `run` | the loop of `ingest_text`: the windows left, those the journal says are done, the `Library` as it was opened and has grown, the shards it found torn, and the batch it is writing |
| `buried`, `calls`, `troubles`, `starts` | history |

| action | code |
|---|---|
| `Start` | `Library::open`, `Journal::open`, and `forget` under `--reextract` |
| `Extract` | one window the journal does not have: the calls and `prepare_under`; the calls end in a batch whatever the provider says, since a failed one degrades to a unit of the text itself |
| `WriteShard`, `FailWrite` | one turn of the loop in `append_records`: `ShardLog::append` |
| `Record`, `FailRecord` | `Journal::record` |
| `Link`, `Linked` | step 9, the reply edges, and the end of the run |
| `Kill`, `PowerFailure` | of the process, within a write or not; of the machine, after it |

The order within a file is left out, except that what is behind torn bytes is
not read; a write that ends early leaves any part of its records. That allows
more than a file does, and no property needs less. Every unit and edge is
staged with an attestation of the run, so that each shard of a batch is written
to, and synced, even if it has the units already; without that, a batch that a
killed run had written and not synced would be journalled by the next and could
still be lost. Left out are windowing, prompts and digests, costs, shards in the
unit store, and two runs at once.

## Runs

The instances of `UnitStore` and `MixedWriters` have one unit, one attestation of it and one record of another
kind, and two batches: the attestation then the unit, and the unit with the
other record twice. Every case of `fold` occurs, every batch has a
record another batch or the log may already hold, and an append of two records
can be torn between them and within either. Two writers in two processes with a
reader in the process of one of them are the smallest system in which the lock
file, the waiting for the database and the mutex are each contended.

| run | question | answer |
|---|---|---|
| `UnitStore_kill` | processes killed anywhere; writes, syncs and transactions failing | the store is behind its log, says what it says, nothing is repeated or buried; `AckedLog` is implemented; the fold lock is let go and a waiting writer decides |
| `UnitStore_power` | power failures of machines whose processes did not die before, opens with `force_rebuild` and opens that fail | an answered record is kept, and a writer goes on from what was rebuilt |
| `UnitStore_recovery` | kills, power failures and errors together | whoever has caught up has a store of the log as it is |
| `Mixed_behind` | a Store appends beside a locked writer | the database still describes a prefix of the log |
| `Migration_crash` | one command at a time, killed anywhere in an append, a move or a settling, beside two readers | settling loses nothing; a settled open reads what `AckedLog` promises; the lock is let go however long a reader keeps the store |
| `Migration_two` | two commands that read the shard before either has the lock, and a reader | the records are always in the store under the marker or there is a log, and what was in the store stays |
| `Migration_stale` | with two commands, does settling lose nothing | not when one read the shard before the other moved it |
| `Library_text` | two commands that add, append to the head or to a version they name, redact or look, killed anywhere | a library opened with nobody beside it holds nothing redacted; what its manifests name is there; nothing leaves before the catalog says why |
| `Library_import` | imports that depend on one another, in any order, staged or not, accepted or discarded, with redactions in them and beside them | each record is somewhere; the order does not matter; what waits waits for something missing |
| `Merge_gossip` | two peers write and hand on records, some at a time, in any order | those that hold the same agree on all but the weight of an edge, views and contentions; read together as shards they say what one store would |
| `Revision_peer` | retractions, relinking and compaction between records that arrive, and come back, in any order | a retraction stands; compaction changes no status and leaves a replacement of what it drops, and relinking settles, but for the cases below |
| `Journal_resume` | runs killed in any write, writes and syncs that fail, power failures between runs | what the journal has is in the logs, but for what was written behind torn bytes; only what was in flight is repeated while no entry is torn; the reply edges are complete after any run without errors |

An answer that contradicts a sentence of the code or of its documentation is a
finding, quoted in `PROJECT.json`. Smaller ones can be read off the
models and have no run of their own:

- `StoreBehindLog` needs that there are no power failures *after a kill*: a
  record written and not synced can be folded, durably, by the next open
  (`build.rs:377`: "never ahead of it"). `CaughtUpDescribes` is what then saves
  the answers.
- `Load` is a step after the fold lock is let go, so a snapshot's units may be
  of a later moment than its `log_len` (`mod.rs:16`, "from one moment");
  `SnapshotNotBehind` is what does hold.
- In `MixedWriters`, `FoldTail` may read a record half written, `PlainRest`
  finish it, and `CutTail` remove it, answered (`store/mod.rs:8`, "Nothing is
  ever removed").
- In `ShardMigration`, a move killed before its marker leaves the shard in the
  store beside its log. Appends go to the log until a command settles it, and a
  reader through the store (`OpenStore`) is not given them: it reads the row,
  which is primary.
- `Look` and `ReadFile` are two steps: a log set aside between them is missing,
  and a missing log reads as an empty shard (`shards.rs:235`).
- After such a killed move a command that knew the shard as primary may append
  to the store. The row's hash is then a chain, no log matches it, and each
  later open is refused (`SettleRefused`).
- Not in the model: `migrate_index` killed in `Fill` leaves part of a log
  beside a marked shard, and the next open renames it over the log that the
  first move had set aside.

- A forced rebuild commits its clear by itself (`build.rs:279`). When a fold
  after it fails, a writer beside it still knows its own prefix, settles only
  what lies behind it (`shard.rs:266`), and the tables then lack what the row
  says they have, until the next rebuild. `UnitStore_power` has forced rebuilds
  and no failing folds for that reason, `UnitStore_recovery` the reverse.
- A `Store` that opens a log with a torn tail appends behind it
  (`store/mod.rs:310`, `:455`), and what it answered for is read by no later
  open: `MixedWriters` has each step of it.
- `accept` puts the texts of a staged import without asking again what has been
  redacted since it was staged (`access.rs:175`). The next open unlinks the
  parts; of the readings only those that a manifest names.
- An `import` killed after its manifest is in the log and before its files are
  written (`import/mod.rs:544`) is `already_imported` when repeated, and its
  records are nowhere. `Retained` speaks of imports in the batch table.
- The waiting table is keyed by record (`import/mod.rs:777`): when two imports
  wait for the same record, discarding one drops the row of the other, whose
  record then stays in its waiting file.
- A direct record of a unit that was quarantined, imported later, waits for
  good; imported together with it, it is quarantined. `OrderFree` therefore
  speaks of quarantined units.
- A killed writer leaves its bytes in `objects/tmp`, and a reading no manifest
  names, which rule Z does not find. Two appends that both read the catalog
  before the lock fork the expression, and an `append` to a version with a
  redacted part is refused from then on (`library.rs:1092`).

- An append whose `sync_data` failed leaves whole records that are not synced.
  Repeated, its `settle` folds them, `Dedupe` finds all of the batch, and `Ok`
  is answered (`shard.rs:187`) with nothing written and nothing synced: a power
  failure can then take what `shard.rs:5` calls "the log, `fsync`ed". In
  `AckedLog` terms this is why `AckedKept` is checked without failing syncs.
- A reader that has waited for a store another process holds takes a primary
  shard's log, which is not there, for an empty one (`any.rs:177`), where
  `SMYSL-2.8_SCALE.md:654` says that every reader of the library reads a primary
  shard from the store: `OpenLog` in `ShardMigration`.
- A record that waits takes what it provides out of the ids held
  (`classify.rs:237`), the library's among them. Parts are named by their
  content, so a manifest that waits can take a part from another's: what names
  it, in the same import, waits too, and moves when the manifest does, where
  `classify.rs:8` says that a record waits "while something it names is not
  held, by the library or by an incoming record that is not itself waiting".
  `WaitsForMissing` therefore leaves out of what is held what a record that
  waits in the same file provides, and `OrderFree` is of files in which each id
  has one provider (`OneProvider`).
- `classify.rs:22` has each round quarantine "only the units whose findings rest
  on no other unit with one, which is what makes the outcome the same whatever
  order the records arrive in"; the code looks at what such a unit names, and
  no further. Let `u1` and `u3` have each a finding of its own, `u3` rest on `w`
  and `w` on `u1`. In one file both are quarantined; when `u1` comes first, `w`
  waits for it and `u3` for `w`, and nobody is shown the finding on `u3`.
  `OrderFree` asks of a unit with a finding that rests on another with one that
  it names one (the last part of `OwnFindings`).
- `promote` hands the ids of what an import has staged to `classify`, and not
  the records (`import/mod.rs:720`): a finding on a record that waited, beside
  one that is staged, is not seen when it is staged too, and `accept` appends
  without a check. Imported with `--accept` it would have been quarantined.
  `OrderFree` is of findings beside what came in another file.
- `text add` does not promote (`import/mod.rs:617` and `:866` are the only calls
  of `promote`): a record that waits for the part it brings is promoted by the
  next import or accept, where `import/mod.rs:8` says "when what they wait for
  arrives". Neither does `stage`, whose manifest is in the library at once: a
  record that names it waits on. `WaitsForMissing` leaves manifests of imports
  out of what is held, and `OrderFree` is of libraries without documents of
  their own.
- Of two relations of one edge the first absorbed stays, of two views of one
  name the last, of two contentions of one id the first: peers that hold the
  same records can differ in them for good, and so in what
  `store/mod.rs:1327` hashes, where `interp.rs:43` says "Order-independent by
  construction". `Converged` leaves those fields out.
- `Union` joins layers, so a view that a later shard repeats from before wins,
  where the records of both in one store (`shards.rs:3`) would have had it once.
- `relink` moves a unit in two stages, and `remap` keeps the first
  (`relink.rs:74`, "one pass suffices"): a unit that rests on a replaced unit
  and on another that moved becomes something in between and then something
  else, and what rests on it is pointed at the one in between, which is never
  written. With a2 for a, y on a, b on a and y, z on b: z names a unit nobody
  has, and no later relink repairs it. `RelinkSettles` excepts it, as
  `MovedOnce`; a repointing that yields a unit already held, or one that an edge
  already says is replaced, as `AllNew`, which needs a second relink
  (`relink.rs:508`, `relinking_twice_is_a_no_op`); and units that replace each
  other in a circle, as `ChainsEnd`: they have no newest (`relink.rs:208`, "leave
  it alone"), until one of them moves and so forks, which gives the others one
  that nothing was pointed at.
- `compact` does not ask what a superseded unit rests on (`compact.rs:111`),
  even if it keeps that unit for a relation's sake: a ground of it is then
  dropped (`compact.rs:284`, `the_compacted_store_has_no_dangling_references`),
  and a unit that read as unfounded because of it may read as founded again.
  `CompactionKeepsStatus` excepts it, as `KeptRestOnKept`.
- `compact` drops a unit whose successor is there, and does not ask whether the
  successor is dropped too (`compact.rs:93`). Of units that replace each other in
  a circle, a3 for a and a for a3, it drops every one, and so it does a unit that
  is said to replace itself, which `Relation::new` takes: nothing is left of the
  claim, where `compact.rs:20` drops "a superseded unit whose successor is
  present", since otherwise it "would lose the content entirely"
  (`compact.rs:92`). `ReplacementStays` excepts them; without the exception TLC
  finds the circle in `Revision_peer`.
- `relink` points a retracted unit at its new grounds like any other
  (`relink.rs:240`), and the copy is not retracted: the claim reads as founded
  again. `RetractionStands` is of the unit, which still is retracted.
- A unit that forks is repointed and stays, and every `relink` repoints it
  again, to the same unit: `AtNewest` speaks of units nothing supersedes.
- The journal is appended to behind a torn entry and never cut (`journal.rs:278`).
  The torn entry's length then takes in the beginning of the next one, and the
  lengths after it are read anywhere: what is journalled from then on may not be
  found, so every later run repeats it, where `journal.rs:17` says that "resume
  loses at most the batch in flight" and `journal.rs:33` that a truncated tail
  only stops the read. One kill within `record` is enough, with two runs after
  it; `LosesOnlyInFlight` speaks of journals with no torn entry.
- A write to a shard that fails part way leaves torn bytes that `ShardLog` does
  not know of (`shards.rs:376`), and the run goes on (`run.rs:552`): the batches
  of later windows are written behind them and journalled. The next open reads
  none of them, or refuses the log as malformed, and no rerun extracts those
  windows, where `journal.rs:24` says that this "cannot happen". `buried` names
  exactly these records.
- `ingest --text` takes no library lock (`main.rs:10773`). Two runs that both
  open a torn log each cut it, the second at a length it read before the first
  appended.
- Of three successors of a unit where one supersedes the two others, `relink`
  takes that one (`relink.rs:180`) and a merge reports a contention, because the
  two others are in no order (`contention.rs:56`).

The log of `UnitStore` holds each record once (`NoRecordTwice`), so no bound is
needed there: its state space is finite. `MixedWriters` bounds the log by
`MaxCells`, above which a Store does not begin a write; four cells are enough
for a torn record between two whole ones, which is what the runs are about.
It leaves out a reader in the locked writer's process: a locked writer that has
cut a finished record off reads back bytes that are no longer there, and what
the code does then is an error of `read_at` this model has no step for.

`ShardMigration` bounds a log by `MaxCells`, at which nothing more is appended.
`Migration_crash` has three records and four cells: a move, a torn append, a
move back and an append again fit in one behaviour, with a torn record at any
place of the log. Two commands multiply the states, and have two records and
two cells, which is enough for one to append what the other does not know and
for both to append the same; commands and readers are interchangeable in the
model but no symmetry is used, since the refinement and the liveness property
are checked in the same runs. A command runs once after the other for as long
as there are records to append, so each run has any number of commands.

`TextLibrary` bounds the documents a version is made from by `MaxVersions`:
with two documents, two versions are enough for an append to the head, to a
version that another follows and to one of several heads, a fork by a stale
command and an append that changes nothing. A version as long as the bound is
not named, since what follows it is beyond the bound (`Mids`). Two documents
share a part, so that one is redacted while the other is added. The two commands
are alike, and so are the two documents, each with its reading: of states that
differ by an exchange of these TLC visits one (`Alike`), which is sound for the
properties of the run, all of them of states and single steps. `LibraryImport` bounds by
`MaxTroubles` how often a command is killed or started beside another: one is
enough for each write of `import`, `accept` and `promote` to be the last one of
a killed command, with the rest of the behaviour showing what becomes of it.
Its three imports are one manifest with its part and reading, what rests on a
unit, and that unit with what the check blames beside it and a redaction; each
waits for another in some order.

`Merge` bounds by `MaxBatch` how many records are handed on at once; two are
enough for a batch in which one waits for the other. Whatever one of the two
peers may write waits for, or contends with, something of the other's, so every
pair of orders matters; a third peer would only repeat a batch. No liveness is
stated of it: that peers ever hand anything on is nothing the code sees to.

`Revision` bounds by `MaxRetracted` how many units are retracted; one, of each
unit in turn, is enough to meet every replacement and every drop of it. It
bounds by `MaxUnits` how many are held at once: six are the five drafts and one
relinked copy, or the four of them that a relinking moves, and two copies. Its five
drafts are a chain of grounds of three (b on y and a, y on a), and its four
edges make the replacements of a, as they come, one, a fork, a chain, or a
circle; what relinking makes of them adds units of its own. A store in which everything has
arrived and nothing is left to compact may stop, so deadlock is not checked of
it; no liveness is stated, since nobody has to run a command.

`IngestJournal` bounds by `MaxRuns` how often a run is started: three are one
that is killed, one that resumes, and one that finds what both have written.
Its two windows share a record that belongs in another shard than theirs, so
that a batch lies in two files, and the second answers the first. Runs may stop
for good, so deadlock is not checked of it; a run that is not killed ends, since
the windows left only get fewer, and that another is started is nobody's duty.

No liveness is stated of imports: a command that is not killed takes each of its
steps, and the only loop, `promote`, ends because every round leaves fewer
waiting (`RoundsShrink`). What is promised beyond that (what waits is promoted
by what it waits for) is `WaitsForMissing`, a property of states.

Fairness is weak fairness of the steps of a thread that has begun something,
`WriterStep` and `ReaderStep`: an operating system runs a runnable thread, and
none of these steps waits for anything but the fold lock (released by its
holder's steps), and the database (bounded by the deadline, `GiveUp`). Nobody
has to open, append, close or break a lock. In `ShardMigration` it is weak
fairness of `Run(p)`, any step of a command that has been started: it is a
process of its own, and the only things it could wait for are the library lock
(`acquire` fails at once when it is taken) and the database (`open_store` gives
up after `reader_wait_ms`, `RedbShards::open` at once). Nothing is assumed of
readers, nor that a command is started.

## Proofs

`UnitStoreProofs` proves, for any finite or infinite sets of writers, readers,
processes and records, any batches and any faults:

- `TypeCorrect`: `TypeOK`;
- `NeverAfterTorn`: `TornAtEnd`;
- `CaughtUpNotAhead`: `CaughtUpDescribes`;
- `AppendsInPlace`: `WritesWhereDescribed`;
- `NeverAhead`: `StoreBehindLog`, assuming no power failures;
- `OnlyGrows`: the action property `LogOnlyGrows`;
- `SnapshotsInOrder`: `SnapshotNotBehind`;
- `TablesSay`: `TablesSayRow`, and `EachRecordOnce`: `NoRecordTwice`, under
  `RebuildsWhole`;
- `AckedStays`: `AckedKept`, under `Lasting`;
- `StoreKeepsPromise`: `ImplementsAckedLog`, the refinement of `AckedLog` with
  every step mapped, under both.

The argument is one inductive invariant, `IInv`, and a second one, `SInv`, for
snapshots. None of the properties is inductive alone. That nothing is written
after a torn record needs that the writer at the log is the only one
(`LockHeld`: a thread past `locked` owns the lock file), that nobody folds
while it appends (`FoldLockHeld`: a thread inside a fold owns the mutex), that
the database is in one process (`Roles`), that a thread which has caught up
has a row that describes the log (`StoreKnown`), and what an appending writer
knows of file, row and its own `described` at each point of the append
(`WriterKnows`). `SInv` adds what a snapshot has seen of the row (`Seen`) and
what its opener was told (`Told`). The assumptions are those on the constants
in `RecordFold` and `UnitStore`, and the two hypotheses named above, which are
sets of faults that the code does not stand together, not shortcuts of a proof:

- `RebuildsWhole`: opens with `force_rebuild` and steps that fail do not both
  occur. When both do, `TablesSayRow` is false (the forced rebuild above).
- `Lasting`: power failures do not occur together with kills or failing syncs.
  When they do, `AckedKept` is false (the append whose sync failed, and the
  record a killed writer left that the next one folds, both above).

The runs have each set of faults the hypotheses allow: `UnitStore_kill` without
power failures, `UnitStore_power` without kills, `UnitStore_recovery` with all
but forced rebuilds.

`TablesSayRow` rests on `RecordFoldProofs`, where `FoldSays` proves that the
tables a fold yields say what the folded sequence says. That is an induction
over the sequence, which the library's induction theorems cannot give here; the
proof takes the least place at which the claim fails, if there is one
(`PlaceByPlace`), and shows that the recursive function `fold` exists the same
way. `FInv` carries it through the steps: the tables say what the row's prefix
says, or what the empty log says when there is no row. What could break that is
a writer that settles a store somebody cleared from its own idea of the log. So
either nobody clears the store under a writer that has caught up (`NotCleared`,
without forced rebuilds), or such a writer is not behind the file and has
nothing to settle (`NotBehind`, without steps that fail). `CInv` says of an
append that each record of its batch is in what was described or in what it is
to write (`Handled`), which makes what it answers for be in the log; `AInv`
that this part of the log is one no fault takes, since it is synced whenever
nobody writes; and `DInv` that what is to be written is not described and not
twice in itself.

`ShardMigrationProofs` proves, for any sets of commands, readers and records and
logs of any length:

- `TypesHold`: `TypeOK`;
- `NeverNowhere`: `RecordsSomewhere`;
- `PrimaryKept`: the action property `StoredKept`;

and, with one command at a time (`OneCommand`) and any readers beside it:

- `SettlingIsSafe`: `SettleLosesNothing`;
- `ShardKeepsPromise`: `ImplementsAckedLog`, the refinement of `AckedLog`.

The invariant of the first three is `Inv`. A step of a move relies on what an earlier one found:
`SetAside` on the shard being in the store and marked, `Switch` on the log
holding what the row holds (`Stages`). Those facts last because whoever is in
the store has it to himself, and whoever writes the library has its lock
(`Holders`); a settling command holds the store but not the lock, and a command
that removes the marker the lock but not the store, and `Stages` says of each
place only what the one it holds protects. `Aware` is what a command must have
read before. The proof needs the end of a log to exist for logs torn at any
place, which is an induction: `FirstPlace` gets it from the well-foundedness of
inclusion among the intervals from 0.

`OneCommand` cannot be dropped: run Migration_stale has two commands break
`SettleLosesNothing`. What a lone command relies on is `SInv`. Where it is tells
whether the shard is marked (`Located`), from its open to its lock it knows the
shard as it is (`HasRead`), it writes a record that is not there and at the end
of the log (`Writes`), and while it moves the shard, what it copied is what the
log holds (`HasCopied`). The check before the marker is written compares *sets*
of records; that the log is the same after it is because the row describes a
first part of the log and no record is in the log twice (`SameLog`). A reader's
open folds the log into the row at any moment of this, and changes nothing
`SInv` speaks of. Each step of the shard is then a record more, an answer, an
open, an exit, or nothing to `AckedLog`; a kill loses nothing, since the cell it
may leave is not a record.

The assumptions are `Roles` and `NothingIsThere`, which keep processes, records and "nothing" apart.

`TextLibraryProofs` proves, for any sets of commands, documents, parts and
readings and versions of any length up to `MaxVersions`:

- `LibraryTypes`: `LibTypeOK`;
- `ManifestsBacked`: `Backed`;
- `RedactedIsGone`: `RuleZ`;
- `RecordedFirst`: the action property `RedactedFirst`.

Its invariant is `InvAlways`. That nothing a manifest names goes away needs
that what a command has unlinked or will unlink was redacted in the catalog it
read, that its catalog is part of the present one, and that a command which
puts objects has the lock, so that what it has put is there when it appends its
manifest. Rule Z needs of a command with nobody beside it that its catalog *is*
the present one, and that the objects it has not unlinked yet are in `todo`.
The assumptions are `Shapes` and `NothingIsThere`.

`LibraryImportProofs` proves, for any imports, findings, sets of commands and
records, and files that are finite:

- `ImportTypes`: `ImportTypeOK`;
- `NothingDropped`: `Retained`;
- `PromotingEnds`: the action property `RoundsShrink`, that each round of
  `promote` but the last leaves fewer waiting, which no run repeats;
- `ImportsKeepLibrary`: `RuleZ` and `Backed`, with imports beside the library's
  own commands;
- `NothingWaitsInVain`: `WaitsForMissing`;
- `OrderLeavesNoTrace`: `OrderFree`.

The invariant of the first four is `ImportInv`. `Retained` says nothing of an import until it is
in the batch table, and it gets there last, so the invariant says place by place where
the records of the import a command works on are: in what it has worked out, in
the log, in a file it has written. A record leaves its waiting file only when
the round of `promote` that moves it has written it elsewhere, and only the
holder of the lock writes any of these. What `Classify` computes is used in one
respect, that the three classes are together what came in. The rounds are
recursive functions of their number, and that such functions exist is proved by
taking the least number of rounds for which one does not (`RoundsExist`). The assumptions are `ImportShapes` and `NothingBegun`, which
keeps "nothing" apart from what a command works on, and those of `TextLibrary`.
`RuleZ` and `Backed` need no new argument: the lemmas of `TextLibraryProofs` are
about any step of a command that leaves catalog, objects, snapshots and lock as
the library's own steps do (`LibShape`, `Leaves`), and each step of an import
does.

The last two speak of behaviours without kills and overlaps, so that the command
at work has the library as it is (`Knowing`). For `NothingWaitsInVain` the
invariant is `WaitInv`: what waits is in a waiting file under an import that is
neither unknown nor discarded, and lacks something there (`Lacks`). While a
command works this is said of its copy of the tables and of the files as it will
leave them (`Rowed`), and not at all between the record it puts in the log and
the round of `promote` that finds nothing more. That such a round leaves only
what lacks something needs that `Classify` came to rest: its recursion is over
as many rounds as there are records, and rounds that only grow have settled by
then (`RoundsSettle`).

`OrderLeavesNoTrace` compares a library that many commands have made with one
classification of everything, and neither is computed in the proof. A set of
records is `Closed` when each of them rests only on members and has no finding
beside them; a record *settles* beside a set when what it names is provided there
and nothing is wrong with it, and *fails* when something is wrong with it or with
what it names. One classification leaves a closed set beside which what waits
lacks something and what is quarantined fails (`Classified`). Two closed sets
that leave out nothing which settles beside them are the same set (`OneOutcome`):
of the records in which they differ, one rests on none of the others, since ids
are hashes (`NoCircle`), and it settles beside the set it is not in. So it is
enough that the library is such a set. The invariant `OrderInv` says that what is
held is closed, that it stays so with what any import has staged, and that what
is quarantined fails beside it (`Outcome`); and it keeps a ledger of which import
each record came with and that whatever is in a waiting file has a row, or is
held, staged or apart (`Ledger`), so that with every import accepted nothing else
is left to settle. Both hold of the copy of the command at work (`AtWork`), with
what it has worked out and not yet written (`Pending`); the ledger lets go of the
import whose staged records are in the log and still in its file (`Leaving`).
Why one file cannot be classified wrongly beside what another has staged is the
part of `OwnFindings` that findings on two units are about units of two files.
The hypotheses of `OrderFree` (`Independent`) hold of the files of
`Library_import`, where each of the two findings is on a unit that rests on the
other one it is about.

`MergeProofs` proves, for any set of peers and records and batches of any size:

- `MergeTypes`: `MergeTypeOK`;
- `Converges`: `Converged`;
- `UnionTells`: `UnionAnswers`.

Its invariant is `IInv`: what a layer gathers are the records its store holds
without those it has still to absorb, and of a store that is not appending
every attestation whose subject is there is attached. Two stores then agree
because each agrees with a description, `Tells`, that fixes every field it
speaks of: of a thread register, because of two different threads of one name
one is always before the other (`MergeShapes`: encodings differ). The
assumptions are `MergeShapes` and `KindsApart`.

`RevisionProofs` proves, for any units, replacements and remarks:

- `RevisionTypes`: `RevisionTypeOK`;
- `RetractionsStand`: the action property `RetractionStands`;
- `CompactionKeeps`: the action property `CompactionKeepsStatus`;
- `ReplacementsStay`: the action property `ReplacementStays`;
- `RelinkingSettles`: the action property `RelinkSettles`.

The first says of what relinking writes that it replaces a unit by the same
claim resting on something else: neither the repointing nor the sweep touches
the name (`MovesAlike`), and that the store stays finite needs the recursive
functions of relinking to exist. The second needs no invariant: compaction drops
no end of a retraction (`RetractionsKept`), so no relation that retracts is
dropped either, and every other step only adds. For the third, `UnfoundedIsLeast` replaces the loop
of `effective_status` by what it computes, the least set that has what was
retracted and leaves nothing more without support: the loop is a function
(`SpreadExists`), and since a store holds finitely many units it is the only
one, which is an induction over what is left to add, by the well-foundedness of
inclusion (`LargestOf`, `SpreadIsLeast`). Two such least sets, before and after
compaction, then differ by what was dropped (`LeastWithout`), for what is kept
rests on nothing of that (`KeptRestApart`).

For the fourth, suppose that all a unit's heirs, what replaced it, what replaced
that, and so on, are dropped with it. Of the unit and its heirs take one that has
the smallest set of heirs itself. It is dropped, so a successor of it is there;
that one is dropped too, is not among its own heirs, and so has a smaller set
(`HeirsOf`, `SomeHeirStays`).

The invariant of all but the second is `RevisionInv`: units and edges are finitely
many, and all that has been written anywhere can be ordered with grounds first
(`Written`). Relinking keeps that: what is halfway comes after what was there,
and what the sweep makes of a unit after what it made of its grounds
(`SweptWritten`). It is what makes the recursive functions of relinking exist,
each had on more and more of its domain (`SweepExists`, `WalkExists`). After
that `GroundsAfter` is the argument of `relink.rs:74`: each ground of what a
unit became is new, or stayed what it was; and what stays gets no successor
(`StaysUnreplaced`). Each condition of `RelinkSettles` is needed: with the circle,
with the edge that names a relinked unit before there is one, and with a unit
moved twice that only a *repointed* unit rests on, TLC finds a trace to a store
that is not settled.

The assumption is `GroundsFirst`: units are named by a hash over their grounds,
so those come first, and what is named and known to nobody is a draft that is
never delivered. None is made on what replaces what.

`IngestJournalProofs` proves, for any windows, answers, shards, edges and number
of runs, and failures anywhere:

- `JournalTypes`: `JournalTypeOK`;
- `NeverRecordedUnstaged`: `JournalledStaged`;
- `EdgesComplete`: the action property `RepliesDrawn`;
- `ResumeLosesLittle`: `LosesOnlyInFlight`.

Its invariant is `IInv`. `JournalledStaged` is not inductive, since it does not
say that a power failure leaves what it speaks of: `EntriesSafe` says that what
entries name is synced (`Safe`). For that, a run must know the truth about what
it leaves out of a batch as held already, and have written safely what it no
longer has to do (`RunKnows`); its third part, that a run without errors knows
of everything in the logs, is what makes its reply edges all of them. `LosesOnlyInFlight` compares three counts,
and needs that while the journal is whole a run has left exactly the windows
without an entry, that no window is entered twice, and that an entry is counted
in the step that makes it: the parts `RunSkips`, `FileSound`, `Counted` and
`Counts` of `CInv`. The assumption is `JournalShapes`.

Every invariant and every action property of the passing runs is thus stated by
a theorem. Model-checked only: the liveness properties, which are out of the
prover's reach.

## Not modelled, and the plan

Rendering, the codec, retrieval and measures are functions without state, best
tested as such. The block cache of the unit store and its query side are left
out: they read one snapshot. Planned, most important first:

1. `ShardsStore`: `UnitStore` with several logs and opens of a subset; what an
   open sees between another's clear and its folds.
2. `ShardLock`: a live holder's lock broken.
3. `Revision` with attestations and the other retraction policies; review plans
   against their application.
4. `IngestJournal` with two runs at once, and with shards in the unit store.
5. the temporal network and the packing solver as algorithms against a
   reference; joins of libraries; provider retries and budget.

