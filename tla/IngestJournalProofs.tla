-------------------------- MODULE IngestJournalProofs --------------------------
(* Theorems about IngestJournal: for any windows, answers, shards and      *)
(* reply edges, any number of runs, and failures anywhere.                 *)
EXTENDS IngestJournal, TLAPS, FiniteSetTheorems

File(items) == [held : SUBSET items, behind : SUBSET items,
                torn : BOOLEAN, synced : SUBSET items]

(* Files hold what belongs in them.                                        *)
JournalTypeOK ==
    /\ logs \in [Shards -> File(Records)]
    /\ journal \in File([window : Windows, batch : SUBSET Records])
    /\ run # Off => run \in Runs
    /\ \A s \in Shards : \A r \in logs[s].held : ShardOf[r] = s
    /\ buried \subseteq Records

-----------------------------------------------------------------------------
(* What survives a power failure, or is known to have been buried.         *)
Safe(r) == r \in buried \/ r \in logs[ShardOf[r]].held \cap logs[ShardOf[r]].synced

(* What a run takes for held is; what it has done of a batch is safe; and  *)
(* while it meets no error, it knows of everything that is there.          *)
RunKnows ==
    run # Off =>
        /\ \A r \in run.store : r \in buried \/ r \in logs[ShardOf[r]].held
        /\ run.at = "write" =>
              /\ \A r \in run.entry.batch : ShardOf[r] \in run.todo \/ Safe(r)
              /\ run.entry.window = NoWindow => run.entry.batch = Drawn
        /\ run.clean => Held \subseteq run.store \cup
                            (IF run.at = "write" THEN run.entry.batch ELSE {})

EntriesSafe ==
    \A e \in journal.held \cup journal.behind : \A r \in e.batch : Safe(r)

IInv == JournalTypeOK /\ RunKnows /\ EntriesSafe

-----------------------------------------------------------------------------
(* Files.                                                                  *)
LEMMA CutFile ==
    ASSUME NEW items, NEW f \in File(items)
    PROVE  /\ Cut(f) \in File(items) /\ Cut(f).held = f.held
           /\ Cut(f).synced \cap f.held = f.synced \cap f.held
BY DEF Cut, File

LEMMA SyncedFile ==
    ASSUME NEW items, NEW f \in File(items)
    PROVE  /\ Synced(f) \in File(items)
           /\ Synced(f).held = f.held /\ Synced(f).behind = f.behind
           /\ f.held \subseteq Synced(f).synced
BY DEF Synced, File

LEMMA PartFile ==
    ASSUME NEW items, NEW f \in File(items), NEW more \in SUBSET items,
           NEW g \in PartWritten(f, more)
    PROVE  /\ g \in File(items)
           /\ f.held \subseteq g.held /\ g.held \subseteq f.held \cup more
           /\ g.held \cup g.behind \subseteq f.held \cup f.behind \cup more
           /\ g.synced = f.synced
<1>1. CASE \E part \in SUBSET more : g = Written(f, part)
  <2>1. PICK part \in SUBSET more : g = Written(f, part)
    BY <1>1
  <2> QED
    BY <2>1 DEF Written, File
<1>2. CASE \E part \in SUBSET more : g = [Written(f, part) EXCEPT !.torn = TRUE]
  <2>1. PICK part \in SUBSET more : g = [Written(f, part) EXCEPT !.torn = TRUE]
    BY <1>2
  <2> DEFINE w == Written(f, part)
  <2>2. /\ w \in File(items) /\ w.synced = f.synced
        /\ f.held \subseteq w.held /\ w.held \subseteq f.held \cup more
        /\ w.held \cup w.behind \subseteq f.held \cup f.behind \cup more
    BY DEF Written, File
  <2>3. g = [w EXCEPT !.torn = TRUE]
    BY <2>1
  <2> HIDE DEF w
  <2> QED
    BY <2>2, <2>3 DEF File
<1> QED
  BY <1>1, <1>2 DEF PartWritten

(* What is synced survives the power, where it was read before.            *)
LEMMA PowerFile ==
    ASSUME NEW items, NEW f \in File(items), NEW g \in AfterPowerLoss(f)
    PROVE  /\ g \in File(items)
           /\ g.held \subseteq f.held
           /\ g.held \cup g.behind \subseteq f.held \cup f.behind
           /\ f.held \cap f.synced \subseteq g.held \cap g.synced
<1>1. PICK h \in [held : SUBSET f.held, behind : SUBSET f.behind,
                  torn : BOOLEAN, synced : {f.synced}] :
          /\ f.synced \subseteq h.held \cup h.behind
          /\ h.behind # {} => h.torn /\ h.held = f.held
          /\ g = [h EXCEPT !.synced = h.held \cup h.behind]
  BY DEF AfterPowerLoss
<1>2. /\ g.held = h.held /\ g.behind = h.behind /\ g.torn = h.torn
      /\ g.synced = h.held \cup h.behind
      /\ g = [held |-> h.held, behind |-> h.behind, torn |-> h.torn,
              synced |-> h.held \cup h.behind]
  BY <1>1
<1>3. h.held \subseteq f.held /\ h.behind \subseteq f.behind /\ h.torn \in BOOLEAN
  BY <1>1
<1>4. g \in File(items)
  BY <1>2, <1>3 DEF File
<1>5. f.held \cap f.synced \subseteq h.held
  BY <1>1
<1> QED
  BY <1>2, <1>3, <1>4, <1>5

-----------------------------------------------------------------------------
(* One shard's log changes.                                                *)
LEMMA BeforeFile ==
    ASSUME JournalTypeOK, NEW s \in Shards
    PROVE  /\ Before(s) \in File(Records) /\ Before(s).held = logs[s].held
           /\ logs[s].held \cap logs[s].synced
                 = Before(s).held \cap Before(s).synced
<1>1. logs[s] \in File(Records)
  BY DEF JournalTypeOK
<1> QED
  BY <1>1, CutFile DEF Before

LEMMA PartRecords ==
    ASSUME JournalTypeOK, run # Off, NEW s \in Shards
    PROVE  /\ Part(s) \in SUBSET Records
           /\ \A r \in Part(s) : r \in run.entry.batch /\ ShardOf[r] = s
BY DEF JournalTypeOK, Part, Runs, Entries

LEMMA OneShard ==
    ASSUME JournalTypeOK, run # Off, NEW s \in Shards, NEW g \in File(Records),
           logs' = [logs EXCEPT ![s] = g],
           logs[s].held \subseteq g.held,
           logs[s].held \cap logs[s].synced \subseteq g.synced,
           g.held \subseteq logs[s].held \cup Part(s),
           buried \subseteq buried'
    PROVE  /\ logs' \in [Shards -> File(Records)]
           /\ \A t \in Shards : \A r \in logs'[t].held : ShardOf[r] = t
           /\ \A r \in Records : Safe(r) => Safe(r)'
           /\ \A r \in Records :
                 r \in buried \/ r \in logs[ShardOf[r]].held
                    => r \in buried' \/ r \in logs'[ShardOf[r]].held
           /\ Held' \subseteq Held \cup run.entry.batch
<1>1. logs \in [Shards -> File(Records)] /\ \A t \in Shards : \A r \in logs[t].held : ShardOf[r] = t
  BY DEF JournalTypeOK
<1>2. logs' \in [Shards -> File(Records)]
  BY <1>1
<1>3. \A t \in Shards : logs'[t] = IF t = s THEN g ELSE logs[t]
  BY <1>1
<1>4. \A r \in Part(s) : r \in run.entry.batch /\ ShardOf[r] = s
  BY PartRecords
<1>5. \A t \in Shards : \A r \in logs'[t].held : ShardOf[r] = t
  BY <1>1, <1>3, <1>4
<1>6. \A t \in Shards : /\ logs[t].held \subseteq logs'[t].held
                        /\ logs[t].held \cap logs[t].synced \subseteq logs'[t].synced
                        /\ logs'[t].held \subseteq logs[t].held \cup run.entry.batch
  BY <1>3, <1>4
<1>7. \A r \in Records : ShardOf[r] \in Shards
  BY JournalShapes
<1>8. \A r \in Records : Safe(r) => Safe(r)'
  BY <1>6, <1>7 DEF Safe
<1>9. \A r \in Records :
         r \in buried \/ r \in logs[ShardOf[r]].held
            => r \in buried' \/ r \in logs'[ShardOf[r]].held
  BY <1>6, <1>7
<1>10. Held' \subseteq Held \cup run.entry.batch
  BY <1>6 DEF Held
<1> QED
  BY <1>2, <1>5, <1>8, <1>9, <1>10

(* A write that does not end keeps what was there, and adds only of its    *)
(* own.                                                                    *)
LEMMA PartOfShard ==
    ASSUME JournalTypeOK, run # Off, NEW s \in Shards,
           NEW g \in PartWritten(Before(s), Part(s))
    PROVE  /\ g \in File(Records)
           /\ logs[s].held \subseteq g.held
           /\ logs[s].held \cap logs[s].synced \subseteq g.synced
           /\ g.held \subseteq logs[s].held \cup Part(s)
<1>1. Part(s) \in SUBSET Records
  BY PartRecords
<1>2. Before(s) \in File(Records)
  BY BeforeFile
<1>3. /\ g \in File(Records)
      /\ Before(s).held \subseteq g.held /\ g.held \subseteq Before(s).held \cup Part(s)
      /\ g.synced = Before(s).synced
  BY <1>1, <1>2, PartFile
<1> QED
  BY <1>3, BeforeFile

(* One that does makes safe whatever of the batch belongs in the shard.    *)
LEMMA WholeOfShard ==
    ASSUME IInv, NEW s \in Shards, WriteShard(s)
    PROVE  /\ Appended(s) \in File(Records)
           /\ logs[s].held \subseteq Appended(s).held
           /\ logs[s].held \cap logs[s].synced \subseteq Appended(s).synced
           /\ Appended(s).held \subseteq logs[s].held \cup Part(s)
           /\ buried \subseteq buried' /\ buried' \subseteq Records
           /\ \A r \in run.entry.batch : ShardOf[r] = s => Safe(r)'
<1>1. JournalTypeOK /\ run # Off
  BY DEF IInv, WriteShard
<1>2. Part(s) \in SUBSET Records
  BY <1>1, PartRecords
<1>3. Before(s) \in File(Records) /\ Before(s).held = logs[s].held
      /\ logs[s].held \cap logs[s].synced = Before(s).held \cap Before(s).synced
  BY <1>1, BeforeFile
<1> DEFINE w == Written(Before(s), Part(s))
<1>4. /\ w \in File(Records)
      /\ w.held = IF Before(s).torn THEN Before(s).held ELSE Before(s).held \cup Part(s)
      /\ w.synced = Before(s).synced
  <2>1. \A f \in File(Records) :
           LET g == Written(f, Part(s))
           IN /\ g \in File(Records)
              /\ g.held = IF f.torn THEN f.held ELSE f.held \cup Part(s)
              /\ g.synced = f.synced
    BY <1>2 DEF Written, File
  <2> QED
    BY <2>1, <1>3
<1>5. Appended(s) = Synced(w)
  BY DEF Appended
<1> HIDE DEF w
<1>6. /\ Appended(s) \in File(Records) /\ Appended(s).held = w.held
      /\ w.held \subseteq Appended(s).synced
  BY <1>4, <1>5, SyncedFile
<1>7. buried \subseteq buried' /\ buried' \subseteq Records
      /\ (Before(s).torn => Part(s) \subseteq buried')
  BY <1>1, <1>2 DEF WriteShard, JournalTypeOK
<1>8. logs'[s] = Appended(s)
  BY <1>1 DEF WriteShard, JournalTypeOK
<1>9. ASSUME NEW r \in run.entry.batch, ShardOf[r] = s
      PROVE  Safe(r)'
  <2>1. CASE r \in Part(s)
    <3>1. r \in buried' \/ r \in Appended(s).held \cap Appended(s).synced
      BY <2>1, <1>4, <1>6, <1>7
    <3> QED
      BY <3>1, <1>8, <1>9 DEF Safe
  <2>2. CASE r \notin Part(s)
    <3>1. r \in run.store
      BY <2>2, <1>9 DEF Part
    <3>2. r \in buried \/ r \in logs[s].held
      BY <3>1, <1>1, <1>9 DEF IInv, RunKnows
    <3>3. r \in buried' \/ r \in Appended(s).held \cap Appended(s).synced
      BY <3>2, <1>3, <1>4, <1>6, <1>7
    <3> QED
      BY <3>3, <1>8, <1>9 DEF Safe
  <2> QED
    BY <2>1, <2>2
<1> QED
  BY <1>3, <1>4, <1>6, <1>7, <1>9

-----------------------------------------------------------------------------
(* The journal changes, and the logs do not.                               *)
LEMMA JournalStep ==
    ASSUME EntriesSafe, UNCHANGED <<logs, buried>>,
           \A e \in journal'.held \cup journal'.behind :
              \/ e \in journal.held \cup journal.behind
              \/ \A r \in e.batch : Safe(r)
    PROVE  EntriesSafe'
BY DEF EntriesSafe, Safe

(* The logs change, and the journal does not.                              *)
LEMMA LogsStep ==
    ASSUME JournalTypeOK, EntriesSafe, UNCHANGED journal,
           \A r \in Records : Safe(r) => Safe(r)'
    PROVE  EntriesSafe'
<1>1. \A e \in journal.held \cup journal.behind : e.batch \subseteq Records
  BY DEF JournalTypeOK, File
<1> QED
  BY <1>1 DEF EntriesSafe

(* A run that stages a batch is one.                                       *)
LEMMA StageRun ==
    ASSUME run \in Runs, NEW entry \in Entries
    PROVE  /\ Stage(entry) \in Runs
           /\ Stage(entry).at = "write" /\ Stage(entry).entry = entry
           /\ Stage(entry).todo = {ShardOf[r] : r \in entry.batch}
           /\ Stage(entry).store = run.store /\ Stage(entry).clean = run.clean
<1>1. {ShardOf[r] : r \in entry.batch} \subseteq Shards
  BY JournalShapes DEF Entries
<1> QED
  BY <1>1 DEF Stage, Runs

-----------------------------------------------------------------------------
(* The actions, one by one.                                                *)
LEMMA StartKeeps ==
    ASSUME IInv, NEW again \in BOOLEAN, Start(again)
    PROVE  IInv'
<1>1. UNCHANGED <<logs, journal, buried>>
  BY DEF Start
<1>2. JournalTypeOK /\ EntriesSafe
  BY DEF IInv
<1>3. PICK found \in SUBSET journal.behind :
          run' = [at    |-> "window",
                  again |-> again,
                  done  |-> IF again THEN {} ELSE Done(found),
                  left  |-> Windows,
                  store |-> Held,
                  torn  |-> {s \in Shards : logs[s].torn},
                  clean |-> TRUE,
                  entry |-> [window |-> NoWindow, batch |-> {}],
                  todo  |-> {}]
  BY DEF Start
<1>4. Done(found) \subseteq Windows
  BY <1>2 DEF JournalTypeOK, File, Done
<1>5. Held \subseteq Records
  BY <1>2 DEF JournalTypeOK, Held, File
<1>6. run' \in Runs
  BY <1>3, <1>4, <1>5 DEF Runs, Entries
<1>7. JournalTypeOK'
  BY <1>1, <1>2, <1>6 DEF JournalTypeOK
<1>8. \A r \in Held : r \in logs[ShardOf[r]].held
  BY <1>2 DEF JournalTypeOK, Held
<1>9. run'.at = "window" /\ run'.store = Held
  BY <1>3
<1>10. RunKnows'
  BY <1>1, <1>8, <1>9 DEF RunKnows, Held
<1>11. EntriesSafe'
  BY <1>1, <1>2 DEF EntriesSafe, Safe
<1> QED
  BY <1>7, <1>10, <1>11 DEF IInv

LEMMA StageKeeps ==
    ASSUME IInv, run # Off, run.at = "window", NEW entry \in Entries,
           run' = Stage(entry), UNCHANGED <<logs, journal, buried>>,
           entry.window = NoWindow => entry.batch = Drawn
    PROVE  IInv'
<1>1. run \in Runs /\ JournalTypeOK /\ RunKnows /\ EntriesSafe
  BY DEF IInv, JournalTypeOK
<1>2. /\ run' \in Runs
      /\ run'.at = "write" /\ run'.entry = entry
      /\ run'.todo = {ShardOf[r] : r \in entry.batch}
      /\ run'.store = run.store /\ run'.clean = run.clean
  BY <1>1, StageRun
<1>3. JournalTypeOK'
  BY <1>1, <1>2 DEF JournalTypeOK
<1>4. Drawn' = Drawn
  BY <1>2 DEF Drawn
<1>5. RunKnows'
  BY <1>1, <1>2, <1>4 DEF RunKnows, Held
<1>6. EntriesSafe'
  BY <1>1 DEF EntriesSafe, Safe
<1> QED
  BY <1>3, <1>5, <1>6 DEF IInv

LEMMA ExtractKeeps ==
    ASSUME IInv, NEW w \in Windows, Extract(w)
    PROVE  IInv'
<1>1. PICK batch \in Answers[w] : run' = Stage([window |-> w, batch |-> batch])
  BY DEF Extract
<1>2. [window |-> w, batch |-> batch] \in Entries /\ w # NoWindow
  BY JournalShapes DEF Entries
<1> QED
  BY <1>1, <1>2, StageKeeps DEF Extract

LEMMA OffKeeps ==
    ASSUME IInv, run' = Off, UNCHANGED <<logs, journal, buried>>
    PROVE  IInv'
BY DEF IInv, JournalTypeOK, RunKnows, EntriesSafe, Safe

LEMMA LinkKeeps ==
    ASSUME IInv, Link
    PROVE  IInv'
<1>1. CASE Drawn = {}
  BY <1>1, OffKeeps DEF Link
<1>2. CASE Drawn # {}
  <2>1. Drawn \subseteq Records
    BY JournalShapes DEF Drawn, Between
  <2>2. [window |-> NoWindow, batch |-> Drawn] \in Entries
    BY <2>1 DEF Entries
  <2> QED
    BY <1>2, <2>2, StageKeeps DEF Link
<1> QED
  BY <1>1, <1>2

LEMMA WriteKeeps ==
    ASSUME IInv, NEW s \in Shards, WriteShard(s)
    PROVE  IInv'
<1>1. run \in Runs /\ JournalTypeOK /\ RunKnows /\ EntriesSafe /\ run # Off
  BY DEF IInv, JournalTypeOK, WriteShard
<1>2. /\ logs' = [logs EXCEPT ![s] = Appended(s)] /\ UNCHANGED journal
      /\ run' = [run EXCEPT !.todo = @ \ {s}, !.torn = @ \ {s}]
  BY DEF WriteShard
<1>3. /\ Appended(s) \in File(Records)
      /\ logs[s].held \subseteq Appended(s).held
      /\ logs[s].held \cap logs[s].synced \subseteq Appended(s).synced
      /\ Appended(s).held \subseteq logs[s].held \cup Part(s)
      /\ buried \subseteq buried' /\ buried' \subseteq Records
      /\ \A r \in run.entry.batch : ShardOf[r] = s => Safe(r)'
  BY WholeOfShard
<1>4. /\ logs' \in [Shards -> File(Records)]
      /\ \A t \in Shards : \A r \in logs'[t].held : ShardOf[r] = t
      /\ \A r \in Records : Safe(r) => Safe(r)'
      /\ \A r \in Records :
            r \in buried \/ r \in logs[ShardOf[r]].held
               => r \in buried' \/ r \in logs'[ShardOf[r]].held
      /\ Held' \subseteq Held \cup run.entry.batch
  BY <1>1, <1>2, <1>3, OneShard
<1>5. /\ run' \in Runs /\ run'.at = run.at /\ run'.store = run.store
      /\ run'.entry = run.entry /\ run'.clean = run.clean
      /\ run'.todo = run.todo \ {s}
  BY <1>1, <1>2 DEF Runs
<1>6. JournalTypeOK'
  BY <1>1, <1>2, <1>3, <1>4, <1>5 DEF JournalTypeOK
<1>7. RunKnows'
  <2>1. run.store \subseteq Records /\ run.entry.batch \subseteq Records
    BY <1>1 DEF Runs, Entries
  <2>2. \A r \in run'.store : r \in buried' \/ r \in logs'[ShardOf[r]].held
    BY <1>1, <1>4, <1>5, <2>1 DEF RunKnows
  <2>3. Drawn' = Drawn
    BY <1>5 DEF Drawn
  <2>4. ASSUME run'.at = "write"
        PROVE  /\ \A r \in run'.entry.batch : ShardOf[r] \in run'.todo \/ Safe(r)'
               /\ run'.entry.window = NoWindow => run'.entry.batch = Drawn'
    BY <1>1, <1>3, <1>4, <1>5, <2>1, <2>3, <2>4 DEF RunKnows
  <2>5. run.at = "write"
    BY DEF WriteShard
  <2>6. run'.clean => Held' \subseteq run'.store \cup
                         (IF run'.at = "write" THEN run'.entry.batch ELSE {})
    BY <1>1, <1>4, <1>5, <2>5 DEF RunKnows
  <2> QED
    BY <2>2, <2>4, <2>6 DEF RunKnows
<1>8. EntriesSafe'
  BY <1>1, <1>2, <1>4, LogsStep
<1> QED
  BY <1>6, <1>7, <1>8 DEF IInv

LEMMA FailWriteKeeps ==
    ASSUME IInv, NEW s \in Shards, FailWrite(s)
    PROVE  IInv'
<1>1. run \in Runs /\ JournalTypeOK /\ RunKnows /\ EntriesSafe /\ run # Off
  BY DEF IInv, JournalTypeOK, FailWrite
<1>2. UNCHANGED <<journal, buried>>
  BY DEF FailWrite
<1>3. \/ UNCHANGED logs
      \/ \E g \in PartWritten(Before(s), Part(s)) : logs' = [logs EXCEPT ![s] = g]
  BY DEF FailWrite
<1>4. /\ logs' \in [Shards -> File(Records)]
      /\ \A t \in Shards : \A r \in logs'[t].held : ShardOf[r] = t
      /\ \A r \in Records : Safe(r) => Safe(r)'
      /\ \A r \in Records :
            r \in buried \/ r \in logs[ShardOf[r]].held
               => r \in buried' \/ r \in logs'[ShardOf[r]].held
  <2>1. CASE UNCHANGED logs
    BY <2>1, <1>1, <1>2 DEF JournalTypeOK, Safe
  <2>2. CASE \E g \in PartWritten(Before(s), Part(s)) : logs' = [logs EXCEPT ![s] = g]
    <3>1. PICK g \in PartWritten(Before(s), Part(s)) : logs' = [logs EXCEPT ![s] = g]
      BY <2>2
    <3> QED
      BY <3>1, <1>1, <1>2, PartOfShard, OneShard
  <2> QED
    BY <1>3, <2>1, <2>2
<1>5. \/ run' = Off
      \/ /\ run' \in Runs /\ run'.at = "window" /\ run'.store = run.store
         /\ run'.clean = FALSE
  <2>1. run' = GivenUp(run) \/ run' = GivenUp([run EXCEPT !.torn = @ \ {s}])
    BY DEF FailWrite
  <2>2. \A r \in Runs : [r EXCEPT !.torn = @ \ {s}] \in Runs
                        /\ [r EXCEPT !.torn = @ \ {s}].store = r.store
    BY DEF Runs
  <2>3. \A r \in Runs : \/ GivenUp(r) = Off
                        \/ /\ GivenUp(r) \in Runs /\ GivenUp(r).at = "window"
                           /\ GivenUp(r).store = r.store /\ GivenUp(r).clean = FALSE
    BY DEF GivenUp, Runs
  <2>4. CASE run' = GivenUp(run)
    BY <1>1, <2>3, <2>4
  <2>5. CASE run' = GivenUp([run EXCEPT !.torn = @ \ {s}])
    <3> DEFINE next == [run EXCEPT !.torn = @ \ {s}]
    <3>1. next \in Runs /\ next.store = run.store /\ run' = GivenUp(next)
      BY <1>1, <2>2, <2>5
    <3> HIDE DEF next
    <3> QED
      BY <2>3, <3>1
  <2> QED
    BY <2>1, <2>4, <2>5
<1>6. JournalTypeOK'
  BY <1>1, <1>2, <1>4, <1>5 DEF JournalTypeOK
<1>7. RunKnows'
  <2>1. run.store \subseteq Records
    BY <1>1 DEF Runs
  <2> QED
    BY <1>1, <1>4, <1>5, <2>1 DEF RunKnows
<1>8. EntriesSafe'
  BY <1>1, <1>2, <1>4, LogsStep
<1> QED
  BY <1>6, <1>7, <1>8 DEF IInv

(* Of a staged batch, all is safe.                                         *)
LEMMA StagedSafe ==
    ASSUME IInv, Staged
    PROVE  \A r \in run.entry.batch :
              Safe(r) /\ (r \in buried \/ r \in logs[ShardOf[r]].held)
BY DEF IInv, RunKnows, Staged, Safe

LEMMA RecordKeeps ==
    ASSUME IInv, Record \/ FailRecord
    PROVE  IInv'
<1>1. /\ run \in Runs /\ JournalTypeOK /\ RunKnows /\ EntriesSafe
      /\ run # Off /\ run.at = "write"
      /\ Staged /\ run.entry.window # NoWindow
  BY DEF IInv, JournalTypeOK, Record, FailRecord, Staged
<1>2. UNCHANGED <<logs, buried>>
  BY DEF Record, FailRecord
<1> DEFINE Items == [window : Windows, batch : SUBSET Records]
<1>3. run.entry \in Items
  BY <1>1 DEF Runs, Entries
<1>4. /\ journal' \in File(Items)
      /\ journal'.held \cup journal'.behind
            \subseteq journal.held \cup journal.behind \cup {run.entry}
  <2>1. journal \in File(Items) /\ {run.entry} \in SUBSET Items
    BY <1>1, <1>3 DEF JournalTypeOK
  <2> HIDE DEF Items
  <2>2. CASE Record
    <3>1. journal' = Synced(Written(journal, {run.entry}))
      BY <2>2 DEF Record, Recorded
    <3> QED
      BY <2>1, <3>1 DEF Synced, Written, File
  <2>3. CASE FailRecord
    <3>1. journal' \in PartWritten(journal, {run.entry})
      BY <2>3 DEF FailRecord
    <3> QED
      BY <2>1, <3>1, PartFile
  <2> QED
    BY <2>2, <2>3
<1>5. /\ run' \in Runs /\ run'.at = "window" /\ run'.clean = run.clean
      /\ run'.store = run.store \cup run.entry.batch
  <2>1. run.entry.window \in Windows /\ run.entry.batch \subseteq Records
    BY <1>3
  <2>2. CASE Record
    <3>1. run' = [run EXCEPT !.at = "window", !.done = @ \cup {run.entry.window},
                             !.store = @ \cup run.entry.batch]
      BY <2>2 DEF Record
    <3> QED
      BY <1>1, <2>1, <3>1 DEF Runs
  <2>3. CASE FailRecord
    <3>1. run' = [run EXCEPT !.at = "window", !.store = @ \cup run.entry.batch]
      BY <2>3 DEF FailRecord
    <3> QED
      BY <1>1, <2>1, <3>1 DEF Runs
  <2> QED
    BY <2>2, <2>3
<1>6. JournalTypeOK'
  BY <1>1, <1>2, <1>4, <1>5 DEF JournalTypeOK
<1>7. RunKnows'
  BY <1>1, <1>2, <1>5, StagedSafe DEF RunKnows, Held
<1>8. EntriesSafe'
  BY <1>1, <1>2, <1>4, StagedSafe, JournalStep
<1> QED
  BY <1>6, <1>7, <1>8 DEF IInv

LEMMA KillKeeps ==
    ASSUME IInv, Kill
    PROVE  IInv'
<1>1. JournalTypeOK /\ EntriesSafe /\ run # Off /\ run \in Runs
  BY DEF IInv, JournalTypeOK, Kill
<1>2. run' = Off /\ UNCHANGED buried
  BY DEF Kill
<1>3. CASE UNCHANGED <<logs, journal>>
  BY <1>2, <1>3, OffKeeps
<1>4. CASE /\ \E s \in run.todo : \E f \in PartWritten(Before(s), Part(s)) :
                logs' = [logs EXCEPT ![s] = f]
           /\ UNCHANGED journal
  <2>0. PICK s \in Shards : \E f \in PartWritten(Before(s), Part(s)) :
                                logs' = [logs EXCEPT ![s] = f]
    BY <1>1, <1>4 DEF Runs
  <2>1. PICK f \in PartWritten(Before(s), Part(s)) : logs' = [logs EXCEPT ![s] = f]
    BY <2>0
  <2>2. /\ logs' \in [Shards -> File(Records)]
        /\ \A t \in Shards : \A r \in logs'[t].held : ShardOf[r] = t
        /\ \A r \in Records : Safe(r) => Safe(r)'
    BY <1>1, <1>2, <2>1, PartOfShard, OneShard
  <2>3. EntriesSafe'
    BY <1>1, <1>4, <2>2, LogsStep
  <2> QED
    BY <1>1, <1>2, <1>4, <2>2, <2>3 DEF IInv, JournalTypeOK, RunKnows
<1>5. CASE /\ Staged /\ run.entry.window # NoWindow
           /\ journal' \in PartWritten(journal, {run.entry})
           /\ UNCHANGED logs
  <2> DEFINE Items == [window : Windows, batch : SUBSET Records]
  <2>1. journal \in File(Items) /\ {run.entry} \in SUBSET Items
    BY <1>1, <1>5 DEF JournalTypeOK, Runs, Entries
  <2>2. /\ journal' \in File(Items)
        /\ journal'.held \cup journal'.behind
              \subseteq journal.held \cup journal.behind \cup {run.entry}
    <3> HIDE DEF Items
    <3> QED
      BY <1>5, <2>1, PartFile
  <2>3. EntriesSafe'
    BY <1>1, <1>2, <1>5, <2>2, StagedSafe, JournalStep
  <2> QED
    BY <1>1, <1>2, <1>5, <2>2, <2>3 DEF IInv, JournalTypeOK, RunKnows
<1> QED
  BY <1>3, <1>4, <1>5 DEF Kill

LEMMA PowerKeeps ==
    ASSUME IInv, PowerFailure
    PROVE  IInv'
<1>1. JournalTypeOK /\ EntriesSafe
  BY DEF IInv
<1>2. run = Off /\ UNCHANGED <<run, buried>>
  BY DEF PowerFailure
<1> DEFINE Items == [window : Windows, batch : SUBSET Records]
<1>3. /\ journal' \in File(Items)
      /\ journal'.held \cup journal'.behind \subseteq journal.held \cup journal.behind
  <2>1. journal \in File(Items) /\ journal' \in AfterPowerLoss(journal)
    BY <1>1 DEF JournalTypeOK, PowerFailure
  <2> HIDE DEF Items
  <2> QED
    BY <2>1, PowerFile
<1>4. \A s \in Shards :
         /\ logs'[s] \in File(Records) /\ logs'[s].held \subseteq logs[s].held
         /\ logs[s].held \cap logs[s].synced \subseteq logs'[s].held \cap logs'[s].synced
  <2>1. \A s \in Shards : logs[s] \in File(Records) /\ logs'[s] \in AfterPowerLoss(logs[s])
    BY <1>1 DEF JournalTypeOK, PowerFailure
  <2> QED
    BY <2>1, PowerFile
<1>5. logs' \in [Shards -> File(Records)]
  <2>1. \E X : logs' \in [Shards -> X]
    BY DEF PowerFailure
  <2> QED
    BY <1>4, <2>1
<1>6. JournalTypeOK'
  BY <1>1, <1>2, <1>3, <1>4, <1>5 DEF JournalTypeOK
<1>7. \A r \in Records : Safe(r) => Safe(r)'
  BY <1>2, <1>4, JournalShapes DEF Safe
<1>8. EntriesSafe'
  <2>1. \A e \in journal.held \cup journal.behind : e.batch \subseteq Records
    BY <1>1 DEF JournalTypeOK, File
  <2> QED
    BY <1>1, <1>3, <1>7, <2>1 DEF EntriesSafe
<1> QED
  BY <1>2, <1>6, <1>8 DEF IInv, RunKnows

-----------------------------------------------------------------------------
LEMMA Inductive == Init /\ [][Next]_vars => []IInv
<1>1. Init => IInv
  BY DEF Init, IInv, JournalTypeOK, RunKnows, EntriesSafe, Empty, File
<1>2. ASSUME IInv, [Next]_vars
      PROVE  IInv'
  <2>1. CASE UNCHANGED vars
    BY <1>2, <2>1 DEF vars, IInv, JournalTypeOK, RunKnows, EntriesSafe, Safe, Held, Drawn
  <2>2. CASE Next
    BY <1>2, <2>2, StartKeeps, ExtractKeeps, WriteKeeps, FailWriteKeeps, RecordKeeps,
       LinkKeeps, OffKeeps, KillKeeps, PowerKeeps DEF Next, Linked
  <2> QED
    BY <1>2, <2>1, <2>2
<1> QED
  BY <1>1, <1>2, PTL

(* Files hold what belongs in them, torn or not, cut or not.               *)
THEOREM JournalTypes == Spec => []JournalTypeOK
<1>1. IInv => JournalTypeOK
  BY DEF IInv
<1> QED
  BY <1>1, Inductive, PTL DEF Spec

(* What a run may find in the journal is in the logs, or was buried.       *)
THEOREM NeverRecordedUnstaged == Spec => []JournalledStaged
<1>1. IInv => JournalledStaged
  <2> SUFFICES ASSUME IInv, NEW e \in journal.held \cup journal.behind,
                      NEW r \in e.batch
               PROVE  r \in Held \cup buried
    BY DEF JournalledStaged
  <2>1. r \in Records
    BY DEF IInv, JournalTypeOK, File
  <2>2. Safe(r)
    BY DEF IInv, EntriesSafe
  <2> QED
    BY <2>1, <2>2, JournalShapes DEF Safe, Held
<1> QED
  BY <1>1, Inductive, PTL DEF Spec

(* A run that met no error has drawn every edge there is to draw.          *)
THEOREM EdgesComplete == Spec => RepliesDrawn
<1>1. ASSUME IInv, run.clean, (Link /\ Drawn = {}) \/ Linked
      PROVE  Between(Held) \subseteq Held \cup buried
  <2>0. run # Off
    BY <1>1 DEF Link, Linked, Staged
  <2>1. run \in Runs /\ JournalTypeOK /\ RunKnows
    BY <1>1 DEF IInv, JournalTypeOK, Link, Linked, Staged
  <2>2. \A r \in run.store : r \in Held \cup buried
    BY <2>1, <2>0, JournalShapes DEF RunKnows, Held, Runs
  <2>3. CASE Link /\ Drawn = {}
    <3>1. run.at = "window"
      BY <2>3 DEF Link
    <3>2. Held \subseteq run.store
      BY <2>1, <2>0, <1>1, <3>1 DEF RunKnows
    <3> QED
      BY <2>2, <2>3, <3>2 DEF Drawn, Between
  <2>4. CASE Linked
    <3>1. run.at = "write" /\ run.entry.window = NoWindow /\ Staged
      BY <2>4 DEF Linked, Staged
    <3>2. run.entry.batch = Drawn /\ Held \subseteq run.store \cup run.entry.batch
      BY <2>1, <2>0, <1>1, <3>1 DEF RunKnows
    <3>3. \A e \in Between(Held) : e \in Between(run.store)
      BY <3>2, JournalShapes DEF Between, Drawn
    <3>4. \A r \in run.entry.batch : r \in Held \cup buried
      BY <1>1, <2>1, <3>1, StagedSafe, JournalShapes DEF Held, Runs, Entries
    <3> QED
      BY <2>2, <3>2, <3>3, <3>4 DEF Drawn
  <2> QED
    BY <1>1, <2>3, <2>4
<1>2. ASSUME IInv, [Next]_vars
      PROVE  [((Link /\ Drawn = {}) \/ Linked) /\ run.clean
                 => Between(Held) \subseteq Held \cup buried]_vars
  BY <1>1, <1>2
<1> QED
  BY <1>2, Inductive, PTL DEF Spec, RepliesDrawn

-----------------------------------------------------------------------------
(***************************************************************************)
(* What is extracted.  Each window asked for without being told to extract *)
(* again is in flight, came to nothing, or is in a journal entry that a    *)
(* power failure leaves.  It is counted against what is synced, and only   *)
(* as long as all of that can be read: behind torn bytes a later run may   *)
(* not find it.                                                            *)
(***************************************************************************)
WindowsOf(entries) == {e.window : e \in entries}

Entered == journal.held \cup journal.behind

Asked == IF InFlight = 1 /\ ~run.again THEN 1 ELSE 0

FileSound ==
    /\ journal.synced \subseteq Entered
    /\ journal.behind # {} => journal.torn
    /\ IsFiniteSet(WindowsOf(Entered))

(* A run takes no window that the journal has, unless asked to.            *)
RunSkips ==
    run # Off =>
        /\ run.at = "write" => run.entry.window \notin run.left
        /\ ~run.again =>
              /\ WindowsOf(journal.held) \cap run.left \subseteq run.done
              /\ run.at = "write" => run.entry.window \notin WindowsOf(journal.held)

Counted ==
    journal.synced \subseteq journal.held =>
        calls <= Cardinality(WindowsOf(journal.synced)) + troubles + Asked

Counts == calls \in Nat /\ troubles \in Nat

CInv == FileSound /\ RunSkips /\ Counted /\ Counts

LEMMA MoreWindows ==
    ASSUME NEW A, NEW B, A \subseteq B, IsFiniteSet(WindowsOf(B))
    PROVE  /\ WindowsOf(A) \subseteq WindowsOf(B)
           /\ Cardinality(WindowsOf(A)) \in Nat /\ Cardinality(WindowsOf(B)) \in Nat
           /\ Cardinality(WindowsOf(A)) <= Cardinality(WindowsOf(B))
           /\ \A w \in WindowsOf(B) \ WindowsOf(A) :
                 Cardinality(WindowsOf(A)) + 1 <= Cardinality(WindowsOf(B))
<1>1. WindowsOf(A) \subseteq WindowsOf(B)
  BY DEF WindowsOf
<1>2. /\ IsFiniteSet(WindowsOf(A))
      /\ Cardinality(WindowsOf(A)) <= Cardinality(WindowsOf(B))
      /\ Cardinality(WindowsOf(A)) = Cardinality(WindowsOf(B))
            => WindowsOf(A) = WindowsOf(B)
  BY <1>1, FS_Subset
<1>3. Cardinality(WindowsOf(A)) \in Nat /\ Cardinality(WindowsOf(B)) \in Nat
  BY <1>2, FS_CardinalityType
<1> QED
  BY <1>1, <1>2, <1>3

(* Neither the journal nor the counts change, nor what is in flight.       *)
LEMMA JournalAlone ==
    ASSUME CInv, UNCHANGED <<journal, calls, troubles>>, Asked' = Asked, RunSkips'
    PROVE  CInv'
BY DEF CInv, FileSound, Counted, Counts, Entered

(* The extraction that was in flight is counted as trouble, the journal as *)
(* it was or with some of the entry.                                       *)
LEMMA InTrouble ==
    ASSUME CInv, JournalTypeOK, run # Off, UNCHANGED calls,
           troubles' = troubles + InFlight, Asked' = 0, RunSkips',
           \/ UNCHANGED journal
           \/ journal' \in PartWritten(journal, {run.entry})
    PROVE  CInv'
<1>1. Asked <= InFlight /\ InFlight \in {0, 1} /\ Asked \in {0, 1}
  BY DEF Asked, InFlight
<1>2. Counts'
  BY <1>1 DEF CInv, Counts
<1>3. CASE UNCHANGED journal
  <2>1. Cardinality(WindowsOf(journal.synced)) \in Nat
    BY MoreWindows DEF CInv, FileSound
  <2> QED
    BY <1>1, <1>2, <1>3, <2>1 DEF CInv, FileSound, Counted, Counts, Entered
<1>4. CASE journal' \in PartWritten(journal, {run.entry})
  <2> DEFINE e == run.entry
  <2>1. \E part \in SUBSET {e} : \/ journal' = Written(journal, part)
                                 \/ journal' = [Written(journal, part) EXCEPT !.torn = TRUE]
    BY <1>4 DEF PartWritten
  <2>2. \E Items : journal \in File(Items)
    BY DEF JournalTypeOK
  <2>3. /\ journal'.synced = journal.synced
        /\ journal.held \subseteq journal'.held
        /\ Entered \subseteq Entered' /\ Entered' \subseteq Entered \cup {e}
        /\ journal.torn => journal'.torn /\ journal'.held = journal.held
        /\ ~journal.torn => journal'.behind = journal.behind
    BY <2>1, <2>2 DEF Written, File, Entered
  <2>4. IsFiniteSet(WindowsOf(Entered'))
    <3>1. IsFiniteSet(WindowsOf(Entered) \cup {e.window})
      BY FS_AddElement DEF CInv, FileSound
    <3>2. WindowsOf(Entered') \subseteq WindowsOf(Entered) \cup {e.window}
      BY <2>3 DEF WindowsOf
    <3> QED
      BY <3>1, <3>2, FS_Subset
  <2>5. FileSound'
    BY <2>3, <2>4 DEF CInv, FileSound
  <2>6. Counted'
    <3>1. journal'.synced \subseteq journal'.held => journal.synced \subseteq journal.held
      BY <2>3 DEF CInv, FileSound, Entered
    <3>2. Cardinality(WindowsOf(journal.synced)) \in Nat
      BY MoreWindows DEF CInv, FileSound
    <3> QED
      BY <1>1, <2>3, <3>1, <3>2 DEF CInv, Counted, Counts
  <2> QED
    BY <1>2, <2>5, <2>6 DEF CInv
<1> QED
  BY <1>3, <1>4

LEMMA StartCounts ==
    ASSUME CInv, NEW again \in BOOLEAN, Start(again)
    PROVE  CInv'
<1>1. UNCHANGED <<journal, calls, troubles>> /\ run = Off
  BY DEF Start
<1>2. /\ run'.at = "window" /\ run'.again = again
      /\ \E found \in SUBSET journal.behind :
            run'.done = IF again THEN {} ELSE Done(found)
  BY DEF Start
<1>3. Asked = 0 /\ Asked' = 0
  BY <1>1, <1>2 DEF Asked, InFlight
<1>4. RunSkips'
  BY <1>1, <1>2 DEF RunSkips, WindowsOf, Done
<1> QED
  BY <1>1, <1>3, <1>4, JournalAlone

LEMMA ExtractCounts ==
    ASSUME IInv, CInv, NEW w \in Windows, Extract(w)
    PROVE  CInv'
<1>1. /\ run # Off /\ run.at = "window" /\ w \in run.left \ run.done
      /\ calls' = IF run.again THEN calls ELSE calls + 1
      /\ UNCHANGED <<journal, troubles>> /\ run \in Runs
  BY DEF Extract, IInv, JournalTypeOK
<1>2. PICK batch \in Answers[w] : run' = Stage([window |-> w, batch |-> batch])
  BY DEF Extract
<1>3. [window |-> w, batch |-> batch] \in Entries /\ w # NoWindow
  BY JournalShapes DEF Entries
<1>4. /\ run'.at = "write" /\ run'.entry.window = w
      /\ run'.left = run.left \ {w} /\ run'.done = run.done /\ run'.again = run.again
  BY <1>1, <1>2 DEF Stage, Runs
<1>5. RunSkips'
  BY <1>1, <1>4 DEF CInv, RunSkips
<1>6. Asked = 0 /\ (Asked' = 0 \/ Asked' = 1) /\ InFlight \in Nat
  BY <1>1 DEF Asked, InFlight
<1>7. run' # Off
  BY <1>1, <1>2, <1>3, StageRun, JournalShapes
<1>8. Asked' = IF run.again THEN 0 ELSE 1
  BY <1>3, <1>4, <1>7 DEF Asked, InFlight
<1>9. Cardinality(WindowsOf(journal.synced)) \in Nat
  BY MoreWindows DEF CInv, FileSound
<1>10. Counts' /\ calls' + Asked = calls + Asked'
  BY <1>1, <1>6, <1>8 DEF CInv, Counts
<1> QED
  BY <1>1, <1>5, <1>6, <1>8, <1>9, <1>10 DEF CInv, FileSound, Counted, Counts, Entered

LEMMA OffCounts ==
    ASSUME CInv, run' = Off, UNCHANGED <<journal, calls, troubles>>, Asked = 0
    PROVE  CInv'
<1>1. Asked' = 0 /\ RunSkips'
  BY DEF Asked, InFlight, RunSkips
<1> QED
  BY <1>1, JournalAlone

LEMMA LinkCounts ==
    ASSUME IInv, CInv, Link
    PROVE  CInv'
<1>1. /\ run # Off /\ run.at = "window" /\ run \in Runs
      /\ UNCHANGED <<journal, calls, troubles>>
  BY DEF Link, IInv, JournalTypeOK
<1>2. Asked = 0
  BY <1>1 DEF Asked, InFlight
<1>3. CASE run' = Off
  BY <1>1, <1>2, <1>3, OffCounts
<1>4. CASE run' = Stage([window |-> NoWindow, batch |-> Drawn])
  <2>1. /\ run'.at = "write" /\ run'.entry.window = NoWindow
        /\ run'.left \subseteq run.left \ {NoWindow}
        /\ run'.done = run.done /\ run'.again = run.again
    BY <1>1, <1>4 DEF Stage, Runs
  <2>2. Asked' = 0
    BY <2>1 DEF Asked, InFlight
  <2>3. NoWindow \notin WindowsOf(journal.held)
    BY JournalShapes DEF IInv, JournalTypeOK, File, WindowsOf
  <2>4. RunSkips'
    BY <1>1, <2>1, <2>3 DEF CInv, RunSkips
  <2> QED
    BY <1>1, <1>2, <2>2, <2>4, JournalAlone
<1> QED
  BY <1>3, <1>4 DEF Link

LEMMA WriteCounts ==
    ASSUME IInv, CInv, NEW s \in Shards, WriteShard(s)
    PROVE  CInv'
<1>1. run # Off /\ run \in Runs /\ UNCHANGED <<journal, calls, troubles>>
  BY DEF WriteShard, IInv, JournalTypeOK
<1>2. run' = [run EXCEPT !.todo = @ \ {s}, !.torn = @ \ {s}]
  BY DEF WriteShard
<1>3. /\ run' \in Runs /\ run'.at = run.at /\ run'.again = run.again
      /\ run'.entry = run.entry /\ run'.left = run.left /\ run'.done = run.done
  BY <1>1, <1>2 DEF Runs
<1>4. run' # Off
  BY <1>3, JournalShapes
<1>5. Asked' = Asked
  BY <1>1, <1>3, <1>4 DEF Asked, InFlight
<1>6. RunSkips'
  BY <1>1, <1>3, <1>4 DEF CInv, RunSkips
<1> QED
  BY <1>1, <1>5, <1>6, JournalAlone

LEMMA FailWriteCounts ==
    ASSUME IInv, CInv, NEW s \in Shards, FailWrite(s)
    PROVE  CInv'
<1>1. /\ run # Off /\ run \in Runs /\ run.at = "write" /\ JournalTypeOK
      /\ UNCHANGED <<journal, calls>> /\ troubles' = troubles + InFlight
  BY DEF FailWrite, IInv, JournalTypeOK
<1> DEFINE next == [run EXCEPT !.torn = @ \ {s}]
<1>2. run' = GivenUp(run) \/ run' = GivenUp(next)
  BY DEF FailWrite
<1>3. /\ next \in Runs /\ next.left = run.left /\ next.done = run.done
      /\ next.again = run.again /\ next.entry = run.entry
  BY <1>1 DEF Runs
<1> HIDE DEF next
<1>4. \/ run' = Off
      \/ /\ run'.at = "window" /\ run'.again = run.again
         /\ run'.left = run.left /\ run'.done = run.done
  BY <1>1, <1>2, <1>3 DEF GivenUp, Runs
<1>5. Asked' = 0
  BY <1>4 DEF Asked, InFlight
<1>6. RunSkips'
  BY <1>1, <1>4 DEF CInv, RunSkips
<1> QED
  BY <1>1, <1>5, <1>6, InTrouble

LEMMA FailRecordCounts ==
    ASSUME IInv, CInv, FailRecord
    PROVE  CInv'
<1>1. /\ run # Off /\ run \in Runs /\ run.at = "write" /\ JournalTypeOK
      /\ run.entry.window # NoWindow
      /\ UNCHANGED calls /\ troubles' = troubles + 1
      /\ journal' \in PartWritten(journal, {run.entry})
      /\ run' = [run EXCEPT !.at = "window", !.store = @ \cup run.entry.batch]
  BY DEF FailRecord, Staged, IInv, JournalTypeOK
<1>2. InFlight = 1
  BY <1>1 DEF InFlight
<1>3. /\ run'.at = "window" /\ run'.again = run.again
      /\ run'.left = run.left /\ run'.done = run.done
  BY <1>1 DEF Runs
<1>4. Asked' = 0
  BY <1>3 DEF Asked, InFlight
<1>5. journal'.held \subseteq journal.held \cup {run.entry}
  <2>1. \E Items : journal \in File(Items)
    BY <1>1 DEF JournalTypeOK
  <2>2. \E part \in SUBSET {run.entry} :
           \/ journal' = Written(journal, part)
           \/ journal' = [Written(journal, part) EXCEPT !.torn = TRUE]
    BY <1>1 DEF PartWritten
  <2> QED
    BY <2>1, <2>2 DEF Written, File
<1>6. RunSkips'
  BY <1>1, <1>3, <1>5 DEF CInv, RunSkips, WindowsOf
<1> QED
  BY <1>1, <1>2, <1>4, <1>6, InTrouble

LEMMA RecordCounts ==
    ASSUME IInv, CInv, Record
    PROVE  CInv'
<1> DEFINE e == run.entry
<1>1. /\ run # Off /\ run \in Runs /\ run.at = "write" /\ JournalTypeOK
      /\ e.window # NoWindow /\ UNCHANGED <<calls, troubles>>
      /\ journal' = Synced(Written(journal, {e}))
      /\ run' = [run EXCEPT !.at = "window", !.done = @ \cup {run.entry.window},
                            !.store = @ \cup run.entry.batch]
  BY DEF Record, Recorded, Staged, IInv, JournalTypeOK
<1>2. InFlight = 1
  BY <1>1 DEF InFlight
<1>3. /\ run'.at = "window" /\ run'.again = run.again
      /\ run'.left = run.left /\ run'.done = run.done \cup {e.window}
  BY <1>1 DEF Runs
<1>4. Asked' = 0
  BY <1>3 DEF Asked, InFlight
<1>5. /\ journal'.held = IF journal.torn THEN journal.held ELSE journal.held \cup {e}
      /\ journal'.behind = IF journal.torn THEN journal.behind \cup {e} ELSE journal.behind
      /\ journal'.torn = journal.torn
      /\ journal'.synced = Entered \cup {e} /\ Entered' = Entered \cup {e}
  <2>1. \E Items : journal \in File(Items)
    BY <1>1 DEF JournalTypeOK
  <2> HIDE DEF e
  <2> QED
    BY <1>1, <2>1 DEF Written, Synced, File, Entered
<1>6. RunSkips'
  BY <1>1, <1>3, <1>5 DEF CInv, RunSkips, WindowsOf
<1>7. FileSound'
  <2>1. IsFiniteSet(WindowsOf(Entered) \cup {e.window})
    BY FS_AddElement DEF CInv, FileSound
  <2>2. WindowsOf(Entered') = WindowsOf(Entered) \cup {e.window}
    BY <1>5 DEF WindowsOf
  <2> QED
    BY <1>5, <2>1, <2>2 DEF CInv, FileSound
<1>8. Counted'
  <2> HIDE DEF e
  <2> SUFFICES ASSUME journal'.synced \subseteq journal'.held
               PROVE  calls' <= Cardinality(WindowsOf(journal'.synced)) + troubles' + Asked'
    BY DEF Counted
  <2>1. journal.synced \subseteq journal.held
    BY <1>5 DEF CInv, FileSound, Entered
  <2>2. /\ journal.synced \subseteq journal'.synced
        /\ journal'.synced \subseteq Entered'
    BY <1>5 DEF CInv, FileSound
  <2>3. IsFiniteSet(WindowsOf(journal'.synced))
    <3>1. WindowsOf(journal'.synced) \subseteq WindowsOf(Entered')
      BY <2>2 DEF WindowsOf
    <3> QED
      BY <1>7, <3>1, FS_Subset DEF FileSound
  <2> DEFINE m == Cardinality(WindowsOf(journal.synced))
             n == Cardinality(WindowsOf(journal'.synced))
  <2>4. m \in Nat /\ n \in Nat /\ m <= n
    BY <2>2, <2>3, MoreWindows
  <2>5. ~run.again => m + 1 <= n
    <3>1. e.window \in WindowsOf(journal'.synced)
      BY <1>5 DEF WindowsOf
    <3>2. ~run.again => e.window \notin WindowsOf(journal.synced)
      <4>1. ~run.again => run.entry.window \notin WindowsOf(journal.held)
        BY <1>1 DEF CInv, RunSkips
      <4>2. WindowsOf(journal.synced) \subseteq WindowsOf(journal.held)
        BY <2>1 DEF WindowsOf
      <4> QED
        BY <4>1, <4>2 DEF e
    <3> QED
      BY <2>2, <2>3, <3>1, <3>2, MoreWindows
  <2>6. calls <= m + troubles + Asked
    BY <2>1 DEF CInv, Counted
  <2>7. Asked = IF run.again THEN 0 ELSE 1
    BY <1>2 DEF Asked
  <2>8. run.again \in BOOLEAN
    BY <1>1 DEF Runs
  <2> HIDE DEF m, n
  <2>9. calls' <= n + troubles' + Asked'
    BY <1>1, <1>4, <2>4, <2>5, <2>6, <2>7, <2>8 DEF CInv, Counts
  <2> QED
    BY <2>9 DEF n
<1> QED
  BY <1>1, <1>6, <1>7, <1>8 DEF CInv, Counts

LEMMA KillCounts ==
    ASSUME IInv, CInv, Kill
    PROVE  CInv'
<1>1. /\ run # Off /\ JournalTypeOK /\ run' = Off
      /\ UNCHANGED calls /\ troubles' = troubles + InFlight
      /\ \/ UNCHANGED journal
         \/ journal' \in PartWritten(journal, {run.entry})
  BY DEF Kill, IInv
<1>2. Asked' = 0 /\ RunSkips'
  BY <1>1 DEF Asked, InFlight, RunSkips
<1> QED
  BY <1>1, <1>2, InTrouble

(* What was synced is what is counted. *)
LEMMA PowerCounts ==
    ASSUME IInv, CInv, PowerFailure
    PROVE  CInv'
<1>1. /\ run = Off /\ run' = Off /\ UNCHANGED <<calls, troubles>>
      /\ journal' \in AfterPowerLoss(journal)
  BY DEF PowerFailure
<1>2. Asked = 0 /\ Asked' = 0 /\ RunSkips'
  BY <1>1 DEF Asked, InFlight, RunSkips
<1>3. PICK h \in [held : SUBSET journal.held, behind : SUBSET journal.behind,
                  torn : BOOLEAN, synced : {journal.synced}] :
          /\ journal.synced \subseteq h.held \cup h.behind
          /\ h.behind # {} => h.torn /\ h.held = journal.held
          /\ journal' = [h EXCEPT !.synced = h.held \cup h.behind]
  BY <1>1 DEF AfterPowerLoss
<1>4. /\ journal'.held \subseteq journal.held /\ journal'.behind \subseteq journal.behind
      /\ journal'.behind # {} => journal'.torn
      /\ journal'.synced = journal'.held \cup journal'.behind
      /\ journal.synced \subseteq journal'.synced
  BY <1>3
<1>5. FileSound'
  <2>1. WindowsOf(Entered') \subseteq WindowsOf(Entered)
    BY <1>4 DEF WindowsOf, Entered
  <2>2. IsFiniteSet(WindowsOf(Entered'))
    BY <2>1, FS_Subset DEF CInv, FileSound
  <2> QED
    BY <1>4, <2>2 DEF FileSound, Entered
<1>6. Counted'
  <2>1. journal'.synced \subseteq journal'.held => journal.synced \subseteq journal.held
    BY <1>4
  <2>2. IsFiniteSet(WindowsOf(journal'.synced))
    BY <1>4, <1>5 DEF FileSound, Entered
  <2>3. /\ Cardinality(WindowsOf(journal.synced)) \in Nat
        /\ Cardinality(WindowsOf(journal'.synced)) \in Nat
        /\ Cardinality(WindowsOf(journal.synced))
               <= Cardinality(WindowsOf(journal'.synced))
    BY <1>4, <2>2, MoreWindows
  <2> QED
    BY <1>1, <1>2, <2>1, <2>3 DEF CInv, Counted, Counts
<1> QED
  BY <1>1, <1>2, <1>5, <1>6 DEF CInv, Counts

LEMMA CountsInductive == Spec => []CInv
<1>1. Init => CInv
  <2> SUFFICES ASSUME Init PROVE CInv
    OBVIOUS
  <2>1. journal = Empty /\ run = Off /\ calls = 0 /\ troubles = 0
    BY DEF Init
  <2>2. WindowsOf({}) = {} /\ IsFiniteSet({}) /\ Cardinality({}) = 0
    BY FS_EmptySet DEF WindowsOf
  <2> QED
    BY <2>1, <2>2 DEF CInv, FileSound, RunSkips, Counted, Counts, Entered, Empty,
                      Asked, InFlight
<1>2. ASSUME IInv, CInv, [Next]_vars
      PROVE  CInv'
  <2>1. CASE UNCHANGED vars
    <3>1. UNCHANGED <<journal, calls, troubles, run>>
      BY <2>1 DEF vars
    <3> QED
      BY <1>2, <3>1, JournalAlone DEF CInv, RunSkips, Asked, InFlight
  <2>2. CASE Linked
    <3>1. Asked = 0
      BY <2>2 DEF Linked, Asked, InFlight
    <3> QED
      BY <1>2, <2>2, <3>1, OffCounts DEF Linked
  <2>3. CASE Next
    BY <1>2, <2>2, <2>3, StartCounts, ExtractCounts, WriteCounts, FailWriteCounts,
       RecordCounts, FailRecordCounts, LinkCounts, KillCounts, PowerCounts DEF Next
  <2> QED
    BY <1>2, <2>1, <2>3
<1> QED
  BY <1>1, <1>2, Inductive, PTL DEF Spec

(* However many runs there are, killed, failing and restarted wherever:    *)
(* while the journal can be read to its end, a window is extracted again,  *)
(* unasked, only if what became of it before was lost in flight            *)
(* (journal.rs:17, run.rs).                                                *)
THEOREM ResumeLosesLittle == Spec => []LosesOnlyInFlight
<1>1. IInv /\ CInv => LosesOnlyInFlight
  <2> SUFFICES ASSUME IInv, CInv, ~journal.torn
               PROVE  calls <= Cardinality({e.window : e \in journal.held})
                                  + troubles + InFlight
    BY DEF LosesOnlyInFlight
  <2>1. journal.behind = {} /\ journal.synced \subseteq journal.held
    BY DEF CInv, FileSound, Entered
  <2>2. IsFiniteSet(WindowsOf(journal.held))
    BY <2>1 DEF CInv, FileSound, Entered
  <2>3. /\ Cardinality(WindowsOf(journal.synced)) \in Nat
        /\ Cardinality(WindowsOf(journal.held)) \in Nat
        /\ Cardinality(WindowsOf(journal.synced)) <= Cardinality(WindowsOf(journal.held))
    BY <2>1, <2>2, MoreWindows
  <2>4. calls <= Cardinality(WindowsOf(journal.synced)) + troubles + Asked
    BY <2>1 DEF CInv, Counted
  <2>5. Asked \in Nat /\ InFlight \in Nat /\ Asked <= InFlight
    BY DEF Asked, InFlight
  <2>6. calls <= Cardinality(WindowsOf(journal.held)) + troubles + InFlight
    BY <2>3, <2>4, <2>5 DEF CInv, Counts
  <2> QED
    BY <2>6 DEF WindowsOf
<1> QED
  BY <1>1, Inductive, CountsInductive, PTL DEF Spec
=============================================================================
