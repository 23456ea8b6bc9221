----------------------------- MODULE IngestJournal -----------------------------
(***************************************************************************)
(* A text taken window by window into a library, and the journal that lets *)
(* a run go on where one before it ended (crates/smysl-ingest/src/text:    *)
(* run.rs, journal.rs; Library::append_records and ShardLog::append in     *)
(* crates/smysl-text/src).                                                 *)
(*                                                                         *)
(* One run at a time: `ingest --text` takes no lock, and two runs that     *)
(* both find torn bytes each cut what the other has written.  A file is    *)
(* what is read of it, and what has been written behind torn bytes, where  *)
(* nothing is read; the order within either is left out.  An open may also *)
(* refuse a log with something behind torn bytes, and then no run starts.  *)
(***************************************************************************)
EXTENDS FiniteSets, Naturals

CONSTANTS Windows,   \* the windows of the text
          Shards,    \* the logs of the library
          ShardOf,   \* the log each record belongs in
          Answers,   \* for each window, the sets of units it may yield,
                     \* what stands in for an answer that failed among them
          Ends,      \* the reply edges, and the units each one joins
          NoWindow,  \* what the edges are written for
          Off,       \* no run
          MaxRuns    \* bound: so many runs are started

Records == DOMAIN ShardOf
Edges   == DOMAIN Ends

(* What a run remembers: how far it has got, whether it was told to        *)
(* extract again, the windows it takes for done and has left, the records  *)
(* and torn logs it found, whether it has met an error, and the entry it   *)
(* is writing with the logs that has still to go to.                       *)
Entries == [window : Windows \cup {NoWindow}, batch : SUBSET Records]

Runs == [at : {"window", "write"}, again : BOOLEAN, done : SUBSET Windows,
         left : SUBSET Windows, store : SUBSET Records, torn : SUBSET Shards,
         clean : BOOLEAN, entry : Entries, todo : SUBSET Shards]

ASSUME JournalShapes ==
    /\ NoWindow \notin Windows /\ Off \notin Runs
    /\ ShardOf \in [Records -> Shards]
    /\ Answers \in [Windows -> SUBSET SUBSET Records]
    /\ Edges \subseteq Records /\ Ends \in [Edges -> SUBSET (Records \ Edges)]

VARIABLES
    logs,      \* of each shard
    journal,   \* its file; entries are [window, batch]
    run,       \* the run that is going on
    buried,    \* history: what was written behind torn bytes
    calls,     \* history: windows extracted unasked
    troubles,  \* history: windows whose extraction came to nothing
    starts

vars == <<logs, journal, run, buried, calls, troubles, starts>>

-----------------------------------------------------------------------------
(* Files.                                                                  *)
Empty == [held |-> {}, behind |-> {}, torn |-> FALSE, synced |-> {}]

Written(f, items) == IF f.torn THEN [f EXCEPT !.behind = @ \cup items]
                               ELSE [f EXCEPT !.held = @ \cup items]

Synced(f) == [f EXCEPT !.synced = f.held \cup f.behind]

Cut(f) == [f EXCEPT !.behind = {}, !.torn = FALSE, !.synced = @ \cap f.held]

(* A write that does not end, or is not synced: some of it, and bytes of   *)
(* the next item.                                                          *)
PartWritten(f, items) ==
    {Written(f, part) : part \in SUBSET items} \cup
    {[Written(f, part) EXCEPT !.torn = TRUE] : part \in SUBSET items \ {items}}

(* What has not been synced is there or not, and may end in torn bytes.    *)
AfterPowerLoss(f) ==
    {[g EXCEPT !.synced = g.held \cup g.behind] :
        g \in {h \in [held : SUBSET f.held, behind : SUBSET f.behind,
                      torn : BOOLEAN, synced : {f.synced}] :
                 /\ f.synced \subseteq h.held \cup h.behind
                 /\ h.behind # {} => h.torn /\ h.held = f.held
                 /\ h.torn => f.torn \/ h.held # f.held}}

Held == UNION {logs[s].held : s \in Shards}

Init == /\ logs = [s \in Shards |-> Empty] /\ journal = Empty
        /\ run = Off
        /\ buried = {} /\ calls = 0 /\ troubles = 0 /\ starts = 0

-----------------------------------------------------------------------------
(* What the journal says is done.  Behind a torn entry the lengths are     *)
(* read in the wrong places, and any of the entries may be found.          *)
Done(found) == {e.window : e \in journal.held \cup found}

(* A run reads the logs and the journal; asked to extract again, it        *)
(* forgets what it has read of the latter.                                 *)
Start(again) ==
    /\ run = Off /\ starts < MaxRuns
    /\ \E found \in SUBSET journal.behind :
          run' = [at    |-> "window",
                  again |-> again,
                  done  |-> IF again THEN {} ELSE Done(found),
                  left  |-> Windows,
                  store |-> Held,
                  torn  |-> {s \in Shards : logs[s].torn},
                  clean |-> TRUE,
                  entry |-> [window |-> NoWindow, batch |-> {}],
                  todo  |-> {}]
    /\ starts' = starts + 1
    /\ UNCHANGED <<logs, journal, buried, calls, troubles>>

(* Every unit is staged with an attestation of the run, so that each shard *)
(* of a batch is written to even if it has the units.                      *)
Stage(entry) == [run EXCEPT !.at = "write", !.entry = entry,
                            !.todo = {ShardOf[r] : r \in entry.batch},
                            !.left = @ \ {entry.window}]

Extract(w) ==
    /\ run # Off /\ run.at = "window" /\ w \in run.left \ run.done
    /\ \E batch \in Answers[w] :
          run' = Stage([window |-> w, batch |-> batch])
    /\ calls' = IF run.again THEN calls ELSE calls + 1
    /\ UNCHANGED <<logs, journal, buried, troubles, starts>>

-----------------------------------------------------------------------------
(* append_records: the logs one after another, each cut first of what was  *)
(* torn when the run began.                                                *)
Part(s) == {r \in run.entry.batch \ run.store : ShardOf[r] = s}

Before(s) == IF s \in run.torn THEN Cut(logs[s]) ELSE logs[s]

AppendedUnsynced(s) == Written(Before(s), Part(s))

Appended(s) == Synced(Written(Before(s), Part(s)))

WriteShard(s) ==
    /\ run # Off /\ run.at = "write" /\ s \in run.todo
    /\ logs' = [logs EXCEPT ![s] = Appended(s)]
    /\ buried' = IF Before(s).torn THEN buried \cup Part(s) ELSE buried
    /\ run' = [run EXCEPT !.todo = @ \ {s}, !.torn = @ \ {s}]
    /\ UNCHANGED <<journal, calls, troubles, starts>>

(* It fails: the batch is given up, and the run goes on with the next      *)
(* window, or ends if it was at the edges.                                 *)
GivenUp(r) == IF r.entry.window = NoWindow THEN Off
              ELSE [r EXCEPT !.at = "window", !.clean = FALSE, !.todo = {}]

(* A window whose answer is not recorded yet.                              *)
InFlight == IF run # Off /\ run.at = "write" /\ run.entry.window # NoWindow
            THEN 1 ELSE 0

FailWrite(s) ==
    /\ run # Off /\ run.at = "write" /\ s \in run.todo
    /\ \/ /\ \E f \in PartWritten(Before(s), Part(s)) :
                logs' = [logs EXCEPT ![s] = f]
          /\ run' = GivenUp([run EXCEPT !.torn = @ \ {s}])
       \/ UNCHANGED logs /\ run' = GivenUp(run)
    /\ troubles' = troubles + InFlight
    /\ UNCHANGED <<journal, buried, calls, starts>>

Staged == run # Off /\ run.at = "write" /\ run.todo = {}

(* Commit, then journal.                                                   *)
RecordedOver == Synced(Written(Empty, {run.entry}))

Recorded == Synced(Written(journal, {run.entry}))

Record ==
    /\ Staged /\ run.entry.window # NoWindow
    /\ journal' = Recorded
    /\ run' = [run EXCEPT !.at = "window", !.done = @ \cup {run.entry.window},
                          !.store = @ \cup run.entry.batch]
    /\ UNCHANGED <<logs, buried, calls, troubles, starts>>

FailRecord ==
    /\ Staged /\ run.entry.window # NoWindow
    /\ journal' \in PartWritten(journal, {run.entry})
    /\ run' = [run EXCEPT !.at = "window", !.store = @ \cup run.entry.batch]
    /\ troubles' = troubles + 1
    /\ UNCHANGED <<logs, buried, calls, starts>>

-----------------------------------------------------------------------------
(* When every window is in: edges between all that the store holds of the  *)
(* text, whichever run drew it.                                            *)
Between(records) == {e \in Edges : Ends[e] \subseteq records}

DrawnOfLast == Between(run.entry.batch) \ run.store

Drawn == Between(run.store) \ run.store

Link ==
    /\ run # Off /\ run.at = "window" /\ run.left \subseteq run.done
    /\ run' = IF Drawn = {} THEN Off
              ELSE Stage([window |-> NoWindow, batch |-> Drawn])
    /\ UNCHANGED <<logs, journal, buried, calls, troubles, starts>>

Linked ==
    /\ Staged /\ run.entry.window = NoWindow
    /\ run' = Off
    /\ UNCHANGED <<logs, journal, buried, calls, troubles, starts>>

-----------------------------------------------------------------------------
(* The process is killed, in the middle of a write or not.                 *)
Kill ==
    /\ run # Off
    /\ \/ UNCHANGED <<logs, journal>>
       \/ /\ \E s \in run.todo : \E f \in PartWritten(Before(s), Part(s)) :
                logs' = [logs EXCEPT ![s] = f]
          /\ UNCHANGED journal
       \/ /\ Staged /\ run.entry.window # NoWindow
          /\ journal' \in PartWritten(journal, {run.entry})
          /\ UNCHANGED logs
    /\ run' = Off
    /\ troubles' = troubles + InFlight
    /\ UNCHANGED <<buried, calls, starts>>

(* The power fails; of a run, after it was killed.                         *)
PowerFailure ==
    /\ run = Off
    /\ journal' \in AfterPowerLoss(journal)
    /\ logs' \in {after \in [Shards -> UNION {AfterPowerLoss(logs[s]) : s \in Shards}] :
                     \A s \in Shards : after[s] \in AfterPowerLoss(logs[s])}
    /\ UNCHANGED <<run, buried, calls, troubles, starts>>

Next == \/ \E again \in BOOLEAN : Start(again)
        \/ \E w \in Windows : Extract(w)
        \/ \E s \in Shards : WriteShard(s) \/ FailWrite(s)
        \/ Record \/ FailRecord \/ Link \/ Linked
        \/ Kill \/ PowerFailure

Spec == Init /\ [][Next]_vars

-----------------------------------------------------------------------------
(* "The mode that would be unrecoverable, a window recorded as done that   *)
(* was never staged, cannot happen" (journal.rs:24): the batch of every    *)
(* entry a run may find is in the logs, but for what was written behind    *)
(* the bytes of an append that had failed in the same run.                 *)
JournalledStaged ==
    \A e \in journal.held \cup journal.behind : e.batch \subseteq Held \cup buried

(* "Resume loses at most the batch in flight" (journal.rs:17): as long as  *)
(* no entry is torn, a window is extracted a second time, unasked, only if *)
(* an extraction of it was killed, or could not be written, or recorded.   *)
LosesOnlyInFlight ==
    ~journal.torn =>
        calls <= Cardinality({e.window : e \in journal.held}) + troubles + InFlight

(* A run that met no error leaves every edge between what the library      *)
(* holds of the text, whichever runs staged its ends and whichever of them *)
(* were killed before they came to the edges (run.rs:25).                  *)
RepliesDrawn ==
    [][((Link /\ Drawn = {}) \/ Linked) /\ run.clean
          => Between(Held) \subseteq Held \cup buried]_vars
=============================================================================
