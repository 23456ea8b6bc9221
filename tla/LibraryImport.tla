---------------------------- MODULE LibraryImport ----------------------------
(***************************************************************************)
(* Imports into a text library (crates/smysl-lib/src: import/mod.rs        *)
(* `import`, `promote`, `accept`, `discard`; tables.rs; access.rs          *)
(* `LibraryWrite`).                                                        *)
(*                                                                         *)
(* An import reads a file, appends a manifest that says so, and puts each  *)
(* record somewhere: into the library at once, or into the import's staged *)
(* file, its waiting file or its quarantine.  Tables say what state each   *)
(* import is in and which records wait; they are read whole once the       *)
(* library lock is held and written whole at the end.  Waiting records are *)
(* promoted by whatever accepts something.                                 *)
(*                                                                         *)
(* An import is of one file, and the manifest it appends is written as the *)
(* name of the import.  Left out: the `imported` table and the counts,     *)
(* which nothing decides by; files read together; originals kept; joins,   *)
(* which are one more staged import; refusing what brings contentions.     *)
(***************************************************************************)
EXTENDS TextLibrary, Classify

CONSTANTS Imports,     \* names of imports, and their manifests
          File,        \* what the file of an import holds
          MaxTroubles  \* bound: so often is a command killed, or started
                       \* beside another

ASSUME ImportShapes ==
    /\ Imports \subseteq Content /\ MaxTroubles \in Nat
    /\ Units \subseteq Content /\ Content \cap Objects = {}
    /\ File \in [Imports -> SUBSET ((Content \ Imports) \cup Objects)]
    /\ \A n \in Imports : IsFiniteSet(File[n])
    /\ Names \in [Content -> SUBSET (Content \cup Tids)]
    /\ Provides \in [Content -> SUBSET (Content \cup Tids)]

VARIABLES
    staged, waiting, quarantine,  \* the files of each import
    batches,   \* the batch table: the state of each import, or None
    rows,      \* the waiting table: the import each waiting record is under
    work,      \* what a command has worked out, and its copy of the tables
    gaveUp,    \* history: the imports whose discarding has begun
    troubles   \* history: how often that has happened

impvars  == <<staged, waiting, quarantine, batches, rows, work, gaveUp>>
vars     == <<libvars, impvars, troubles>>

States   == {None, "staged", "accepted", "discarded"}
Tables   == [batches : [Imports -> States], rows : [Content -> Imports \cup {None}]]

ImportTasks == [do : {"import", "stage", "accept", "discard"}, on : Imports]

(* What a command has worked out: the classes its import's records are in, *)
(* and the records `promote` is moving, of which import.                   *)
Sorted == [accepted : SUBSET (Content \cup Objects),
           waiting : SUBSET (Content \cup Objects),
           quarantined : SUBSET (Content \cup Objects)]
Moves  == [of : Imports, accepted : SUBSET Content, bad : SUBSET Content,
           gone : SUBSET Content]
Works  == [cls : Sorted \cup {None}, move : Moves \cup {None}, tables : Tables]

ASSUME NothingBegun ==
    /\ None \notin ImportTasks /\ None \notin Works /\ None \notin Sorted
    /\ None \notin Moves /\ None \notin Imports
    /\ None \notin {"staged", "accepted", "discarded"}

Init == /\ LibInit
        /\ staged = [n \in Imports |-> {}]
        /\ waiting = staged /\ quarantine = staged
        /\ batches = [n \in Imports |-> None]
        /\ rows = [r \in Content |-> None]
        /\ work = [c \in Commands |-> None]
        /\ gaveUp = {} /\ troubles = 0

-----------------------------------------------------------------------------
OnDisk     == [batches |-> batches, rows |-> rows]
Texts(rs)  == rs \cap Objects
Logged(rs) == rs \ Objects

(* The ids a library holds, beside those its records provide. *)
PartsOf(s) == {Of[r] : r \in Added(s)}

Classes(s, extra, incoming) ==
    ClassifyAll(s.held, PartsOf(s) \cup extra, incoming)

(* Text names nothing it would wait for. *)
WithText(cls, text) ==
    LET bad == {x \in text : <<x, x>> \in Findings}
    IN [cls EXCEPT !.accepted = @ \cup (text \ bad), !.quarantined = @ \cup bad]

(* Rule Z at the door: what the library has redacted, or the file does. *)
DoorRedacted(s, n) == Redacted(s) \cup (UNION {Redacts[r] : r \in Logged(File[n])})
TakenIn(s, n) == {r \in File[n] : r \in Objects => PartOf(r) \notin DoorRedacted(s, n)}

(* What the library does not hold: text by the object store as it is.      *)
Incoming(c, n) == TakenIn(snap[c], n) \ (snap[c].held \cup objects)

Doing(c, tasks) == op[c] # None /\ op[c].do \in tasks

Working(c, from, to) == Step(c, from, to) /\ UNCHANGED <<lock, op, temp, alone>>

-----------------------------------------------------------------------------
(* import: the tables, the classes, and then every write.                  *)
MayImport(c) == On(c) \notin snap[c].held /\ batches[On(c)] = None

ImportRefused(c) ==
    /\ pc[c] = "locked" /\ Doing(c, {"import", "stage"}) /\ ~MayImport(c)
    /\ LetGo(c) /\ UNCHANGED impvars

BeginImport(c) ==
    LET n    == On(c)
        in   == Incoming(c, n)
        cls  == WithText(Classes(snap[c], {}, Logged(in)), Texts(in))
        now  == op[c].do = "import"
    IN /\ Doing(c, {"import", "stage"}) /\ MayImport(c)
       /\ Working(c, "locked", "put")
       /\ todo' = [todo EXCEPT ![c] = IF now THEN Texts(cls.accepted) ELSE {}]
       /\ work' = [work EXCEPT ![c] =
             [cls |-> cls, move |-> None,
              tables |-> [batches |-> [batches EXCEPT ![n] =
                                          IF now THEN "accepted" ELSE "staged"],
                          rows |-> [r \in Content |->
                                       IF r \in cls.waiting THEN n ELSE rows[r]]]]]
       /\ UNCHANGED <<catalog, objects, snap, staged, waiting, quarantine,
                      batches, rows, gaveUp>>

(* The manifest, with what is accepted now. *)
ImportLog(c) ==
    /\ Doing(c, {"import", "stage"}) /\ todo[c] = {}
    /\ Working(c, "put", IF op[c].do = "import" THEN "waiting" ELSE "staging")
    /\ Record(c, {}, {}, {On(c)} \cup IF op[c].do = "import"
                                      THEN Logged(work[c].cls.accepted) ELSE {})
    /\ UNCHANGED <<objects, todo, impvars>>

WriteStaged(c) ==
    /\ Working(c, "staging", "waiting")
    /\ staged' = [staged EXCEPT ![On(c)] = work[c].cls.accepted]
    /\ UNCHANGED <<catalog, objects, snap, todo, waiting, quarantine, batches,
                   rows, work, gaveUp>>

WriteWaiting(c) ==
    /\ Working(c, "waiting", "apart")
    /\ waiting' = [waiting EXCEPT ![On(c)] = IF work[c].cls.waiting = {} THEN @
                                             ELSE work[c].cls.waiting]
    /\ UNCHANGED <<catalog, objects, snap, todo, staged, quarantine, batches,
                   rows, work, gaveUp>>

WriteQuarantine(c) ==
    /\ Working(c, "apart", IF op[c].do = "import" THEN "promote" ELSE "save")
    /\ quarantine' = [quarantine EXCEPT ![On(c)] =
                         IF work[c].cls.quarantined = {} THEN @
                         ELSE work[c].cls.quarantined]
    /\ UNCHANGED <<catalog, objects, snap, todo, staged, waiting, batches,
                   rows, work, gaveUp>>

-----------------------------------------------------------------------------
(* accept and discard, of a staged import. *)
NotStagedHeld(c) ==
    /\ pc[c] = "locked" /\ Doing(c, {"accept", "discard"})
    /\ batches[On(c)] # "staged" /\ KeepLock(c) /\ UNCHANGED impvars

NotStaged(c) ==
    /\ pc[c] = "locked" /\ Doing(c, {"accept", "discard"})
    /\ batches[On(c)] # "staged" /\ LetGo(c) /\ UNCHANGED impvars

BeginAcceptUnstaged(c) ==
    /\ Doing(c, {"accept"}) /\ batches[On(c)] = "staged"
    /\ Working(c, "locked", "put")
    /\ todo' = [todo EXCEPT ![c] = Texts(staged[On(c)])]
    /\ work' = [work EXCEPT ![c] =
          [cls |-> [accepted |-> staged[On(c)], waiting |-> {}, quarantined |-> {}],
           move |-> None,
           tables |-> [OnDisk EXCEPT !.batches[On(c)] = "accepted"]]]
    /\ staged' = [staged EXCEPT ![On(c)] = {}]
    /\ UNCHANGED <<catalog, objects, snap, waiting, quarantine, batches, rows,
                   gaveUp>>

BeginAccept(c) ==
    /\ Doing(c, {"accept"}) /\ batches[On(c)] = "staged"
    /\ Working(c, "locked", "put")
    /\ todo' = [todo EXCEPT ![c] = Texts(staged[On(c)])]
    /\ work' = [work EXCEPT ![c] =
          [cls |-> [accepted |-> staged[On(c)], waiting |-> {}, quarantined |-> {}],
           move |-> None,
           tables |-> [OnDisk EXCEPT !.batches[On(c)] = "accepted"]]]
    /\ UNCHANGED <<catalog, objects, snap, staged, waiting, quarantine,
                   batches, rows, gaveUp>>

AcceptLog(c) ==
    /\ Doing(c, {"accept"}) /\ todo[c] = {} /\ Working(c, "put", "unstage")
    /\ Record(c, {}, {}, Logged(work[c].cls.accepted))
    /\ UNCHANGED <<objects, todo, impvars>>

UnstageOnly(c) ==
    /\ Working(c, "unstage", IF op[c].do = "accept" THEN "save" ELSE "unwait")
    /\ staged' = [staged EXCEPT ![On(c)] = {}]
    /\ UNCHANGED <<catalog, objects, snap, todo, waiting, quarantine, batches,
                   rows, work, gaveUp>>

Unstage(c) ==
    /\ Working(c, "unstage", IF op[c].do = "accept" THEN "promote" ELSE "unwait")
    /\ staged' = [staged EXCEPT ![On(c)] = {}]
    /\ UNCHANGED <<catalog, objects, snap, todo, waiting, quarantine, batches,
                   rows, work, gaveUp>>

BeginDiscard(c) ==
    /\ Doing(c, {"discard"}) /\ batches[On(c)] = "staged"
    /\ Working(c, "locked", "unstage")
    /\ gaveUp' = gaveUp \cup {On(c)}
    /\ work' = [work EXCEPT ![c] =
          [cls |-> None, move |-> None,
           tables |-> [batches |-> [batches EXCEPT ![On(c)] = "discarded"],
                       rows |-> [r \in Content |-> IF rows[r] = On(c) THEN None
                                                   ELSE rows[r]]]]]
    /\ UNCHANGED <<catalog, objects, snap, todo, staged, waiting, quarantine,
                   batches, rows>>

Unwait(c) ==
    /\ Working(c, "unwait", "save")
    /\ waiting' = [waiting EXCEPT ![On(c)] = {}]
    /\ UNCHANGED <<catalog, objects, snap, todo, staged, quarantine, batches,
                   rows, work, gaveUp>>

-----------------------------------------------------------------------------
(* promote: again and again over the imports that have rows, as long as    *)
(* anything moves.                                                         *)
Move(c, n) ==
    LET t     == work[c].tables
        mine  == {r \in Logged(waiting[n]) : t.rows[r] = n}
        held  == mine \cap snap[c].held
        extra == IF t.batches[n] = "staged"
                 THEN Provided(Logged(staged[n])) ELSE {}
        cls   == Classes(snap[c], extra, mine \ held)
    IN [of |-> n, accepted |-> cls.accepted, bad |-> cls.quarantined,
        gone |-> cls.accepted \cup cls.quarantined \cup held]

Movable(c, n) == /\ work[c].tables.batches[n] \notin {None, "discarded"}
                 /\ Move(c, n).gone # {}

(* Where the import's content went: the library, or its staged file. *)
Promote(c) ==
    \E n \in Imports :
       LET m   == Move(c, n)
           now == work[c].tables.batches[n] = "accepted"
       IN /\ pc[c] = "promote" /\ Movable(c, n) /\ Working(c, "promote", "moved")
          /\ Record(c, {}, {}, IF now THEN m.accepted ELSE {})
          /\ staged' = [staged EXCEPT ![n] = IF now THEN @ ELSE @ \cup m.accepted]
          /\ work' = [work EXCEPT ![c].move = m]
          /\ UNCHANGED <<objects, todo, waiting, quarantine, batches, rows, gaveUp>>

SetApart(c) ==
    /\ Working(c, "moved", "shorten")
    /\ quarantine' = [quarantine EXCEPT ![work[c].move.of] = @ \cup work[c].move.bad]
    /\ UNCHANGED <<catalog, objects, snap, todo, staged, waiting, batches,
                   rows, work, gaveUp>>

ShortenFile(c) ==
    /\ Working(c, "shorten", "promote")
    /\ waiting' = [waiting EXCEPT ![work[c].move.of] = @ \ work[c].move.gone]
    /\ work' = [work EXCEPT ![c].move = None]
    /\ UNCHANGED <<catalog, objects, snap, todo, staged, quarantine, batches,
                   rows, gaveUp>>

Shorten(c) ==
    LET m == work[c].move
    IN /\ Working(c, "shorten", "promote")
       /\ waiting' = [waiting EXCEPT ![m.of] = @ \ m.gone]
       /\ work' = [work EXCEPT ![c].move = None,
                               ![c].tables.rows = [r \in Content |->
                                   IF r \in m.gone THEN None ELSE @[r]]]
       /\ UNCHANGED <<catalog, objects, snap, todo, staged, quarantine,
                      batches, rows, gaveUp>>

Promoted(c) ==
    /\ pc[c] = "promote" /\ \A n \in Imports : ~Movable(c, n)
    /\ Working(c, "promote", "save")
    /\ UNCHANGED <<catalog, objects, snap, todo, impvars>>

(* Tables::save: one file after another, each by a rename. *)
SaveBatches(c) ==
    /\ Working(c, "save", "rows") /\ batches' = work[c].tables.batches
    /\ UNCHANGED <<catalog, objects, snap, todo, staged, waiting, quarantine,
                   rows, work, gaveUp>>

SaveRows(c) ==
    /\ Working(c, "rows", "done") /\ rows' = work[c].tables.rows
    /\ work' = [work EXCEPT ![c] = None]
    /\ UNCHANGED <<catalog, objects, snap, todo, staged, waiting, quarantine,
                   batches, gaveUp>>

-----------------------------------------------------------------------------
ImportStep(c) ==
    \/ ImportRefused(c) \/ BeginImport(c) \/ ImportLog(c) \/ WriteStaged(c)
    \/ WriteWaiting(c) \/ WriteQuarantine(c) \/ NotStaged(c) \/ BeginAccept(c)
    \/ AcceptLog(c) \/ Unstage(c) \/ BeginDiscard(c) \/ Unwait(c) \/ Promote(c)
    \/ SetApart(c) \/ Shorten(c) \/ Promoted(c) \/ SaveBatches(c) \/ SaveRows(c)

Run(c) == /\ (LibStep(c) /\ UNCHANGED impvars) \/ ImportStep(c)
          /\ UNCHANGED troubles

Trouble == troubles < MaxTroubles /\ troubles' = troubles + 1

Start(c, task) == /\ Open(c, task) /\ UNCHANGED impvars
                  /\ IF Live = {} THEN UNCHANGED troubles ELSE Trouble

(* What a command is about to append to the logs. *)
Batch(c) ==
    IF pc[c] = "put" /\ todo[c] = {} /\ Doing(c, {"import", "stage"})
       THEN {On(c)} \cup IF op[c].do = "import"
                         THEN Logged(work[c].cls.accepted) ELSE {}
    ELSE IF pc[c] = "put" /\ todo[c] = {} /\ Doing(c, {"accept"})
       THEN Logged(work[c].cls.accepted)
    ELSE IF pc[c] = "promote"
       THEN UNION {Move(c, n).accepted :
                     n \in {m \in Imports : work[c].tables.batches[m] = "accepted"}}
    ELSE {}

(* Killed, perhaps with some of it in the logs, in whichever shards. *)
Crash(c) ==
    /\ Die(c) /\ Trouble
    /\ \E some \in SUBSET Batch(c) : catalog' = [catalog EXCEPT !.held = @ \cup some]
    /\ work' = [work EXCEPT ![c] = None]
    /\ UNCHANGED <<objects, staged, waiting, quarantine, batches, rows, gaveUp>>

Next == \/ \E c \in Commands : Run(c) \/ Crash(c)
        \/ \E c \in Commands, task \in TextTasks \cup ImportTasks : Start(c, task)
        \/ BreakLock /\ UNCHANGED <<impvars, troubles>>

Spec == Init /\ [][Next]_vars

-----------------------------------------------------------------------------
Writing == {"staging", "waiting", "apart", "unstage", "unwait", "promote",
            "moved", "shorten", "save", "rows"}

ImportTypeOK ==
    /\ catalog \in Catalogs /\ objects \subseteq Objects
    /\ \A f \in {staged, waiting, quarantine} :
          f \in [Imports -> SUBSET ((Content \ Imports) \cup Objects)]
    /\ OnDisk \in Tables
    /\ gaveUp \subseteq Imports /\ troubles \in 0 .. MaxTroubles
    /\ \A c \in Commands :
          /\ op[c] \in {None} \cup TextTasks \cup ImportTasks
          /\ pc[c] \in {"idle", "enforce", "opened"} \cup Locked \cup Writing
          /\ (op[c] = None) <=> (pc[c] = "idle")
          /\ (lock = c) <=> (pc[c] \in Locked \cup Writing)
          /\ pc[c] \in Writing => work[c] # None /\ work[c].tables \in Tables

Somewhere(r, n) ==
    \/ r \in catalog.held \cup staged[n] \cup waiting[n] \cup quarantine[n]
    \/ r \in objects
    \/ r \in Objects /\ PartOf(r) \in DoorRedacted(catalog, n)

(* Every record of a file that was imported is accepted, staged, waiting   *)
(* or quarantined, whoever is killed in the middle of what, unless it is   *)
(* the text of a redacted part or the import is being discarded            *)
(* (import/mod.rs `import`, `accept`, `promote`).                          *)
Retained == \A n \in Imports \ gaveUp :
                batches[n] # None => \A r \in File[n] : Somewhere(r, n)

Quiet == \A c \in Commands : pc[c] = "idle"
Clean == Quiet /\ troubles = 0

(***************************************************************************)
(* What an import brings is a matter of the record and of what it rests    *)
(* on.  This is what the files must be like for the order in which they    *)
(* come to leave no trace.                                                 *)
(***************************************************************************)
Records == UNION {Logged(File[n]) : n \in Imports}

(* Each id has one provider; no record names the manifest of an import. *)
OneProvider ==
    /\ \A r, p \in Content : r # p => Provides[r] \cap Provides[p] = {}
    /\ \A r \in Records : Names[r] \cap Provided(Imports) = {}

(* Ids are hashes over what is named, so some record of any rests on none. *)
NoCircle == \A S \in SUBSET Records :
                S # {} => \E r \in S : Names[r] \cap Provided(S) = {}

RestsOn(u, v) ==
    \A S \in SUBSET Records :
       u \in S /\ (\A r \in S, p \in Records :
                    Provides[p] \cap Names[r] # {} => p \in S)
          => v \in S

Faulty == {u \in Records \cap Units : \E v \in Content : <<u, v>> \in Findings}

(* A finding is about a unit (no pass of smysl-check makes one about       *)
(* another record, diag.rs `on_record`), by itself or beside one that it   *)
(* rests on and that came in another file; and what rests on such a unit   *)
(* and has one itself names one.                                           *)
OwnFindings ==
    /\ \A u \in Records \cap Units : u \in Provides[u] /\ u \notin Direct
    /\ \A r \in Records, v \in Content : <<r, v>> \in Findings => r \in Units
    /\ \A u \in Records \cap Units, v \in Content :
          <<u, v>> \in Findings /\ u # v =>
             RestsOn(u, v) /\ \A n \in Imports : ~({u, v} \subseteq File[n])
    /\ \A u, v \in Faulty :
          u # v /\ RestsOn(u, v) => Names[u] \cap (Faulty \ {u}) # {}

Independent == IsFiniteSet(Records) /\ OneProvider /\ NoCircle /\ OwnFindings

(* Whatever order files are imported, staged and accepted in, the library  *)
(* holds the records, and the quarantines the units, that importing them   *)
(* all at once would have put there (classify.rs:23, "the same whatever    *)
(* order the records arrive in"): so it is of files like these.            *)
OrderFree ==
    LET imported == {n \in Imports : batches[n] # None}
        atOnce   == ClassifyAll({}, {}, UNION {Logged(File[n]) : n \in imported})
    IN Independent /\ Clean /\ catalog.versions = {}
          /\ (\A n \in imported : batches[n] = "accepted")
          => /\ catalog.held \ Imports = atOnce.accepted
             /\ Units \cap (UNION {quarantine[n] : n \in imported})
                   = Units \cap atOnce.quarantined

(* What waits, waits for something the library does not hold: whatever     *)
(* arrives promotes all that waited for it, and all that waited for that   *)
(* (classify.rs:8, import/mod.rs:8 and `promote`).  What a record in the   *)
(* same waiting file provides is not held while that record waits, whoever *)
(* else provides it (classify.rs:237), and neither `stage`'s manifest nor  *)
(* a document added promotes anything.                                     *)
WaitsForMissing ==
    Clean => \A r \in Content :
        LET n == rows[r]
            beside == Logged(waiting[n]) \ catalog.held
        IN n # None => ~(Names[r] \subseteq
                            Provided(catalog.held \ Imports) \ Provided(beside))

(* Promoting ends: each round leaves fewer records waiting than the one    *)
(* before it, or is the last (import/mod.rs `promote`, `moved == 0`).      *)
Left(c) == {r \in Content : work[c].tables.rows[r] # None}

RoundsShrink ==
    [][\A c \in Commands : pc[c] = "shorten" /\ pc'[c] = "promote" =>
          Left(c)' \subseteq Left(c) /\ Left(c)' # Left(c)]_vars
=============================================================================
