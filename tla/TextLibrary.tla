----------------------------- MODULE TextLibrary -----------------------------
(***************************************************************************)
(* A text library (crates/smysl-text/src: library.rs `open`, `enforce_z`,  *)
(* `add_with`, `append`, `redact`, `append_records`, `head`; objects.rs;   *)
(* lock.rs `acquire_all`; main.rs `with_library`, `text_add`,              *)
(* `text_append`, `text_redact`): a catalog of records, and an object      *)
(* store with the texts of parts and their readings, which no log holds.   *)
(*                                                                         *)
(* A command opens the library, which reads the whole catalog and unlinks  *)
(* what it finds redacted, and only then takes the library lock.  It goes  *)
(* by the catalog as it read it until it exits.  Commands that only read   *)
(* open the library too, and take no lock.                                 *)
(*                                                                         *)
(* The catalog only grows and is absorbed in no particular order, so it is *)
(* a record of sets.  A version of the one expression is the sequence of   *)
(* documents it was made from: its manifest supersedes the version without *)
(* the last of them.  A reading names its part, as an entry of a manifest  *)
(* names both.  The agents and times of redactions are left out.           *)
(***************************************************************************)
EXTENDS FiniteSets, SequencesExt

CONSTANTS Commands,    \* processes that open the library
          Docs,        \* documents that may be added
          Tids,        \* parts, each standing for its text
          Readings,    \* readings, each of one part
          Of,          \* the part a reading is of
          Entries,     \* the readings in the manifest of a document
          Content,     \* records of other kinds
          Carries,     \* the readings a record names, if it is a manifest
          Redacts,     \* the part a record redacts, if it is a redaction
          MaxVersions, \* bound: no expression has more versions
          None

ASSUME Shapes ==
    /\ Of \in [Readings -> Tids]
    /\ Entries \in [Docs -> SUBSET Readings]
    /\ Carries \in [Content -> SUBSET Readings]
    /\ Redacts \in [Content -> SUBSET Tids]
    /\ MaxVersions \in Nat
    /\ None \notin Commands \cup {"dead"} /\ "dead" \notin Commands
    /\ Tids \cap Readings = {}

VARIABLES
    catalog,   \* the records of the library's logs
    objects,   \* the parts and readings in the object store
    temp,      \* what is in objects/tmp, with the process that wrote it
    lock,      \* the library lock: a command, "dead" if it died, or None
    pc,        \* where each command is
    op,        \* what each command came to do
    snap,      \* the catalog as it knows it
    todo,      \* the objects it has still to write, or to unlink
    alone      \* history: no other command has run beside it

libvars == <<catalog, objects, temp, lock, pc, op, snap, todo, alone>>

Objects  == Tids \cup Readings
Versions == {v \in Seq(Docs) : v # <<>>}
Catalogs == [versions : SUBSET Versions, redacted : SUBSET Tids,
             held : SUBSET Content]

(* What a version that another may still follow is named by. *)
Mids == UNION {[1..n -> Docs] : n \in 1 .. MaxVersions - 1}

(* What a command came to do, and with what; an append to the version it   *)
(* names, or to the head of the expression.                                *)
TextTasks == [do : {"look"}, on : {None}]
             \cup [do : {"add"}, on : Docs]
             \cup [do : {"append"}, on : Docs, to : {None} \cup Mids]
             \cup [do : {"redact"}, on : Tids]

ASSUME NothingIsThere == None \notin Catalogs /\ None \notin TextTasks

LibInit == /\ catalog = [versions |-> {}, redacted |-> {}, held |-> {}]
           /\ objects = {} /\ temp = {} /\ lock = None
           /\ pc = [c \in Commands |-> "idle"]
           /\ op = [c \in Commands |-> None]
           /\ snap = [c \in Commands |-> None]
           /\ todo = [c \in Commands |-> {}]
           /\ alone = [c \in Commands |-> FALSE]

-----------------------------------------------------------------------------
(* What a catalog says: store/library.rs.                                  *)

Redacted(s) == s.redacted \cup (UNION {Redacts[r] : r \in s.held})

(* The readings the added documents have, and those some manifest names. *)
Added(s) == UNION {Entries[Last(v)] : v \in s.versions}
Named(s) == Added(s) \cup (UNION {Carries[r] : r \in s.held})

PartOf(x) == IF x \in Tids THEN x ELSE Of[x]

(* The readings of these parts that some manifest names. *)
NamedOf(s, parts) == {r \in Named(s) : Of[r] \in parts}

(* A manifest nothing supersedes. *)
Heads(s) == {v \in s.versions : \A w \in s.versions : Front(w) # v}

-----------------------------------------------------------------------------
Goto(c, where)    == pc' = [pc EXCEPT ![c] = where]
Step(c, from, to) == pc[c] = from /\ Goto(c, to)
Is(c, what)       == op[c] # None /\ op[c].do = what
On(c)             == op[c].on
Live              == {c \in Commands : pc[c] # "idle"}

(* The process ends: what it held goes with it. *)
Exit(c) == /\ Goto(c, "idle")
           /\ op' = [op EXCEPT ![c] = None]
           /\ snap' = [snap EXCEPT ![c] = None]
           /\ todo' = [todo EXCEPT ![c] = {}]
           /\ alone' = [alone EXCEPT ![c] = FALSE]

(* Records go into the log and into the store this command has open. *)
Record(c, versions, redacted, held) ==
    LET with(s) == [versions |-> s.versions \cup versions,
                    redacted |-> s.redacted \cup redacted,
                    held |-> s.held \cup held]
    IN /\ catalog' = with(catalog)
       /\ snap' = [snap EXCEPT ![c] = with(snap[c])]

-----------------------------------------------------------------------------
(* Opening: the records first, then rule Z over what they say.             *)
OpenParts(c, task) ==
    /\ Step(c, "idle", "enforce")
    /\ op' = [op EXCEPT ![c] = task]
    /\ snap' = [snap EXCEPT ![c] = catalog]
    /\ todo' = [todo EXCEPT ![c] = Redacted(catalog)]
    /\ alone' = [d \in Commands |-> d = c /\ Live = {}]
    /\ UNCHANGED <<catalog, objects, temp, lock>>

Open(c, task) ==
    /\ Step(c, "idle", "enforce")
    /\ op' = [op EXCEPT ![c] = task]
    /\ snap' = [snap EXCEPT ![c] = catalog]
    /\ todo' = [todo EXCEPT ![c] = Redacted(catalog)
                                   \cup NamedOf(catalog, Redacted(catalog))]
    /\ alone' = [d \in Commands |-> d = c /\ Live = {}]
    /\ UNCHANGED <<catalog, objects, temp, lock>>

(* remove_part, then remove_reading: no object is success. *)
Unlink(c) ==
    /\ pc[c] \in {"enforce", "unlink"}
    /\ \E x \in todo[c] :
          /\ x \in Readings => todo[c] \cap Tids = {}
          /\ objects' = objects \ {x}
          /\ todo' = [todo EXCEPT ![c] = @ \ {x}]
    /\ UNCHANGED <<catalog, temp, lock, pc, op, snap, alone>>

Enforced(c) ==
    /\ Step(c, "enforce", "opened") /\ todo[c] = {}
    /\ UNCHANGED <<catalog, objects, temp, lock, op, snap, todo, alone>>

Looked(c) == /\ pc[c] = "opened" /\ Is(c, "look") /\ Exit(c)
             /\ UNCHANGED <<catalog, objects, temp, lock>>

(* acquire_all: another holder, dead or alive, is SMY-E445. *)
Acquire(c) == /\ Step(c, "opened", "locked") /\ ~Is(c, "look")
              /\ lock = None /\ lock' = c
              /\ UNCHANGED <<catalog, objects, temp, op, snap, todo, alone>>

AcquireRefused(c) == /\ pc[c] = "opened" /\ ~Is(c, "look")
                     /\ lock # None /\ Exit(c)
                     /\ UNCHANGED <<catalog, objects, temp, lock>>

(* The command is over, or its operation returned early: the lock's drop. *)
KeepLock(c) == Exit(c) /\ UNCHANGED <<catalog, objects, temp, lock>>

LetGo(c) == lock' = None /\ Exit(c) /\ UNCHANGED <<catalog, objects, temp>>

Finish(c) == pc[c] = "done" /\ LetGo(c)

-----------------------------------------------------------------------------
(* Library::add and Library::append.  What an append supersedes is the     *)
(* version it was given, or else the one head: not one of several.  It     *)
(* must be able to read all the readings of that.                          *)

Target(c) == IF op[c].to = None THEN Heads(snap[c])
             ELSE {op[c].to} \cap snap[c].versions

Readable(c, v) == \A r \in Entries[Last(v)] :
                     r \in objects /\ Of[r] \notin Redacted(snap[c])

MayAppend(c) == /\ Cardinality(Target(c)) = 1
                /\ \A v \in Target(c) : Readable(c, v)

(* The version an add or an append makes of the catalog it knows. *)
Previous(c) == IF Is(c, "append") THEN CHOOSE v \in Target(c) : TRUE
               ELSE <<>>
Version(c)  == Append(Previous(c), On(c))

(* The parts redacted here are left out, their readings with them. *)
ToPut(c) == LET kept == {r \in Entries[On(c)] : Of[r] \notin Redacted(snap[c])}
            IN kept \cup {Of[r] : r \in kept}

BeginAdd(c) ==
    /\ Step(c, "locked", "put")
    /\ Is(c, "add") \/ (Is(c, "append") /\ MayAppend(c))
    /\ Len(Version(c)) <= MaxVersions
    /\ todo' = [todo EXCEPT ![c] = ToPut(c)]
    /\ UNCHANGED <<catalog, objects, temp, lock, op, snap, alone>>

AppendRefused(c) == pc[c] = "locked" /\ Is(c, "append") /\ ~MayAppend(c) /\ LetGo(c)

(* ObjectStore::write: nothing when the object is there, else the bytes to *)
(* objects/tmp under the process's own name, and a rename.  A part is put  *)
(* before its readings.                                                    *)
Next1(c, x) == x \in todo[c] /\ (x \in Readings => Of[x] \notin todo[c])

PutHeld(c) ==
    /\ pc[c] = "put"
    /\ \E x \in objects : Next1(c, x) /\ todo' = [todo EXCEPT ![c] = @ \ {x}]
    /\ UNCHANGED <<catalog, objects, temp, lock, pc, op, snap, alone>>

PutTemp(c) ==
    /\ Step(c, "put", "rename")
    /\ \E x \in Objects \ objects : Next1(c, x) /\ temp' = temp \cup {<<c, x>>}
    /\ UNCHANGED <<catalog, objects, lock, op, snap, todo, alone>>

PutRename(c) ==
    /\ Step(c, "rename", "put")
    /\ \E x \in todo[c] : /\ <<c, x>> \in temp /\ temp' = temp \ {<<c, x>>}
                          /\ objects' = objects \cup {x}
                          /\ todo' = [todo EXCEPT ![c] = @ \ {x}]
    /\ UNCHANGED <<catalog, lock, op, snap, alone>>

AddingEarly(c) == (Is(c, "add") \/ Is(c, "append")) /\ pc[c] = "put"

Adding(c)  == (Is(c, "add") \/ Is(c, "append")) /\ pc[c] = "put" /\ todo[c] = {}
SameAgain(c) == Is(c, "append") /\ Entries[Last(Previous(c))] = Entries[On(c)]

Unchanged(c) == Adding(c) /\ SameAgain(c) /\ LetGo(c)

AddManifest(c) ==
    /\ Adding(c) /\ ~SameAgain(c)
    /\ Goto(c, "done") /\ Record(c, {Version(c)}, {}, {})
    /\ UNCHANGED <<objects, temp, lock, op, todo, alone>>

-----------------------------------------------------------------------------
(* Library::redact: the record, and only then the bytes. *)
RedactNamed(c) ==
    /\ Is(c, "redact") /\ Step(c, "locked", "unlink")
    /\ Record(c, {}, {On(c)} \cap {Of[r] : r \in Named(snap[c])}, {})
    /\ todo' = [todo EXCEPT ![c] = {On(c)} \cup NamedOf(snap[c], {On(c)})]
    /\ UNCHANGED <<objects, temp, lock, op, alone>>

Redact(c) ==
    /\ Is(c, "redact") /\ Step(c, "locked", "unlink")
    /\ Record(c, {}, {On(c)}, {})
    /\ todo' = [todo EXCEPT ![c] = {On(c)} \cup NamedOf(snap[c], {On(c)})]
    /\ UNCHANGED <<objects, temp, lock, op, alone>>

RedactDone(c) ==
    /\ Step(c, "unlink", "done") /\ todo[c] = {}
    /\ UNCHANGED <<catalog, objects, temp, lock, op, snap, todo, alone>>

-----------------------------------------------------------------------------
(* A command may be killed anywhere.  Its lock stays until an operator has *)
(* found it dead and breaks it, its file in objects/tmp for good.          *)
Die(c) ==
    /\ pc[c] # "idle" /\ Exit(c)
    /\ lock' = IF lock = c THEN "dead" ELSE lock
    /\ temp' = {<<IF t[1] = c THEN "dead" ELSE t[1], t[2]>> : t \in temp}

Kill(c) == Die(c) /\ UNCHANGED <<catalog, objects>>

BreakLock == /\ lock = "dead" /\ lock' = None
             /\ UNCHANGED <<catalog, objects, temp, pc, op, snap, todo, alone>>

LibStep(c) == \/ Unlink(c) \/ Enforced(c) \/ Looked(c) \/ Acquire(c)
              \/ AcquireRefused(c) \/ Finish(c) \/ BeginAdd(c)
              \/ AppendRefused(c) \/ PutHeld(c) \/ PutTemp(c) \/ PutRename(c)
              \/ Unchanged(c) \/ AddManifest(c) \/ Redact(c) \/ RedactDone(c)

TextNext == \/ \E c \in Commands : LibStep(c) \/ Kill(c)
            \/ \E c \in Commands, task \in TextTasks : Open(c, task)
            \/ BreakLock

TextSpec == LibInit /\ [][TextNext]_libvars

-----------------------------------------------------------------------------
Locked == {"locked", "put", "rename", "unlink", "done"}

LibTypeOK ==
    /\ catalog \in Catalogs
    /\ objects \subseteq Objects
    /\ temp \subseteq (Commands \cup {"dead"}) \X Objects
    /\ lock \in Commands \cup {"dead", None}
    /\ pc \in [Commands -> {"idle", "enforce", "opened"} \cup Locked]
    /\ op \in [Commands -> {None} \cup TextTasks]
    /\ snap \in [Commands -> {None} \cup Catalogs]
    /\ todo \in [Commands -> SUBSET Objects]
    /\ alone \in [Commands -> BOOLEAN]
    /\ \A c \in Commands : /\ (op[c] = None) <=> (pc[c] = "idle")
                           /\ (snap[c] = None) <=> (pc[c] = "idle")
                           /\ (lock = c) <=> (pc[c] \in Locked)

(* Rule Z: a command that has opened the library, with no other beside it, *)
(* finds in the object store no part its catalog has redacted and no       *)
(* reading of one that a manifest names, whatever was killed before        *)
(* (library.rs `enforce_z`, `redact`, and the door of `add_with`).         *)
RuleZ ==
    \A c \in Commands : pc[c] \in {"opened", "locked"} /\ alone[c] =>
        objects \cap (Redacted(snap[c]) \cup NamedOf(snap[c], Redacted(snap[c]))) = {}

(* What a manifest of an added document names is held, as text and as a    *)
(* reading, unless its part has been redacted: objects first, then the     *)
(* record, and nobody unlinks another's (library.rs `add_with`, :1341).    *)
Backed == \A v \in catalog.versions : \A r \in Entries[Last(v)] :
              Of[r] \in Redacted(catalog) \/ {r, Of[r]} \subseteq objects

(* No object leaves the store before the catalog says why: "the other      *)
(* order leaves bytes gone with nothing to say why" (library.rs:702).      *)
RedactedFirst ==
    [][\A x \in objects \ objects' : PartOf(x) \in Redacted(catalog)]_libvars
=============================================================================
