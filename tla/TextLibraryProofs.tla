-------------------------- MODULE TextLibraryProofs --------------------------
(***************************************************************************)
(* What holds of a text library for every set of commands, documents,      *)
(* parts and readings, whoever is killed and however stale the catalog a   *)
(* command goes by.                                                        *)
(***************************************************************************)
EXTENDS TextLibrary, SequenceTheorems, FiniteSetTheorems, TLAPS

-----------------------------------------------------------------------------
(***************************************************************************)
(* The inductive invariant.  Backed is not inductive by itself: what a     *)
(* command has still to put must be known while it puts it, and what a     *)
(* command unlinks must be of parts redacted in the catalog as it is, not  *)
(* only in the catalog it opened.  Redactions are never taken back, which  *)
(* is why going by an old catalog unlinks nothing that should stay.        *)
(***************************************************************************)
Bad(s) == Redacted(s) \cup NamedOf(s, Redacted(s))

(* A command knows a part of the catalog. *)
Knows(c) == pc[c] # "idle" => /\ snap[c].versions \subseteq catalog.versions
                              /\ snap[c].redacted \subseteq catalog.redacted
                              /\ snap[c].held \subseteq catalog.held

(* What appends, appends to a version.                                     *)
Tasked(c) == pc[c] \in {"put", "rename"} /\ Is(c, "append") => Target(c) # {}

(* What a command unlinks is of redacted parts, and when it goes on there  *)
(* is none of it left to unlink.                                           *)
Unlinks(c) == /\ pc[c] \in {"enforce", "unlink"} =>
                     \A x \in todo[c] : PartOf(x) \in Redacted(catalog)
              /\ pc[c] \in {"opened", "locked"} => todo[c] = {}

(* Of each entry of the manifest to come, the part is redacted, or part    *)
(* and reading are held or still to be put.                                *)
Puts(c) == pc[c] \in {"put", "rename"} /\ (Is(c, "add") \/ Is(c, "append")) =>
    \A r \in Entries[On(c)] :
        Of[r] \in Redacted(catalog) \/ {r, Of[r]} \subseteq objects \cup todo[c]

(* A command that is alone is the only one, and has found all there was. *)
Alone(c) == alone[c] =>
    /\ \A d \in Commands : pc[d] # "idle" => d = c
    /\ pc[c] \in {"enforce", "opened", "locked"} =>
           objects \cap Bad(snap[c]) \subseteq todo[c]

Sound(c) == Knows(c) /\ Tasked(c) /\ Unlinks(c) /\ Puts(c) /\ Alone(c)

Inv == LibTypeOK /\ Backed /\ \A c \in Commands : Sound(c)

(* What a step of the library needs of the types: nothing of what else the *)
(* commands may be doing, so that commands that do other things beside     *)
(* these may be added.                                                     *)
LibShape ==
    /\ catalog \in Catalogs
    /\ objects \subseteq Objects
    /\ temp \subseteq (Commands \cup {"dead"}) \X Objects
    /\ lock \in Commands \cup {"dead", None}
    /\ pc = [c \in Commands |-> pc[c]]
    /\ op = [c \in Commands |-> op[c]]
    /\ snap \in [Commands -> {None} \cup Catalogs]
    /\ todo \in [Commands -> SUBSET Objects]
    /\ alone \in [Commands -> BOOLEAN]
    /\ \A c \in Commands :
          /\ (op[c] = None) <=> (pc[c] = "idle")
          /\ (snap[c] = None) <=> (pc[c] = "idle")
          /\ op[c] # None /\ op[c].do \in {"look", "add", "append", "redact"}
                => op[c] \in TextTasks
          /\ pc[c] \in Locked => lock = c
          /\ pc[c] \in {"idle", "enforce", "opened"} => lock # c

(* What a step of one command leaves to the others: the catalog grows, no  *)
(* object goes but of a redacted part, and what a command does is its own. *)
Grown == /\ catalog.versions \subseteq catalog'.versions
         /\ catalog.redacted \subseteq catalog'.redacted
         /\ catalog.held \subseteq catalog'.held

Leaves(c) ==
    /\ Grown
    /\ \A x \in objects : x \in objects' \/ PartOf(x) \in Redacted(catalog)
    /\ \A d \in Commands \ {c} :
           /\ pc'[d] = pc[d] /\ op'[d] = op[d] /\ snap'[d] = snap[d]
           /\ todo'[d] = todo[d] /\ alone'[d] \in {alone[d], FALSE}
           /\ (lock' = d) <=> (lock = d)

-----------------------------------------------------------------------------
(* Parts, redactions and versions. *)

LEMMA PartsOfObjects ==
    /\ \A x \in Objects : PartOf(x) \in Tids
    /\ \A r \in Readings : PartOf(r) = Of[r] /\ PartOf(Of[r]) = Of[r]
  BY Shapes DEF PartOf, Objects

(* Nothing is un-redacted. *)
LEMMA RedactedGrows ==
    ASSUME NEW s, NEW t, s.redacted \subseteq t.redacted, s.held \subseteq t.held
    PROVE  Redacted(s) \subseteq Redacted(t)
  BY DEF Redacted

LEMMA LastElement ==
    ASSUME NEW v \in Seq(Docs), v # <<>>
    PROVE  Last(v) \in Docs
  <1>1. Len(v) \in Nat /\ Len(v) # 0
    BY LenProperties, EmptySeq
  <1> QED
    BY <1>1, ElementOfSeq DEF Last

(* What a library is opened on is parts and readings. *)
LEMMA BadObjects ==
    ASSUME NEW s \in Catalogs
    PROVE  /\ Redacted(s) \subseteq Tids
           /\ \A parts : NamedOf(s, parts) \subseteq Readings
           /\ \A x \in Bad(s) : PartOf(x) \in Redacted(s)
  <1>1. /\ s.versions \subseteq Versions /\ s.redacted \subseteq Tids
        /\ s.held \subseteq Content
    BY DEF Catalogs
  <1>2. Redacted(s) \subseteq Tids
    BY <1>1, Shapes DEF Redacted
  <1>3. ASSUME NEW v \in s.versions PROVE Entries[Last(v)] \subseteq Readings
    <2>1. v \in Seq(Docs) /\ v # <<>>
      BY <1>1 DEF Versions
    <2>2. Last(v) \in Docs
      BY <2>1, LastElement
    <2> QED
      BY <2>2, Shapes
  <1>4. Named(s) \subseteq Readings
    BY <1>1, <1>3, Shapes DEF Named, Added
  <1>5. \A parts : NamedOf(s, parts) \subseteq Readings
    BY <1>4 DEF NamedOf
  <1>6. ASSUME NEW x \in Bad(s) PROVE PartOf(x) \in Redacted(s)
    <2>1. CASE x \in Redacted(s)
      BY <2>1, <1>2 DEF PartOf
    <2>2. CASE x \in NamedOf(s, Redacted(s))
      BY <2>2, <1>4, PartsOfObjects DEF NamedOf
    <2> QED
      BY <2>1, <2>2 DEF Bad
  <1> QED
    BY <1>2, <1>5, <1>6

(* A manifest is of the document its command was given, made from another  *)
(* or from nothing.                                                        *)
LEMMA VersionShape ==
    ASSUME LibShape, NEW c \in Commands, Is(c, "add") \/ Is(c, "append"),
           Is(c, "append") => Target(c) # {}
    PROVE  /\ On(c) \in Docs
           /\ Version(c) \in Versions
           /\ Last(Version(c)) = On(c)
  <1>1. op[c] \in TextTasks /\ snap[c] \in Catalogs
    BY DEF LibShape, Is
  <1>2. On(c) \in Docs
    BY <1>1 DEF On, TextTasks, Is
  <1>3. Previous(c) \in Seq(Docs)
    <2>1. CASE Is(c, "append")
      <3>1. Target(c) # {} /\ Target(c) \subseteq Versions
        BY <2>1, <1>1 DEF Is, Target, Heads, Catalogs
      <3>2. (CHOOSE v \in Target(c) : TRUE) \in Versions
        BY <3>1
      <3> QED
        BY <2>1, <3>2 DEF Previous, Versions
    <2>2. CASE ~Is(c, "append")
      BY <2>2, EmptySeq DEF Previous
    <2> QED
      BY <2>1, <2>2
  <1> HIDE DEF Previous, On
  <1>4. /\ Append(Previous(c), On(c)) \in Seq(Docs)
        /\ Len(Append(Previous(c), On(c))) = Len(Previous(c)) + 1
        /\ Append(Previous(c), On(c))[Len(Previous(c)) + 1] = On(c)
        /\ Append(Previous(c), On(c)) # <<>>
    BY <1>2, <1>3, AppendProperties
  <1> QED
    BY <1>2, <1>4 DEF Version, Versions, Last

-----------------------------------------------------------------------------
(* Type correctness. *)

LEMMA TypesShape == LibTypeOK => LibShape
  BY NothingIsThere DEF LibTypeOK, LibShape, Locked

(* A step of the library ends, or goes on with what it came for.           *)
LEMMA StepShape ==
    ASSUME LibShape, NEW c \in Commands, Tasked(c), LibStep(c)
    PROVE  /\ LibShape'
           /\ pc[c] \in {"enforce", "opened"} \cup Locked
           /\ pc'[c] \in {"idle", "enforce", "opened"} \cup Locked
           /\ op'[c] = IF pc'[c] = "idle" THEN None ELSE op[c]
  <1> USE DEF LibShape, Step, Goto, Locked
  <1>1. CASE Unlink(c)
    BY <1>1 DEF Unlink
  <1>2. CASE Enforced(c)
    BY <1>2 DEF Enforced
  <1>3. CASE Looked(c)
    BY <1>3, Shapes DEF Looked, Exit, Is
  <1>4. CASE Acquire(c)
    BY <1>4, Shapes DEF Acquire, Is
  <1>5. CASE AcquireRefused(c)
    BY <1>5, Shapes DEF AcquireRefused, Exit, Is
  <1>6. CASE Finish(c)
    BY <1>6, Shapes DEF Finish, LetGo, Exit
  <1>7. CASE BeginAdd(c)
    <2>1. /\ op[c] \in TextTasks /\ op[c].do \in {"add", "append"}
      BY <1>7 DEF BeginAdd, Is
    <2>2. On(c) \in Docs
      BY <2>1 DEF On, TextTasks
    <2>3. ToPut(c) \subseteq Objects
      BY <2>2, Shapes DEF ToPut, Objects
    <2> QED
      BY <1>7, <2>3 DEF BeginAdd
  <1>8. CASE AppendRefused(c)
    BY <1>8, Shapes DEF AppendRefused, LetGo, Is, Exit
  <1>9. CASE PutHeld(c)
    BY <1>9 DEF PutHeld
  <1>10. CASE PutTemp(c)
    BY <1>10 DEF PutTemp, Objects
  <1>11. CASE PutRename(c)
    BY <1>11 DEF PutRename
  <1>12. CASE Unchanged(c)
    BY <1>12, Shapes DEF Unchanged, LetGo, Adding, Exit, Is
  <1>13. CASE AddManifest(c)
    <2>1. /\ pc[c] # "idle" /\ (Is(c, "add") \/ Is(c, "append"))
          /\ Is(c, "append") => Target(c) # {}
      BY <1>13 DEF AddManifest, Adding, Tasked
    <2>2. Version(c) \in Versions
      BY <2>1, VersionShape
    <2>3. snap[c] \in Catalogs
      BY <2>1
    <2>4. /\ catalog' \in Catalogs
          /\ snap' \in [Commands -> {None} \cup Catalogs]
          /\ \A d \in Commands : (snap'[d] = None) <=> (snap[d] = None)
      BY <1>13, <2>2, <2>3, NothingIsThere DEF AddManifest, Record, Catalogs
    <2> QED
      BY <1>13, <2>1, <2>4 DEF AddManifest, Adding
  <1>14. CASE Redact(c)
    <2>1. pc[c] = "locked" /\ op[c] \in TextTasks /\ op[c].do = "redact"
      BY <1>14 DEF Redact, Is
    <2>2. On(c) \in Tids /\ snap[c] \in Catalogs
      BY <2>1 DEF On, TextTasks
    <2>3. /\ catalog' \in Catalogs
          /\ snap' \in [Commands -> {None} \cup Catalogs]
          /\ \A d \in Commands : (snap'[d] = None) <=> (snap[d] = None)
      BY <1>14, <2>2, NothingIsThere DEF Redact, Record, Catalogs
    <2>4. {On(c)} \cup NamedOf(snap[c], {On(c)}) \subseteq Objects
      BY <2>2, BadObjects DEF Objects
    <2> QED
      BY <1>14, <2>1, <2>3, <2>4 DEF Redact
  <1>15. CASE RedactDone(c)
    BY <1>15 DEF RedactDone
  <1> QED
    BY <1>1, <1>2, <1>3, <1>4, <1>5, <1>6, <1>7, <1>8, <1>9, <1>10, <1>11,
       <1>12, <1>13, <1>14, <1>15 DEF LibStep

LEMMA OpenShape ==
    ASSUME LibShape, NEW c \in Commands, NEW task, Open(c, task), task # None,
           task.do \in {"look", "add", "append", "redact"} => task \in TextTasks
    PROVE  LibShape'
  <1>1. Redacted(catalog) \cup NamedOf(catalog, Redacted(catalog)) \subseteq Objects
    BY BadObjects DEF LibShape, Objects
  <1> QED
    BY <1>1, NothingIsThere DEF Open, Step, Goto, LibShape, Locked

LEMMA DieShape ==
    ASSUME LibShape, NEW c \in Commands, Die(c), catalog' \in Catalogs,
           UNCHANGED objects
    PROVE  LibShape'
  <1>1. temp' \subseteq (Commands \cup {"dead"}) \X Objects
    BY DEF Die, LibShape
  <1> QED
    BY <1>1, Shapes DEF Die, Exit, Goto, LibShape, Locked

-----------------------------------------------------------------------------
(* What a step leaves to the other commands: the catalog grows, and what a *)
(* command does is its own.                                                *)

LEMMA RecordGrows ==
    ASSUME NEW c \in Commands, NEW v, NEW t, NEW h, Record(c, v, t, h)
    PROVE  Grown
  BY DEF Record, Grown

LEMMA Others ==
    ASSUME LibShape, NEW c \in Commands, LibStep(c)
    PROVE  /\ Grown
           /\ \A d \in Commands \ {c} :
                  /\ pc'[d] = pc[d] /\ op'[d] = op[d] /\ snap'[d] = snap[d]
                  /\ todo'[d] = todo[d] /\ alone'[d] = alone[d]
                  /\ (lock' = d) <=> (lock = d)
  <1> USE DEF LibShape, Step, Goto, Grown, Locked
  <1>1. CASE Unlink(c)
    BY <1>1 DEF Unlink
  <1>2. CASE Enforced(c)
    BY <1>2 DEF Enforced
  <1>3. CASE Looked(c)
    BY <1>3 DEF Looked, Exit, Is
  <1>4. CASE Acquire(c)
    BY <1>4, Shapes DEF Acquire, Is
  <1>5. CASE AcquireRefused(c)
    BY <1>5 DEF AcquireRefused, Exit, Is
  <1>6. CASE Finish(c)
    BY <1>6, Shapes DEF Finish, LetGo, Exit
  <1>7. CASE BeginAdd(c)
    BY <1>7 DEF BeginAdd, Is
  <1>8. CASE AppendRefused(c)
    BY <1>8, Shapes DEF AppendRefused, LetGo, Is, Exit
  <1>9. CASE PutHeld(c)
    BY <1>9 DEF PutHeld
  <1>10. CASE PutTemp(c)
    BY <1>10 DEF PutTemp
  <1>11. CASE PutRename(c)
    BY <1>11 DEF PutRename
  <1>12. CASE Unchanged(c)
    BY <1>12, Shapes DEF Unchanged, LetGo, Adding, Exit, Is
  <1>13. CASE AddManifest(c)
    <2>1. Grown
      BY <1>13, RecordGrows DEF AddManifest
    <2> QED
      BY <1>13, <2>1 DEF AddManifest, Record
  <1>14. CASE Redact(c)
    <2>1. Grown
      BY <1>14, RecordGrows DEF Redact
    <2> QED
      BY <1>14, <2>1 DEF Redact, Record
  <1>15. CASE RedactDone(c)
    BY <1>15 DEF RedactDone
  <1> QED
    BY <1>1, <1>2, <1>3, <1>4, <1>5, <1>6, <1>7, <1>8, <1>9, <1>10, <1>11,
       <1>12, <1>13, <1>14, <1>15 DEF LibStep

(* Nothing leaves the object store but what the command unlinks, and the   *)
(* parts of that are redacted.                                             *)
LEMMA ObjectsStay ==
    ASSUME LibShape, NEW c \in Commands, Unlinks(c), LibStep(c)
    PROVE  \A x \in objects : x \in objects' \/ PartOf(x) \in Redacted(catalog)
  <1> USE DEF Step, Goto
  <1>1. CASE Unlink(c)
    BY <1>1 DEF Unlink, Unlinks
  <1>2. CASE Enforced(c)
    BY <1>2 DEF Enforced
  <1>3. CASE Looked(c)
    BY <1>3 DEF Looked, Exit, Is
  <1>4. CASE Acquire(c)
    BY <1>4 DEF Acquire, Is
  <1>5. CASE AcquireRefused(c)
    BY <1>5 DEF AcquireRefused, Exit, Is
  <1>6. CASE Finish(c)
    BY <1>6 DEF Finish, LetGo, Exit
  <1>7. CASE BeginAdd(c)
    BY <1>7 DEF BeginAdd, Is
  <1>8. CASE AppendRefused(c)
    BY <1>8 DEF AppendRefused, LetGo, Is, Exit
  <1>9. CASE PutHeld(c)
    BY <1>9 DEF PutHeld
  <1>10. CASE PutTemp(c)
    BY <1>10 DEF PutTemp
  <1>11. CASE PutRename(c)
    BY <1>11 DEF PutRename
  <1>12. CASE Unchanged(c)
    BY <1>12 DEF Unchanged, LetGo, Adding, Exit, Is
  <1>13. CASE AddManifest(c)
    BY <1>13 DEF AddManifest, Adding, Record, Is
  <1>14. CASE Redact(c)
    BY <1>14 DEF Redact, Is, Record
  <1>15. CASE RedactDone(c)
    BY <1>15 DEF RedactDone
  <1> QED
    BY <1>1, <1>2, <1>3, <1>4, <1>5, <1>6, <1>7, <1>8, <1>9, <1>10, <1>11,
       <1>12, <1>13, <1>14, <1>15 DEF LibStep

LEMMA StepLeaves ==
    ASSUME LibShape, NEW c \in Commands, Unlinks(c), LibStep(c)
    PROVE  Leaves(c)
  BY Others, ObjectsStay DEF Leaves

LEMMA StepTypes ==
    ASSUME LibTypeOK, NEW c \in Commands, Tasked(c), LibStep(c)
    PROVE  LibTypeOK'
  <1>1. LibShape
    BY TypesShape
  <1>2. /\ LibShape'
        /\ pc'[c] \in {"idle", "enforce", "opened"} \cup Locked
        /\ op'[c] \in {None} \cup TextTasks
    BY <1>1, StepShape DEF LibTypeOK
  <1>3. \A d \in Commands \ {c} : pc'[d] = pc[d] /\ op'[d] = op[d]
    BY <1>1, Others
  <1>4. /\ pc' \in [Commands -> {"idle", "enforce", "opened"} \cup Locked]
        /\ op' \in [Commands -> {None} \cup TextTasks]
    BY <1>2, <1>3 DEF LibShape, LibTypeOK
  <1> QED
    BY <1>2, <1>4 DEF LibShape, LibTypeOK

LEMMA OpenTypes ==
    ASSUME LibTypeOK, NEW c \in Commands, NEW task \in TextTasks, Open(c, task)
    PROVE  LibTypeOK'
  <1>1. LibShape'
    BY TypesShape, OpenShape, NothingIsThere
  <1> QED
    BY <1>1 DEF Open, Step, Goto, LibTypeOK, LibShape, Locked

LEMMA KillTypes ==
    ASSUME LibTypeOK, NEW c \in Commands, Kill(c)
    PROVE  LibTypeOK'
  <1>1. LibShape'
    BY TypesShape, DieShape DEF Kill, LibTypeOK
  <1> QED
    BY <1>1, Shapes DEF Kill, Die, Exit, Goto, LibTypeOK, LibShape, Locked

-----------------------------------------------------------------------------
(* What a step of a command does to what it knows and has to do. *)

LEMMA StepKnows ==
    ASSUME LibShape, NEW c \in Commands, Sound(c), LibStep(c)
    PROVE  Knows(c)'
  <1> USE DEF LibShape, Step, Goto, Sound, Knows
  <1>1. CASE Unlink(c)
    BY <1>1 DEF Unlink
  <1>2. CASE Enforced(c)
    BY <1>2 DEF Enforced
  <1>3. CASE Looked(c)
    BY <1>3 DEF Looked, Exit, Is
  <1>4. CASE Acquire(c)
    BY <1>4 DEF Acquire, Is
  <1>5. CASE AcquireRefused(c)
    BY <1>5 DEF AcquireRefused, Exit, Is
  <1>6. CASE Finish(c)
    BY <1>6 DEF Finish, LetGo, Exit
  <1>7. CASE BeginAdd(c)
    BY <1>7 DEF BeginAdd, Is
  <1>8. CASE AppendRefused(c)
    BY <1>8 DEF AppendRefused, LetGo, Is, Exit
  <1>9. CASE PutHeld(c)
    BY <1>9 DEF PutHeld
  <1>10. CASE PutTemp(c)
    BY <1>10 DEF PutTemp
  <1>11. CASE PutRename(c)
    BY <1>11 DEF PutRename
  <1>12. CASE Unchanged(c)
    BY <1>12 DEF Unchanged, LetGo, Adding, Exit, Is
  <1>13. CASE AddManifest(c)
    BY <1>13 DEF AddManifest, Adding, Record, Is
  <1>14. CASE Redact(c)
    BY <1>14 DEF Redact, Is, Record
  <1>15. CASE RedactDone(c)
    BY <1>15 DEF RedactDone
  <1> QED
    BY <1>1, <1>2, <1>3, <1>4, <1>5, <1>6, <1>7, <1>8, <1>9, <1>10, <1>11,
       <1>12, <1>13, <1>14, <1>15 DEF LibStep

LEMMA StepTasked ==
    ASSUME LibShape, NEW c \in Commands, Sound(c), LibStep(c)
    PROVE  Tasked(c)'
  <1> USE DEF LibShape, Step, Goto, Sound, Tasked
  <1>1. CASE Unlink(c)
    BY <1>1 DEF Unlink
  <1>2. CASE Enforced(c)
    BY <1>2 DEF Enforced
  <1>3. CASE Looked(c)
    BY <1>3 DEF Looked, Exit, Is
  <1>4. CASE Acquire(c)
    BY <1>4 DEF Acquire, Is
  <1>5. CASE AcquireRefused(c)
    BY <1>5 DEF AcquireRefused, Exit, Is
  <1>6. CASE Finish(c)
    BY <1>6 DEF Finish, LetGo, Exit
  <1>7. CASE BeginAdd(c)
    <2>1. op'[c].do \in {"add", "append"}
      BY <1>7 DEF BeginAdd, Is
    <2>2. CASE Is(c, "append")
      <3>1. Cardinality(Target(c)) = 1
        BY <1>7, <2>2 DEF BeginAdd, Is, MayAppend
      <3>2. Cardinality({}) = 0
        BY FS_EmptySet
      <3>3. Target(c) # {}
        <4>1. Cardinality(Target(c)) # Cardinality({})
          BY <3>1, <3>2
        <4> QED
          BY <4>1, Zenon
      <3> QED
        BY <1>7, <2>1, <3>3 DEF BeginAdd, Target, Heads, Is
    <2> QED
      BY <1>7, <2>1, <2>2 DEF BeginAdd, Is
  <1>8. CASE AppendRefused(c)
    BY <1>8 DEF AppendRefused, LetGo, Is, Exit
  <1>9. CASE PutHeld(c)
    BY <1>9 DEF PutHeld, Target, Heads, Is
  <1>10. CASE PutTemp(c)
    BY <1>10 DEF PutTemp, Target, Heads, Is
  <1>11. CASE PutRename(c)
    BY <1>11 DEF PutRename, Target, Heads, Is
  <1>12. CASE Unchanged(c)
    BY <1>12 DEF Unchanged, LetGo, Adding, Exit, Is
  <1>13. CASE AddManifest(c)
    BY <1>13 DEF AddManifest, Adding, Record, Is
  <1>14. CASE Redact(c)
    BY <1>14 DEF Redact, Is, Record
  <1>15. CASE RedactDone(c)
    BY <1>15 DEF RedactDone
  <1> QED
    BY <1>1, <1>2, <1>3, <1>4, <1>5, <1>6, <1>7, <1>8, <1>9, <1>10, <1>11,
       <1>12, <1>13, <1>14, <1>15 DEF LibStep

LEMMA StepUnlinks ==
    ASSUME LibShape, NEW c \in Commands, Sound(c), LibStep(c)
    PROVE  Unlinks(c)'
  <1> USE DEF LibShape, Step, Goto, Sound, Unlinks
  <1>1. CASE Unlink(c)
    BY <1>1 DEF Unlink, Redacted, PartOf
  <1>2. CASE Enforced(c)
    BY <1>2 DEF Enforced
  <1>3. CASE Looked(c)
    BY <1>3 DEF Looked, Exit, Is
  <1>4. CASE Acquire(c)
    BY <1>4 DEF Acquire, Is
  <1>5. CASE AcquireRefused(c)
    BY <1>5 DEF AcquireRefused, Exit, Is
  <1>6. CASE Finish(c)
    BY <1>6 DEF Finish, LetGo, Exit
  <1>7. CASE BeginAdd(c)
    BY <1>7 DEF BeginAdd, Is
  <1>8. CASE AppendRefused(c)
    BY <1>8 DEF AppendRefused, LetGo, Is, Exit
  <1>9. CASE PutHeld(c)
    BY <1>9 DEF PutHeld
  <1>10. CASE PutTemp(c)
    BY <1>10 DEF PutTemp
  <1>11. CASE PutRename(c)
    BY <1>11 DEF PutRename
  <1>12. CASE Unchanged(c)
    BY <1>12 DEF Unchanged, LetGo, Adding, Exit, Is
  <1>13. CASE AddManifest(c)
    BY <1>13 DEF AddManifest, Adding, Record, Is
  <1>14. CASE Redact(c)
    <2>1. pc[c] = "locked" /\ op[c] \in TextTasks /\ op[c].do = "redact"
      BY <1>14 DEF Redact, Is
    <2>2. On(c) \in Tids /\ snap[c] \in Catalogs
      BY <2>1 DEF On, TextTasks
    <2>3. \A x \in todo'[c] : PartOf(x) = On(c)
      BY <1>14, <2>2, BadObjects, PartsOfObjects DEF Redact, NamedOf, PartOf
    <2>4. On(c) \in Redacted(catalog)'
      BY <1>14 DEF Redact, Record, Redacted
    <2>5. pc'[c] = "unlink"
      BY <1>14 DEF Redact
    <2>6. \A x \in todo'[c] : PartOf(x)' \in Redacted(catalog)'
      BY <2>3, <2>4 DEF PartOf
    <2> QED
      BY <2>5, <2>6
  <1>15. CASE RedactDone(c)
    BY <1>15 DEF RedactDone
  <1> QED
    BY <1>1, <1>2, <1>3, <1>4, <1>5, <1>6, <1>7, <1>8, <1>9, <1>10, <1>11,
       <1>12, <1>13, <1>14, <1>15 DEF LibStep

LEMMA StepPuts ==
    ASSUME LibShape, NEW c \in Commands, Sound(c), LibStep(c)
    PROVE  Puts(c)'
  <1> USE DEF LibShape, Step, Goto, Sound, Puts
  <1>1. CASE Unlink(c)
    BY <1>1 DEF Unlink
  <1>2. CASE Enforced(c)
    BY <1>2 DEF Enforced
  <1>3. CASE Looked(c)
    BY <1>3 DEF Looked, Exit, Is
  <1>4. CASE Acquire(c)
    BY <1>4 DEF Acquire, Is
  <1>5. CASE AcquireRefused(c)
    BY <1>5 DEF AcquireRefused, Exit, Is
  <1>6. CASE Finish(c)
    BY <1>6 DEF Finish, LetGo, Exit
  <1>7. CASE BeginAdd(c)
    <2>1. op[c] \in TextTasks /\ op[c].do \in {"add", "append"}
      BY <1>7 DEF BeginAdd, Is
    <2>2. On(c) \in Docs
      BY <2>1 DEF On, TextTasks
    <2>3. Redacted(snap[c]) \subseteq Redacted(catalog)
      BY <1>7, RedactedGrows DEF BeginAdd, Knows
    <2>4. \A r \in Entries[On(c)] :
              Of[r] \in Redacted(catalog) \/ {r, Of[r]} \subseteq ToPut(c)
      BY <2>3 DEF ToPut
    <2> QED
      BY <1>7, <2>4 DEF BeginAdd, On, Redacted
  <1>8. CASE AppendRefused(c)
    BY <1>8 DEF AppendRefused, LetGo, Is, Exit
  <1>9. CASE PutHeld(c)
    BY <1>9 DEF PutHeld, On, Is, Redacted
  <1>10. CASE PutTemp(c)
    BY <1>10 DEF PutTemp, On, Is, Redacted
  <1>11. CASE PutRename(c)
    BY <1>11 DEF PutRename, On, Is, Redacted
  <1>12. CASE Unchanged(c)
    BY <1>12 DEF Unchanged, LetGo, Adding, Exit, Is
  <1>13. CASE AddManifest(c)
    BY <1>13 DEF AddManifest, Adding, Record, Is
  <1>14. CASE Redact(c)
    BY <1>14 DEF Redact, Is, Record
  <1>15. CASE RedactDone(c)
    BY <1>15 DEF RedactDone
  <1> QED
    BY <1>1, <1>2, <1>3, <1>4, <1>5, <1>6, <1>7, <1>8, <1>9, <1>10, <1>11,
       <1>12, <1>13, <1>14, <1>15 DEF LibStep

LEMMA StepAlone ==
    ASSUME LibShape, NEW c \in Commands, Sound(c), LibStep(c)
    PROVE  Alone(c)'
  <1> USE DEF LibShape, Step, Goto, Sound, Alone, Bad
  <1>1. CASE Unlink(c)
    BY <1>1, Others DEF Unlink, NamedOf, Named, Added, Redacted
  <1>2. CASE Enforced(c)
    BY <1>2, Others DEF Enforced, NamedOf, Named, Added, Redacted
  <1>3. CASE Looked(c)
    BY <1>3, Others DEF Looked, Exit, Is
  <1>4. CASE Acquire(c)
    BY <1>4, Others DEF Acquire, Is, NamedOf, Named, Added, Redacted
  <1>5. CASE AcquireRefused(c)
    BY <1>5, Others DEF AcquireRefused, Exit, Is
  <1>6. CASE Finish(c)
    BY <1>6, Others DEF Finish, LetGo, Exit
  <1>7. CASE BeginAdd(c)
    BY <1>7, Others DEF BeginAdd, Is
  <1>8. CASE AppendRefused(c)
    BY <1>8, Others DEF AppendRefused, LetGo, Is, Exit
  <1>9. CASE PutHeld(c)
    BY <1>9, Others DEF PutHeld
  <1>10. CASE PutTemp(c)
    BY <1>10, Others DEF PutTemp
  <1>11. CASE PutRename(c)
    BY <1>11, Others DEF PutRename
  <1>12. CASE Unchanged(c)
    BY <1>12, Others DEF Unchanged, LetGo, Adding, Exit, Is
  <1>13. CASE AddManifest(c)
    BY <1>13, Others DEF AddManifest, Adding, Record, Is
  <1>14. CASE Redact(c)
    BY <1>14, Others DEF Redact, Is, Record
  <1>15. CASE RedactDone(c)
    BY <1>15, Others DEF RedactDone
  <1> QED
    BY <1>1, <1>2, <1>3, <1>4, <1>5, <1>6, <1>7, <1>8, <1>9, <1>10, <1>11,
       <1>12, <1>13, <1>14, <1>15 DEF LibStep

-----------------------------------------------------------------------------
(* Objects before manifests. *)

LEMMA EntriesAreReadings ==
    ASSUME LibShape
    PROVE  \A v \in catalog.versions : \A r \in Entries[Last(v)] : r \in Readings
  <1>1. catalog \in Catalogs
    BY DEF LibShape
  <1>2. \A v \in catalog.versions : v \in Seq(Docs) /\ v # <<>>
    BY <1>1 DEF Catalogs, Versions
  <1>3. \A v \in catalog.versions : Last(v) \in Docs
    BY <1>2, LastElement
  <1> QED
    BY <1>3, Shapes

LEMMA StepBacked ==
    ASSUME LibShape, Backed, NEW c \in Commands, Sound(c), LibStep(c)
    PROVE  Backed'
  <1> USE DEF LibShape, Step, Goto, Sound, Backed
  <1>1. CASE Unlink(c)
    <2>1. \A v \in catalog.versions : \A r \in Entries[Last(v)] : r \in Readings
      BY EntriesAreReadings
    <2>2. \A r \in Readings : Of[r] \notin Redacted(catalog)
              => {r, Of[r]} \cap objects \subseteq objects'
      BY <1>1, ObjectsStay, PartsOfObjects
    <2> QED
      BY <1>1, <2>1, <2>2 DEF Unlink, Redacted
  <1>2. CASE Enforced(c)
    BY <1>2 DEF Enforced, Redacted
  <1>3. CASE Looked(c)
    BY <1>3 DEF Looked, Exit, Is, Redacted
  <1>4. CASE Acquire(c)
    BY <1>4 DEF Acquire, Is, Redacted
  <1>5. CASE AcquireRefused(c)
    BY <1>5 DEF AcquireRefused, Exit, Is, Redacted
  <1>6. CASE Finish(c)
    BY <1>6 DEF Finish, LetGo, Exit, Redacted
  <1>7. CASE BeginAdd(c)
    BY <1>7 DEF BeginAdd, Is, Redacted
  <1>8. CASE AppendRefused(c)
    BY <1>8 DEF AppendRefused, LetGo, Is, Exit, Redacted
  <1>9. CASE PutHeld(c)
    BY <1>9 DEF PutHeld, Redacted
  <1>10. CASE PutTemp(c)
    BY <1>10 DEF PutTemp, Redacted
  <1>11. CASE PutRename(c)
    BY <1>11 DEF PutRename, Redacted
  <1>12. CASE Unchanged(c)
    BY <1>12 DEF Unchanged, LetGo, Adding, Exit, Is, Redacted
  <1>13. CASE AddManifest(c)
    <2>1. /\ pc[c] = "put" /\ todo[c] = {} /\ (Is(c, "add") \/ Is(c, "append"))
          /\ Is(c, "append") => Target(c) # {}
      BY <1>13 DEF AddManifest, Adding, Tasked
    <2>2. Last(Version(c)) = On(c)
      BY <2>1, VersionShape
    <2>3. \A r \in Entries[On(c)] :
              Of[r] \in Redacted(catalog) \/ {r, Of[r]} \subseteq objects
      BY <2>1 DEF Puts
    <2>4. catalog'.versions = catalog.versions \cup {Version(c)}
      BY <1>13 DEF AddManifest, Record
    <2>5. Redacted(catalog) \subseteq Redacted(catalog)'
      BY <1>13, Others, RedactedGrows DEF Redacted, Grown
    <2>6. objects' = objects
      BY <1>13 DEF AddManifest
    <2> QED
      BY <2>2, <2>3, <2>4, <2>5, <2>6
  <1>14. CASE Redact(c)
    <2>1. catalog'.versions = catalog.versions /\ objects' = objects
      BY <1>14 DEF Redact, Record
    <2>2. Redacted(catalog) \subseteq Redacted(catalog)'
      BY <1>14, Others, RedactedGrows DEF Redacted, Grown
    <2> QED
      BY <2>1, <2>2
  <1>15. CASE RedactDone(c)
    BY <1>15 DEF RedactDone, Redacted
  <1> QED
    BY <1>1, <1>2, <1>3, <1>4, <1>5, <1>6, <1>7, <1>8, <1>9, <1>10, <1>11,
       <1>12, <1>13, <1>14, <1>15 DEF LibStep

(* Only a command that has been started acts. *)
LEMMA LibStepActs ==
    ASSUME NEW c \in Commands, LibStep(c)
    PROVE  pc[c] # "idle"
  <1> USE DEF Step, LetGo
  <1>1. CASE Unlink(c)
    BY <1>1 DEF Unlink
  <1>2. CASE Enforced(c)
    BY <1>2 DEF Enforced
  <1>3. CASE Looked(c)
    BY <1>3 DEF Looked, Exit, Is
  <1>4. CASE Acquire(c)
    BY <1>4 DEF Acquire, Is
  <1>5. CASE AcquireRefused(c)
    BY <1>5 DEF AcquireRefused, Exit, Is
  <1>6. CASE Finish(c)
    BY <1>6 DEF Finish, Exit
  <1>7. CASE BeginAdd(c)
    BY <1>7 DEF BeginAdd, Is
  <1>8. CASE AppendRefused(c)
    BY <1>8 DEF AppendRefused, Is, Exit
  <1>9. CASE PutHeld(c)
    BY <1>9 DEF PutHeld
  <1>10. CASE PutTemp(c)
    BY <1>10 DEF PutTemp
  <1>11. CASE PutRename(c)
    BY <1>11 DEF PutRename
  <1>12. CASE Unchanged(c)
    BY <1>12 DEF Unchanged, Adding, Exit, Is
  <1>13. CASE AddManifest(c)
    BY <1>13 DEF AddManifest, Adding, Record, Is
  <1>14. CASE Redact(c)
    BY <1>14 DEF Redact, Is, Record
  <1>15. CASE RedactDone(c)
    BY <1>15 DEF RedactDone
  <1> QED
    BY <1>1, <1>2, <1>3, <1>4, <1>5, <1>6, <1>7, <1>8, <1>9, <1>10, <1>11,
       <1>12, <1>13, <1>14, <1>15 DEF LibStep

(* What a step leaves to the other commands is enough for them. *)
LEMMA LeftSound ==
    ASSUME LibShape, NEW c \in Commands, Leaves(c), pc[c] # "idle",
           NEW d \in Commands \ {c}, Sound(d)
    PROVE  Sound(d)'
  <1>1. /\ Grown
        /\ pc'[d] = pc[d] /\ op'[d] = op[d] /\ snap'[d] = snap[d]
        /\ todo'[d] = todo[d] /\ alone'[d] \in {alone[d], FALSE}
    BY DEF Leaves
  <1>2. Redacted(catalog) \subseteq Redacted(catalog)'
    BY <1>1, RedactedGrows DEF Redacted, Grown
  <1>3. Knows(d)' /\ Tasked(d)'
    BY <1>1 DEF Sound, Knows, Tasked, Target, Heads, Grown, Is
  <1>4. Unlinks(d)'
    BY <1>1, <1>2 DEF Sound, Unlinks, PartOf
  <1>5. Puts(d)'
    <2>1. CASE pc[d] \in {"put", "rename"} /\ (Is(d, "add") \/ Is(d, "append"))
      <3>1. op[d] \in TextTasks /\ op[d].do \in {"add", "append"}
        BY <2>1 DEF Is, LibShape
      <3>2. On(d) \in Docs
        BY <3>1 DEF On, TextTasks
      <3>3. Entries[On(d)] \subseteq Readings
        BY <3>2, Shapes
      <3>4. \A r \in Readings : Of[r] \notin Redacted(catalog)
                => {r, Of[r]} \cap objects \subseteq objects'
        BY PartsOfObjects DEF Leaves
      <3> QED
        BY <1>1, <1>2, <2>1, <3>3, <3>4 DEF Sound, Puts, On
    <2> QED
      BY <1>1, <2>1 DEF Puts, Is
  <1>6. Alone(d)'
    BY <1>1 DEF Sound, Alone
  <1> QED
    BY <1>3, <1>4, <1>5, <1>6 DEF Sound

(* Whoever opens the library, for whatever. *)
LEMMA OpenSound ==
    ASSUME LibShape, Backed, \A d \in Commands : Sound(d),
           NEW c \in Commands, NEW task, Open(c, task)
    PROVE  Backed' /\ \A d \in Commands : Sound(d)'
  <1> USE DEF LibShape, Step, Goto
  <1>1. Backed'
    BY DEF Open, Backed, Redacted
  <1>2. Knows(c)' /\ Tasked(c)' /\ Puts(c)'
    BY DEF Open, Knows, Tasked, Puts
  <1>3. Unlinks(c)'
    <2>1. \A x \in Bad(catalog) : PartOf(x) \in Redacted(catalog)
      BY BadObjects
    <2> QED
      BY <2>1 DEF Open, Unlinks, Bad, PartOf, Redacted
  <1>4. Alone(c)'
    BY DEF Open, Alone, Bad, Live, NamedOf, Named, Added, Redacted
  <1>5. ASSUME NEW d \in Commands \ {c} PROVE Sound(d)'
    <2>1. /\ pc'[d] = pc[d] /\ op'[d] = op[d] /\ snap'[d] = snap[d]
          /\ todo'[d] = todo[d] /\ ~alone'[d]
          /\ catalog' = catalog /\ objects' = objects
      BY DEF Open
    <2> QED
      BY <2>1 DEF Sound, Knows, Tasked, Unlinks, Puts, Alone, Target, Heads, PartOf, On,
         Is, Redacted
  <1> QED
    BY <1>1, <1>2, <1>3, <1>4, <1>5 DEF Sound

(* Whoever is killed, with or without more records in the log. *)
LEMMA DieLeaves ==
    ASSUME LibShape, NEW c \in Commands, Die(c), Grown, UNCHANGED objects
    PROVE  Leaves(c)
  BY Shapes DEF LibShape, Leaves, Die, Exit, Goto

LEMMA DieSound ==
    ASSUME LibShape, Backed, \A d \in Commands : Sound(d),
           NEW c \in Commands, Die(c), Grown, UNCHANGED <<catalog.versions, objects>>
    PROVE  Backed' /\ \A d \in Commands : Sound(d)'
  <1>1. Backed'
    <2>1. Redacted(catalog) \subseteq Redacted(catalog)'
      BY RedactedGrows DEF Redacted, Grown
    <2> QED
      BY <2>1 DEF Backed
  <1>2. Sound(c)'
    BY DEF LibShape, Die, Exit, Goto, Sound, Knows, Tasked, Unlinks, Puts, Alone
  <1>3. ASSUME NEW d \in Commands \ {c} PROVE Sound(d)'
    BY DieLeaves, LeftSound DEF Die
  <1> QED
    BY <1>1, <1>2, <1>3

(* A step of the library keeps it sound, whatever else the others do.      *)
LEMMA StepSound ==
    ASSUME LibShape, Backed, \A d \in Commands : Sound(d),
           NEW c \in Commands, LibStep(c)
    PROVE  Backed' /\ \A d \in Commands : Sound(d)'
  <1>1. Sound(c)
    OBVIOUS
  <1>2. Backed' /\ Sound(c)'
    BY <1>1, StepBacked, StepKnows, StepTasked, StepUnlinks, StepPuts, StepAlone
       DEF Sound
  <1>3. Leaves(c) /\ pc[c] # "idle"
    BY <1>1, StepLeaves, LibStepActs DEF Sound
  <1>4. ASSUME NEW d \in Commands \ {c} PROVE Sound(d)'
    BY <1>3, LeftSound
  <1> QED
    BY <1>2, <1>4

LEMMA BreakSound ==
    ASSUME LibShape, Backed, \A d \in Commands : Sound(d), BreakLock
    PROVE  LibShape' /\ Backed' /\ \A d \in Commands : Sound(d)'
  <1>1. LibShape'
    BY Shapes DEF BreakLock, LibShape
  <1> QED
    BY <1>1 DEF BreakLock, Backed, Sound, Knows, Tasked, Unlinks, Puts, Alone,
       Target, Heads, PartOf, On, Is, Redacted, Bad, NamedOf, Named, Added

LEMMA NextInv ==
    ASSUME Inv, [TextNext]_libvars
    PROVE  Inv'
  <1> USE DEF Inv
  <1>1. LibShape
    BY TypesShape
  <1>2. CASE UNCHANGED libvars
    BY <1>2 DEF libvars, LibTypeOK, Backed, Sound, Knows, Tasked, Unlinks,
       Puts, Alone, Target, Heads, PartOf, On, Is, Redacted, Bad, NamedOf, Named, Added
  <1>3. ASSUME NEW c \in Commands, LibStep(c) PROVE Inv'
    <2>1. Tasked(c)
      BY DEF Sound
    <2> QED
      BY <1>1, <1>3, <2>1, StepTypes, StepSound
  <1>4. ASSUME NEW c \in Commands, Kill(c) PROVE Inv'
    <2>1. Die(c) /\ Grown /\ UNCHANGED <<catalog, objects>>
      BY <1>4 DEF Kill, Grown
    <2> QED
      BY <1>1, <1>4, <2>1, KillTypes, DieSound
  <1>5. ASSUME NEW c \in Commands, NEW task \in TextTasks, Open(c, task)
        PROVE  Inv'
    BY <1>1, <1>5, OpenTypes, OpenSound
  <1>6. CASE BreakLock
    <2>1. LibTypeOK'
      BY <1>6, Shapes DEF BreakLock, LibTypeOK
    <2> QED
      BY <1>1, <1>6, <2>1, BreakSound
  <1> QED
    BY <1>2, <1>3, <1>4, <1>5, <1>6 DEF TextNext

LEMMA InitInv == LibInit => Inv
  BY Shapes DEF LibInit, Inv, LibTypeOK, Catalogs, Locked, Backed, Sound, Knows,
     Tasked, Unlinks, Puts, Alone

-----------------------------------------------------------------------------
(* Theorems of the specification. *)

THEOREM InvAlways == TextSpec => []Inv
  <1>1. LibInit => Inv
    BY InitInv
  <1>2. Inv /\ [TextNext]_libvars => Inv'
    BY NextInv
  <1> QED
    BY <1>1, <1>2, PTL DEF TextSpec

(* Every variable keeps its type, and the library lock is taken exactly    *)
(* while a command is past `acquire_all` (lock.rs, main.rs `with_library`).*)
THEOREM LibraryTypes == TextSpec => []LibTypeOK
  <1>1. Inv => LibTypeOK
    BY DEF Inv
  <1> QED
    BY <1>1, InvAlways, PTL

(* What an added document's manifest names is held unless redacted, with   *)
(* any number of commands, killed anywhere (library.rs `add_with`).        *)
THEOREM ManifestsBacked == TextSpec => []Backed
  <1>1. Inv => Backed
    BY DEF Inv
  <1> QED
    BY <1>1, InvAlways, PTL

(* Whoever opens a library alone holds nothing it has redacted, whatever   *)
(* was killed before (library.rs `enforce_z`).                             *)
THEOREM RedactedIsGone == TextSpec => []RuleZ
  <1>1. Inv => RuleZ
    BY DEF Inv, Sound, Alone, Unlinks, RuleZ, Bad
  <1> QED
    BY <1>1, InvAlways, PTL

(* No object is unlinked before the catalog has its redaction, by a        *)
(* command that redacts or by one that opens (library.rs `redact`).        *)
THEOREM RecordedFirst == TextSpec => RedactedFirst
  <1>1. ASSUME Inv, [TextNext]_libvars
        PROVE  \A x \in objects \ objects' : PartOf(x) \in Redacted(catalog)
    <2>1. CASE UNCHANGED objects
      BY <2>1
    <2>2. ASSUME NEW c \in Commands, LibStep(c)
          PROVE  \A x \in objects \ objects' : PartOf(x) \in Redacted(catalog)
      BY <1>1, <2>2, TypesShape, ObjectsStay DEF Inv, Sound
    <2> QED
      BY <1>1, <2>1, <2>2 DEF TextNext, libvars, Kill, Open, BreakLock
  <1> QED
    BY <1>1, InvAlways, PTL DEF RedactedFirst, TextSpec

=============================================================================
