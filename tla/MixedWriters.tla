---------------------------- MODULE MixedWriters ----------------------------
(***************************************************************************)
(* The unit store's log when somebody appends to it without the shard's    *)
(* lock: a Store opened on the same file (store/mod.rs `open_with`,        *)
(* `append`), which is the default backend of the command line.            *)
(*                                                                         *)
(* A Store reads the log once, when it is opened, and appends to the end   *)
(* of the file with O_APPEND: no lock, no sync, and no look at what has    *)
(* been appended since or at what the last complete record is followed by. *)
(* The system runs one write or truncation of a file at a time; a reader   *)
(* may see a write half done, and a writer killed in it leaves it so.      *)
(* What follows a Torn cell is not read: the decoder either takes its      *)
(* bytes for the rest of the torn record or refuses the log.               *)
(***************************************************************************)
EXTENDS UnitStore

CONSTANTS Plain,      \* threads, in processes of their own, with a Store
          MaxCells    \* bound: plain writers stop when the log has this many

(* A reader in a locked writer's process is left out here.  Once the       *)
(* writer has cut off a record that the reader had folded (see CutTail,    *)
(* which cuts where the tail was torn when it was read), each goes on from *)
(* its own idea of the log, and reading it back fails.                     *)
ASSUME PlainApart == /\ Plain \cap Actors = {} /\ MaxCells \in Nat
                     /\ Readers = {}

VARIABLES store,      \* what each Store holds in memory, None when closed
          half        \* the record it is half way through writing, or None

plain   == <<store, half>>
allVars == <<vars, plain>>

MixedInit == /\ Init
             /\ store = [s \in Plain |-> None]
             /\ half = [s \in Plain |-> None]

Unlocked == <<synced, db, lock, mutex, pc, mem, view>>

OpenPlain(s) ==
    /\ store[s] = None
    /\ store' = [store EXCEPT ![s] = Range(Readable(file))]
    /\ UNCHANGED <<vars, half>>

ClosePlain(s) ==
    /\ store[s] # None /\ half[s] = None
    /\ store' = [store EXCEPT ![s] = None]
    /\ UNCHANGED <<vars, half>>

Holds(s, r)   == store[s] # None /\ half[s] = None /\ r \in store[s]
NoneWriting   == \A s \in Plain : half[s] = None
Lacks(s, r)   == /\ store[s] # None /\ NoneWriting /\ r \notin store[s]
                 /\ Len(file) < MaxCells
Absorb(s, r)  == store' = [store EXCEPT ![s] = @ \cup {r}]
Answered(r)   == acked' = acked \cup {r}

(* Store::append of a record it holds: Ok, with nothing written. *)
PlainRepeat(s, r) ==
    /\ Holds(s, r)
    /\ Answered(r)
    /\ UNCHANGED <<file, Unlocked, plain>>

(* ... of one it does not, written whole, or seen before it is. *)
PlainWrite(s, r) ==
    /\ Lacks(s, r)
    /\ file' = Append(file, r)
    /\ Absorb(s, r) /\ Answered(r)
    /\ UNCHANGED <<Unlocked, half>>

PlainHalf(s, r) ==
    /\ Lacks(s, r)
    /\ file' = Append(file, Torn)
    /\ half' = [half EXCEPT ![s] = r]
    /\ UNCHANGED <<Unlocked, store, acked>>

PlainRest(s) ==
    /\ half[s] # None
    /\ file' = [file EXCEPT ![Len(file)] = half[s]]
    /\ Absorb(s, half[s]) /\ Answered(half[s])
    /\ half' = [half EXCEPT ![s] = None]
    /\ UNCHANGED Unlocked

PlainKill(s) ==
    /\ "kill" \in Faults
    /\ half[s] # None
    /\ half' = [half EXCEPT ![s] = None]
    /\ store' = [store EXCEPT ![s] = None]
    /\ UNCHANGED vars

PlainStep(s) ==
    \/ OpenPlain(s) \/ ClosePlain(s) \/ PlainRest(s) \/ PlainKill(s)
    \/ \E r \in Records : PlainRepeat(s, r) \/ PlainWrite(s, r) \/ PlainHalf(s, r)

MixedNext == \/ Next /\ UNCHANGED plain /\ (file' = file \/ NoneWriting)
             \/ \E s \in Plain : PlainStep(s)

MixedSpec == MixedInit /\ [][MixedNext]_allVars
=============================================================================
