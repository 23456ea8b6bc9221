-------------------------------- MODULE Merge --------------------------------
(***************************************************************************)
(* Merging stores (crates/smysl-graph/src: store/mod.rs `append`,          *)
(* `absorb_hashed`, `attach`, `rebuild_adjacency`; store/interp.rs         *)
(* `absorb_hot`, `join`; merge/mod.rs `merge`), and stores read together   *)
(* without being merged (store/shards.rs `Union`).                         *)
(*                                                                         *)
(* Peers write records and hand them on: all of them or some, again and    *)
(* again, in any order.  A store absorbs what it does not hold one record  *)
(* after another.  Stores share nothing, so one append runs at a time.     *)
(*                                                                         *)
(* An edge is the kind and ends of a relation, which is what a relation's  *)
(* id is a hash of: relations with one edge may differ in weight or note.  *)
(* Left out: the log and its file, the library's layer (sets and maps of   *)
(* sets), what is derived when it is asked for, and attestations that a    *)
(* relation carries in memory alone.                                       *)
(***************************************************************************)
EXTENDS Naturals, FiniteSets

CONSTANTS Peers,
          Units, Relations, Attestations, Threads, Views, Contentions,
          Kept,      \* withdrawals, resolutions, commitments: kept as sets
          Edges, Edge,     \* the edge of a relation
          Subject,   \* the unit or edge an attestation is about
          Names, Named,    \* the register a thread, view or contention is for
          Stamp,     \* the clock of a thread
          Bytes,     \* its encoding, as a place in the order of encodings
          Writes,    \* what a peer may write
          MaxBatch,  \* bound: so many records are handed on at once
          None

Records == Units \cup Relations \cup Attestations \cup Threads \cup Views
           \cup Contentions \cup Kept

(* A thread loses to a later one, and to one whose bytes are greater. *)
Before(t, u) == Stamp[t] < Stamp[u] \/ (Stamp[t] = Stamp[u] /\ Bytes[t] < Bytes[u])

ASSUME MergeShapes ==
    /\ Edge \in [Relations -> Edges]
    /\ Subject \in [Attestations -> Units \cup Edges]
    /\ Named \in [Threads \cup Views \cup Contentions -> Names]
    /\ Stamp \in [Threads -> Nat] /\ Bytes \in [Threads -> Nat]
    /\ \A t, u \in Threads : t # u => Bytes[t] # Bytes[u]
    /\ Writes \in [Peers -> SUBSET Records] /\ MaxBatch \in Nat
    /\ None \notin Peers \cup Records

ASSUME KindsApart ==
    /\ Units \cap (Relations \cup Attestations \cup Threads \cup Views
                   \cup Contentions \cup Kept \cup Edges) = {}
    /\ Relations \cap (Attestations \cup Threads \cup Views \cup Contentions \cup Kept) = {}
    /\ Attestations \cap (Threads \cup Views \cup Contentions \cup Kept) = {}
    /\ Threads \cap (Views \cup Contentions \cup Kept) = {}
    /\ Views \cap (Contentions \cup Kept) = {}
    /\ Contentions \cap Kept = {}

VARIABLES
    held,      \* the records each store holds
    layer,     \* what each store has made of them
    appending, \* the peer in the middle of an append, or None
    inbox      \* what it has still to absorb

vars == <<held, layer, appending, inbox>>

Layers == [units    : SUBSET Units,
           attested : [Units \cup Edges -> SUBSET Attestations],
           pending  : SUBSET Attestations,
           relation : [Edges -> Relations \cup {None}],
           thread   : [Names -> Threads \cup {None}],
           view     : [Names -> Views \cup {None}],
           recorded : [Names -> Contentions \cup {None}],
           kept     : SUBSET Kept]

Empty == [units    |-> {},
          attested |-> [s \in Units \cup Edges |-> {}],
          pending  |-> {},
          relation |-> [e \in Edges |-> None],
          thread   |-> [n \in Names |-> None],
          view     |-> [n \in Names |-> None],
          recorded |-> [n \in Names |-> None],
          kept     |-> {}]

Init == /\ held = [p \in Peers |-> {}]
        /\ layer = [p \in Peers |-> Empty]
        /\ appending = None /\ inbox = {}

-----------------------------------------------------------------------------
(* absorb: one record.                                                     *)
Has(l, s) == s \in l.units \/ (s \in Edges /\ l.relation[s] # None)

Attach(l, a) == IF Has(l, Subject[a])
                THEN [l EXCEPT !.attested[Subject[a]] = @ \cup {a}]
                ELSE [l EXCEPT !.pending = @ \cup {a}]

FirstRelation(l, r) == IF l.relation[Edge[r]] = None
                       THEN [l EXCEPT !.relation[Edge[r]] = r] ELSE l

(* "last writer wins within the key", and which is last *)
LaterByClock(old, new) == IF old = None \/ Stamp[old] <= Stamp[new] THEN new ELSE old

Later(old, new) == IF old = None \/ Before(old, new) THEN new ELSE old

Absorbed(l, r) ==
    CASE r \in Units        -> [l EXCEPT !.units = @ \cup {r}]
      [] r \in Attestations -> Attach(l, r)
      [] r \in Relations    -> FirstRelation(l, r)
      [] r \in Threads      -> [l EXCEPT !.thread[Named[r]] = Later(@, r)]
      [] r \in Views        -> [l EXCEPT !.view[Named[r]] = r]
      [] r \in Contentions  -> [l EXCEPT !.recorded[Named[r]] =
                                  IF @ = None THEN r ELSE @]
      [] r \in Kept         -> [l EXCEPT !.kept = @ \cup {r}]

(* What waits goes where its subject now is: rebuild_adjacency, and the    *)
(* constructor of Union, over the attestations of both sides.              *)
Attached(l, waiting) ==
    LET land == {a \in waiting : Has(l, Subject[a])}
    IN [l EXCEPT !.attested = [s \in Units \cup Edges |->
                                  @[s] \cup {a \in land : Subject[a] = s}],
                 !.pending = waiting \ land]

-----------------------------------------------------------------------------
(* append: what is held already is left out before anything is absorbed.   *)
AppendUnhashed(p, rs) ==
    /\ appending = None /\ rs \ held[p] # {}
    /\ appending' = p /\ inbox' = rs \ held[p]
    /\ UNCHANGED <<held, layer>>

Append(p, rs) ==
    /\ appending = None /\ rs \ held[p] # {}
    /\ appending' = p /\ inbox' = rs \ held[p]
    /\ held' = [held EXCEPT ![p] = @ \cup rs]
    /\ UNCHANGED layer

Write(p) == \E r \in Writes[p] : Append(p, {r})

(* merge, or a bundle of some of another store's records. *)
Receive(p, q) ==
    \E rs \in SUBSET held[q] : Cardinality(rs) <= MaxBatch /\ Append(p, rs)

Absorb(p) ==
    /\ appending = p
    /\ \E r \in inbox : /\ layer' = [layer EXCEPT ![p] = Absorbed(@, r)]
                        /\ inbox' = inbox \ {r}
    /\ UNCHANGED <<held, appending>>

Rebuild(p) ==
    /\ appending = p /\ inbox = {} /\ appending' = None
    /\ layer' = [layer EXCEPT ![p] = Attached(@, @.pending)]
    /\ UNCHANGED <<held, inbox>>

Next == \/ \E p \in Peers : Write(p) \/ Absorb(p) \/ Rebuild(p)
        \/ \E p, q \in Peers : Receive(p, q)

Spec == Init /\ [][Next]_vars

-----------------------------------------------------------------------------
(* Interpretive::join, of a layer into another before it.                  *)
Join(l, m) ==
    [units    |-> l.units \cup m.units,
     attested |-> [s \in Units \cup Edges |-> l.attested[s] \cup m.attested[s]],
     pending  |-> l.pending,
     relation |-> [e \in Edges |-> IF l.relation[e] = None THEN m.relation[e]
                                   ELSE l.relation[e]],
     thread   |-> [n \in Names |-> IF m.thread[n] = None THEN l.thread[n]
                                   ELSE Later(l.thread[n], m.thread[n])],
     view     |-> [n \in Names |-> IF m.view[n] = None THEN l.view[n] ELSE m.view[n]],
     recorded |-> [n \in Names |-> IF l.recorded[n] = None THEN m.recorded[n]
                                   ELSE l.recorded[n]],
     kept     |-> l.kept \cup m.kept]

(* Union::new of two shards, in shard-id order. *)
UnionWaits(l, m) == Attached(Join(l, m), l.pending)

UnionOf(l, m) == Attached(Join(l, m), l.pending \cup m.pending)

-----------------------------------------------------------------------------
MergeTypeOK ==
    /\ held \in [Peers -> SUBSET Records]
    /\ layer \in [Peers -> Layers]
    /\ appending \in Peers \cup {None}
    /\ inbox \subseteq Records
    /\ appending = None => inbox = {}
    /\ appending # None => inbox \subseteq held[appending]

(* What a layer must say of records, in whatever order they came.          *)
TellsSets(l, rs) ==
    /\ l.units = rs \cap Units
    /\ l.kept = rs \cap Kept
    /\ \A e \in Edges : (l.relation[e] # None) <=> \E r \in rs \cap Relations : Edge[r] = e

TellsThreads(l, rs) ==
    \A n \in Names :
       LET mine == {t \in rs \cap Threads : Named[t] = n}
       IN IF mine = {} THEN l.thread[n] = None
          ELSE /\ l.thread[n] \in mine
               /\ \A t \in mine : t = l.thread[n] \/ Before(t, l.thread[n])

TellsAttestations(l, rs) ==
    LET lands(a) == Subject[a] \in l.units
                    \/ (Subject[a] \in Edges /\ l.relation[Subject[a]] # None)
    IN /\ l.pending = {a \in rs \cap Attestations : ~lands(a)}
       /\ \A s \in Units \cup Edges :
             l.attested[s] = {a \in rs \cap Attestations : Subject[a] = s /\ lands(a)}

Tells(l, rs) == TellsSets(l, rs) /\ TellsThreads(l, rs) /\ TellsAttestations(l, rs)

(* Any two stores that hold the same records agree on units, edges, their  *)
(* attestations, thread registers and what is kept, whatever order and     *)
(* batches the records came in, and however often (merge/mod.rs:8, rule U).*)
Common(l) == [units |-> l.units, attested |-> l.attested, pending |-> l.pending,
              edges |-> {e \in Edges : l.relation[e] # None},
              thread |-> l.thread, kept |-> l.kept]

Settled(p) == appending # p

Converged == \A p, q \in Peers :
    Settled(p) /\ Settled(q) /\ held[p] = held[q] => Common(layer[p]) = Common(layer[q])

(* Shards read together say of all their records what one store of them    *)
(* would: an attestation finds its subject in another shard (shards.rs:3). *)
UnionAnswers == \A p, q \in Peers :
    Settled(p) /\ Settled(q) => Tells(UnionOf(layer[p], layer[q]), held[p] \cup held[q])
=============================================================================
