------------------------------- MODULE Revision -------------------------------
(***************************************************************************)
(* Replacing, retracting and dropping claims (crates/smysl-graph/src:      *)
(* relink.rs, compact.rs, merge/retraction.rs, and the commands over them  *)
(* in src/main.rs).                                                        *)
(*                                                                         *)
(* A unit is known by its content, what it rests on included: changed, it  *)
(* is another unit, and whoever rests on it still rests on the old one.    *)
(* Records only ever arrive, in any order and again after they have been   *)
(* dropped, since what a store says does not depend on the order (Merge).  *)
(* One command runs at a time, on a copy, and writes a store of its own.   *)
(*                                                                         *)
(* Left out: `deps`, which are followed as grounds are but for statuses;   *)
(* attestations, threads and views; authority (who may retract), and every *)
(* retraction policy but the default, `strict`.                            *)
(***************************************************************************)
EXTENDS FiniteSets, Naturals

CONSTANTS Drafts,        \* units written elsewhere: [name, grounds]
          Replaces,      \* supersedes edges written elsewhere, <<new, old>>
          Remarks,       \* edges of other kinds, <<from, to>>
          MaxRetracted,  \* bound: so many units are retracted
          MaxUnits       \* bound: so many units are held at once

(* Nothing is asked of what replaces what: units may replace each other,   *)
(* and one itself (types/relation.rs `Relation::new`).                     *)
(*                                                                         *)
(* What is unknown and only named is a draft that never comes.  A unit is  *)
(* named by a hash over what it rests on, so that comes first.             *)
ASSUME GroundsFirst ==
    /\ \A u \in Drafts : /\ u = [name |-> u.name, grounds |-> u.grounds]
                         /\ u.grounds \subseteq Drafts
    /\ \A e \in Replaces : e[1] \in Drafts /\ e[2] \in Drafts
    /\ \A us \in SUBSET Drafts \ {{}} : \E u \in us : u.grounds \cap us = {}

VARIABLES
    units,      \* the units the store holds
    supersedes, \* its edges <<from, to>>
    retracts,
    remarks

store == <<units, supersedes, retracts, remarks>>

Init == /\ units = {} /\ supersedes = {} /\ retracts = {} /\ remarks = {}

-----------------------------------------------------------------------------
Ends(edges) == UNION {{e[1], e[2]} : e \in edges}

(* effective_status under `strict`.                                        *)
Retracted == units \cap {r[2] : r \in retracts}

(* What has a ground that is held, and none that still stands.             *)
Unsupported(gone) ==
    {u \in units \ gone : /\ u.grounds \cap units # {}
                          /\ u.grounds \cap units \subseteq gone}

(* What reads as unfounded, the loop to its end: what was retracted and    *)
(* what that has left without support.                                     *)
Unfounded ==
    LET spread[gone \in SUBSET units] ==
            IF Unsupported(gone) = {} THEN gone
            ELSE spread[gone \cup Unsupported(gone)]
    IN spread[Retracted]

-----------------------------------------------------------------------------
(* supersession_heads: of several successors the one no other replaces; if *)
(* there is not one such, a fork, which has no replacement.                *)
Successors(u) == {e[1] : e \in {d \in supersedes : d[2] = u}}

Latest(u) == {n \in Successors(u) :
                 ~\E m \in Successors(u) \ {n} : <<m, n>> \in supersedes}

Forked == {u \in {e[2] : e \in supersedes} :
              Cardinality(Successors(u)) > 1 /\ Cardinality(Latest(u)) # 1}

Replaced == {e[2] : e \in supersedes} \ Forked

Successor(u) == IF Cardinality(Successors(u)) = 1
                THEN CHOOSE n \in Successors(u) : TRUE
                ELSE CHOOSE n \in Latest(u) : TRUE

(* The newest replacement of each unit that has one.                       *)
Newest ==
    LET next == [u \in Replaced |-> Successor(u)]
        walk[at \in Ends(supersedes) \X SUBSET DOMAIN next] ==
            IF at[1] \in DOMAIN next \ at[2]
            THEN walk[<<next[at[1]], at[2] \cup {at[1]}>>] ELSE at[1]
    IN [u \in {v \in DOMAIN next : walk[<<v, {}>>] # v} |-> walk[<<u, {}>>]]

-----------------------------------------------------------------------------
(* relink: every unit that has not been replaced is pointed at what has    *)
(* replaced its grounds, and then at what has become of them by that.      *)
Repointed ==
    LET newest == Newest
        at(g) == IF g \in DOMAIN newest THEN newest[g] ELSE g
    IN [u \in units \ DOMAIN newest |-> [u EXCEPT !.grounds = {at(g) : g \in @}]]

(* resettle: grounds follow what the repointing moved, and in the sweep    *)
(* what is a repointed unit follows what the sweep has moved.  Grounds     *)
(* come before what rests on them.                                         *)
RelinkedOnce == Repointed

Relinked ==
    LET to == Repointed
        swept == {to[u] : u \in DOMAIN to}
        moved(g) == IF g \in DOMAIN to THEN to[g] ELSE g
        settled[u \in swept] ==
            [u EXCEPT !.grounds =
                {LET now == IF g \in swept THEN settled[g] ELSE g
                 IN IF now # g THEN now ELSE moved(g) : g \in @}]
    IN [u \in DOMAIN to |-> settled[to[u]]]

(* What is emitted: the unit, and that it supersedes what it was, unless   *)
(* it is what it was.                                                      *)
Becoming == LET becomes == Relinked
            IN {<<becomes[u], u>> : u \in DOMAIN becomes}

Moves == {e \in Becoming : e[1] # e[2]}

(* Where nothing has a newer one, nothing moves: one early return for two. *)
Relink ==
    /\ supersedes # {}
    /\ LET moves == Moves
       IN /\ moves # {}
          /\ units' = units \cup {e[1] : e \in moves}
          /\ supersedes' = supersedes \cup moves
    /\ Cardinality(units') <= MaxUnits
    /\ UNCHANGED <<retracts, remarks>>

-----------------------------------------------------------------------------
(* compact.                                                                *)
SupersededByAny == units \cap {e[2] : e \in supersedes}

Superseded == units \cap {e[2] : e \in {d \in supersedes : d[1] \in units}}

(* What keeps a superseded unit: being a ground of one that is not, or an  *)
(* edge, except the one that says it is superseded.                        *)
NeededAsDeps == {}

NeededAsGrounds == UNION {u.grounds : u \in units \ Superseded}

NeededByEdges ==
    LET superseded == Superseded
        edges == remarks \cup retracts \cup {e \in supersedes : e[2] \notin superseded}
    IN Ends({e \in edges : {e[1], e[2]} \cap superseded # {}})

DroppedUnpointed == Superseded \ NeededAsGrounds

Dropped == Superseded \ (NeededAsGrounds \cup NeededByEdges \cup Ends(retracts))

Without(edges, us) == {e \in edges : {e[1], e[2]} \cap us = {}}

Compact ==
    LET dropped == Dropped
    IN /\ dropped # {}
       /\ units' = units \ dropped
       /\ supersedes' = Without(supersedes, dropped)
       /\ retracts' = Without(retracts, dropped)
       /\ remarks' = Without(remarks, dropped)

-----------------------------------------------------------------------------
(* `retract`: of a unit that is held and is not retracted already.         *)
Retract(u) ==
    /\ Cardinality(retracts) < MaxRetracted /\ u \in units \ Retracted
    /\ retracts' = retracts \cup {<<u, u>>}
    /\ UNCHANGED <<units, supersedes, remarks>>

(* A record from elsewhere, and again after it was dropped: "union is      *)
(* union".                                                                 *)
DeliverUnit == /\ \E u \in Drafts \ units : units' = units \cup {u}
               /\ Cardinality(units') <= MaxUnits
               /\ UNCHANGED <<supersedes, retracts, remarks>>

DeliverReplacement ==
    /\ \E e \in Replaces \ supersedes : supersedes' = supersedes \cup {e}
    /\ UNCHANGED <<units, retracts, remarks>>

DeliverRemark == /\ \E e \in Remarks \ remarks : remarks' = remarks \cup {e}
                 /\ UNCHANGED <<units, supersedes, retracts>>

Next == \/ DeliverUnit \/ DeliverReplacement \/ DeliverRemark
        \/ \E u \in units : Retract(u)
        \/ Relink \/ Compact

Spec == Init /\ [][Next]_store

-----------------------------------------------------------------------------
(* What relinking writes replaces a unit by the same claim, resting on     *)
(* something else (relink.rs `relink`: the name stays, and `now == *was`   *)
(* is passed over); a retraction is of one unit (main.rs `cmd_retract`).   *)
RevisionTypeOK ==
    /\ IsFiniteSet(units)
    /\ \A u \in units : u = [name |-> u.name, grounds |-> u.grounds]
    /\ \A e \in supersedes \ Replaces :
          e[1].name = e[2].name /\ e[1].grounds # e[2].grounds
    /\ \A e \in retracts : e[1] = e[2]
    /\ remarks \subseteq Remarks

(* "A retraction is a statement, and is never dropped", compact.rs:14:     *)
(* whatever has been superseded, and whatever is dropped and comes back,   *)
(* a unit that reads as retracted is held and reads so ever after.         *)
RetractionStands == [][Retracted \subseteq Retracted']_store

(* Compaction changes no unit's status, if no unit that it keeps although  *)
(* it is superseded rests on one it drops ("anything a survivor points at  *)
(* has to stay", compact.rs:105, where those are not asked).               *)
KeptRestOnKept == \A u \in Superseded \ Dropped : u.grounds \cap Dropped = {}

CompactionKeepsStatus ==
    [][~(units \subseteq units') /\ Compact /\ KeptRestOnKept
          => Unfounded' = Unfounded \ Dropped]_store

(* What is dropped has been replaced by something that stays: by what      *)
(* replaced it, or what replaced that, and so on (compact.rs:20, "a        *)
(* superseded unit whose successor is present"; :92, or "dropping the      *)
(* original would lose the content entirely"), if no unit that is dropped  *)
(* replaces itself by way of others: then all of them go.                  *)
Replacing == units \cap {e[1] : e \in supersedes}

Heirs(u) ==
    {h \in Replacing : \A us \in SUBSET Replacing :
        Successors(u) \cap units \subseteq us
        /\ (\A v \in us : Successors(v) \cap units \subseteq us)
           => h \in us}

ReplacementStays ==
    [][~(units \subseteq units') /\ Compact /\ (\A u \in Dropped : u \notin Heirs(u))
          => \A u \in Dropped : Heirs(u) \cap units' # {}]_store

(* Relinking once is enough (relink.rs:508), and points at nothing that is *)
(* not there, in a store with every ground and successor, if nothing rests *)
(* on a unit that is moved a second time, by what moved under it           *)
(* (relink.rs:74, "one pass suffices"), what units become is nothing the   *)
(* store or an edge of it had before, and no unit replaces itself by way   *)
(* of others (relink.rs:208).  A unit that forks stays where it is.        *)
Intact == /\ \A u \in units : u.grounds \subseteq units
          /\ \A e \in supersedes : e[1] \in units

MovedOnce == LET to == Repointed
                 end == Relinked
             IN \A u \in DOMAIN to \cap UNION {to[v].grounds : v \in DOMAIN to} :
                   to[u] = u \/ to[u] = end[u]

AllNew == \A e \in Moves : e[1] \notin units \cup {d[2] : d \in supersedes}

ChainsEnd == LET newest == Newest
             IN \A u \in Replaced : u \in DOMAIN newest /\ newest[u] \notin Replaced

Unreplaced == units \ {e[2] : e \in supersedes}

AtNewest == LET replaced == DOMAIN Newest
            IN \A u \in Unreplaced : u.grounds \cap replaced = {}

RelinkSettles ==
    [][supersedes' # supersedes /\ Intact /\ Relink /\ MovedOnce /\ AllNew /\ ChainsEnd
          => Intact' /\ AtNewest']_store
=============================================================================
