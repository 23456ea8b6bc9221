---------------------------- MODULE MergeProofs -----------------------------
(* Theorems about Merge: stores converge, and shards read together say     *)
(* what one store of their records would.                                  *)
EXTENDS Merge, TLAPS

(* What a store has absorbed so far: everything but its inbox.             *)
Taken(p) == held[p] \ (IF appending = p THEN inbox ELSE {})

(* In the middle of an append an attestation is with its subject or waits; *)
(* one that waits may by now have its subject, until the rebuild.          *)
Keeps(l, rs) ==
    /\ l.pending \subseteq rs \cap Attestations
    /\ \A s \in Units \cup Edges : \A a \in l.attested[s] :
          a \in rs \cap Attestations /\ Subject[a] = s /\ Has(l, s)
    /\ \A a \in rs \cap Attestations : a \in l.attested[Subject[a]] \/ a \in l.pending

Gathers(l, rs) == TellsSets(l, rs) /\ TellsThreads(l, rs) /\ Keeps(l, rs)

IInv == /\ MergeTypeOK
        /\ \A p \in Peers : Gathers(layer[p], Taken(p))
        /\ \A p \in Peers : Settled(p) => TellsAttestations(layer[p], held[p])

-----------------------------------------------------------------------------
(* What a record's absorption does to the layer, kind by kind.             *)

(* The kinds are apart, so one arm of absorb takes a record.               *)
LEMMA Arms ==
  ASSUME NEW l, NEW r
  PROVE /\ r \in Units => Absorbed(l, r) = [l EXCEPT !.units = @ \cup {r}]
        /\ r \in Attestations => Absorbed(l, r) = Attach(l, r)
        /\ r \in Relations => Absorbed(l, r) = FirstRelation(l, r)
        /\ r \in Threads => Absorbed(l, r) = [l EXCEPT !.thread[Named[r]] = Later(@, r)]
        /\ r \in Views => Absorbed(l, r) = [l EXCEPT !.view[Named[r]] = r]
        /\ r \in Contentions => Absorbed(l, r) =
              [l EXCEPT !.recorded[Named[r]] = IF @ = None THEN r ELSE @]
        /\ r \in Kept => Absorbed(l, r) = [l EXCEPT !.kept = @ \cup {r}]
  <1>1. r \in Units => Absorbed(l, r) = [l EXCEPT !.units = @ \cup {r}]
    BY KindsApart DEF Absorbed
  <1>2. r \in Attestations => Absorbed(l, r) = Attach(l, r)
    BY KindsApart, Zenon DEF Absorbed
  <1>3. r \in Relations => Absorbed(l, r) = FirstRelation(l, r)
    BY KindsApart, Zenon DEF Absorbed
  <1>4. r \in Threads => Absorbed(l, r) = [l EXCEPT !.thread[Named[r]] = Later(@, r)]
    BY KindsApart, Zenon DEF Absorbed
  <1>5. r \in Views => Absorbed(l, r) = [l EXCEPT !.view[Named[r]] = r]
    BY KindsApart, Zenon DEF Absorbed
  <1>6. r \in Contentions => Absorbed(l, r) =
              [l EXCEPT !.recorded[Named[r]] = IF @ = None THEN r ELSE @]
    BY KindsApart, Zenon DEF Absorbed
  <1>7. r \in Kept => Absorbed(l, r) = [l EXCEPT !.kept = @ \cup {r}]
    BY KindsApart, Zenon DEF Absorbed
  <1> QED BY <1>1, <1>2, <1>3, <1>4, <1>5, <1>6, <1>7

(* A later thread is one of the two, and no earlier than either.           *)
LEMMA LaterIsLast ==
  ASSUME NEW t \in Threads, NEW u \in Threads
  PROVE /\ Later(t, u) \in {t, u}
        /\ t = Later(t, u) \/ Before(t, Later(t, u))
        /\ u = Later(t, u) \/ Before(u, Later(t, u))
  <1>1. t # None
    BY MergeShapes DEF Records
  <1>2. Stamp[t] \in Nat /\ Stamp[u] \in Nat /\ Bytes[t] \in Nat /\ Bytes[u] \in Nat
    BY MergeShapes
  <1>3. t # u => Bytes[t] # Bytes[u]
    BY MergeShapes
  <1> QED BY <1>1, <1>2, <1>3 DEF Later, Before

LEMMA BeforeTransitive ==
  ASSUME NEW t \in Threads, NEW u \in Threads, NEW v \in Threads,
         Before(t, u), Before(u, v)
  PROVE Before(t, v)
  <1>1. \A x \in {t, u, v} : Stamp[x] \in Nat /\ Bytes[x] \in Nat
    BY MergeShapes
  <1> QED BY <1>1 DEF Before

LEMMA BeforeOneWay ==
  ASSUME NEW t \in Threads, NEW u \in Threads, Before(t, u), Before(u, t)
  PROVE FALSE
  <1>1. \A x \in {t, u} : Stamp[x] \in Nat /\ Bytes[x] \in Nat
    BY MergeShapes
  <1> QED BY <1>1 DEF Before

(* Absorbing keeps a layer a layer.                                        *)
LEMMA AbsorbedType ==
  ASSUME NEW l \in Layers, NEW r \in Records
  PROVE Absorbed(l, r) \in Layers
  <1>1. CASE r \in Units
    BY <1>1, Arms DEF Layers
  <1>2. CASE r \in Attestations
    <2>1. Subject[r] \in Units \cup Edges
      BY <1>2, MergeShapes
    <2>2. [l EXCEPT !.attested[Subject[r]] = @ \cup {r}] \in Layers
      <3>1. [l.attested EXCEPT ![Subject[r]] = @ \cup {r}]
              \in [Units \cup Edges -> SUBSET Attestations]
        BY <1>2, <2>1 DEF Layers
      <3> QED BY <3>1 DEF Layers
    <2>3. [l EXCEPT !.pending = @ \cup {r}] \in Layers
      BY <1>2 DEF Layers
    <2>4. Absorbed(l, r) = Attach(l, r)
      BY <1>2, Arms
    <2> QED BY <2>2, <2>3, <2>4 DEF Attach
  <1>3. CASE r \in Relations
    BY <1>3, Arms, MergeShapes DEF Layers, FirstRelation
  <1>4. CASE r \in Threads
    <2>1. Named[r] \in Names
      BY <1>4, MergeShapes
    <2>2. Later(l.thread[Named[r]], r) \in Threads \cup {None}
      BY <1>4, <2>1 DEF Later, Layers
    <2> QED BY <1>4, <2>1, <2>2, Arms DEF Layers
  <1>5. CASE r \in Views
    BY <1>5, Arms, MergeShapes DEF Layers
  <1>6. CASE r \in Contentions
    BY <1>6, Arms, MergeShapes DEF Layers
  <1>7. CASE r \in Kept
    BY <1>7, Arms DEF Layers
  <1> QED BY <1>1, <1>2, <1>3, <1>4, <1>5, <1>6, <1>7 DEF Records

(* Attaching what waits: a layer still, nothing but attestations moved.    *)
LEMMA AttachedType ==
  ASSUME NEW l \in Layers, NEW w \in SUBSET Attestations
  PROVE /\ Attached(l, w) \in Layers
        /\ Attached(l, w).units = l.units
        /\ Attached(l, w).relation = l.relation
        /\ Attached(l, w).thread = l.thread
        /\ Attached(l, w).kept = l.kept
        /\ Attached(l, w).pending = {a \in w : ~Has(l, Subject[a])}
        /\ \A s \in Units \cup Edges : Attached(l, w).attested[s] =
              l.attested[s] \cup {a \in w : Has(l, Subject[a]) /\ Subject[a] = s}
        /\ \A s : Has(Attached(l, w), s) <=> Has(l, s)
  BY DEF Attached, Layers, Has

(* Which fields of a layer a record moves.                                 *)
LEMMA AbsorbedFields ==
  ASSUME NEW l \in Layers, NEW r \in Records
  PROVE LET n == Absorbed(l, r) IN
        /\ n.units = l.units \cup ({r} \cap Units)
        /\ n.kept = l.kept \cup ({r} \cap Kept)
        /\ \A e \in Edges : (n.relation[e] # None)
              <=> (l.relation[e] # None \/ (r \in Relations /\ Edge[r] = e))
        /\ \A m \in Names : n.thread[m] =
              IF r \in Threads /\ Named[r] = m THEN Later(l.thread[m], r)
              ELSE l.thread[m]
        /\ r \notin Attestations => n.pending = l.pending /\ n.attested = l.attested
  <1> DEFINE n == Absorbed(l, r)
             Goal == /\ n.units = l.units \cup ({r} \cap Units)
                     /\ n.kept = l.kept \cup ({r} \cap Kept)
                     /\ \A e \in Edges : (n.relation[e] # None)
                           <=> (l.relation[e] # None \/ (r \in Relations /\ Edge[r] = e))
                     /\ \A m \in Names : n.thread[m] =
                           IF r \in Threads /\ Named[r] = m THEN Later(l.thread[m], r)
                           ELSE l.thread[m]
                     /\ r \notin Attestations =>
                           n.pending = l.pending /\ n.attested = l.attested
  <1> SUFFICES Goal
    OBVIOUS
  <1>1. CASE r \in Units
    <2>1. n = [l EXCEPT !.units = @ \cup {r}]
      BY <1>1, Arms
    <2>2. r \notin Kept \cup Relations \cup Threads
      BY <1>1, KindsApart
    <2> QED BY <1>1, <2>1, <2>2 DEF Layers
  <1>2. CASE r \in Attestations
    <2>1. n = Attach(l, r)
      BY <1>2, Arms
    <2>2. r \notin Units \cup Kept \cup Relations \cup Threads
      BY <1>2, KindsApart
    <2>3. /\ n.units = l.units /\ n.kept = l.kept
          /\ n.relation = l.relation /\ n.thread = l.thread
      BY <2>1 DEF Attach, Layers
    <2> HIDE DEF n
    <2> QED BY <1>2, <2>2, <2>3
  <1>3. CASE r \in Relations
    <2>1. n = FirstRelation(l, r)
      BY <1>3, Arms
    <2>2. r \notin Units \cup Kept \cup Attestations \cup Threads
      BY <1>3, KindsApart
    <2>3. Edge[r] \in Edges /\ r # None
      BY <1>3, MergeShapes DEF Records
    <2>4. /\ n.units = l.units /\ n.kept = l.kept /\ n.thread = l.thread
          /\ n.pending = l.pending /\ n.attested = l.attested
      BY <2>1 DEF FirstRelation, Layers
    <2>5. \A e \in Edges : (n.relation[e] # None) <=> (l.relation[e] # None \/ Edge[r] = e)
      BY <2>1, <2>3 DEF FirstRelation, Layers
    <2> HIDE DEF n
    <2> QED BY <1>3, <2>2, <2>4, <2>5
  <1>4. CASE r \in Threads
    <2>1. n = [l EXCEPT !.thread[Named[r]] = Later(@, r)]
      BY <1>4, Arms
    <2>2. r \notin Units \cup Kept \cup Relations
      BY <1>4, KindsApart
    <2>3. Named[r] \in Names
      BY <1>4, MergeShapes
    <2>4. \A m \in Names : n.thread[m] =
             IF Named[r] = m THEN Later(l.thread[m], r) ELSE l.thread[m]
      BY <2>1, <2>3 DEF Layers
    <2>5. /\ n.units = l.units /\ n.kept = l.kept /\ n.relation = l.relation
          /\ n.pending = l.pending /\ n.attested = l.attested
      BY <2>1 DEF Layers
    <2> HIDE DEF n
    <2> QED BY <1>4, <2>2, <2>4, <2>5
  <1>5. CASE r \in Views
    <2>1. n = [l EXCEPT !.view[Named[r]] = r]
      BY <1>5, Arms
    <2>2. r \notin Units \cup Kept \cup Relations \cup Threads
      BY <1>5, KindsApart
    <2> QED BY <2>1, <2>2 DEF Layers
  <1>6. CASE r \in Contentions
    <2>1. n = [l EXCEPT !.recorded[Named[r]] = IF @ = None THEN r ELSE @]
      BY <1>6, Arms
    <2>2. r \notin Units \cup Kept \cup Relations \cup Threads
      BY <1>6, KindsApart
    <2> QED BY <2>1, <2>2 DEF Layers
  <1>7. CASE r \in Kept
    <2>1. n = [l EXCEPT !.kept = @ \cup {r}]
      BY <1>7, Arms
    <2>2. r \notin Units \cup Relations \cup Threads
      BY <1>7, KindsApart
    <2> QED BY <1>7, <2>1, <2>2 DEF Layers
  <1> QED BY <1>1, <1>2, <1>3, <1>4, <1>5, <1>6, <1>7 DEF Records

LEMMA AbsorbedSets ==
  ASSUME NEW l \in Layers, NEW r \in Records, NEW rs \in SUBSET Records,
         TellsSets(l, rs)
  PROVE TellsSets(Absorbed(l, r), rs \cup {r})
  <1> DEFINE n == Absorbed(l, r)
  <1>1. /\ n.units = l.units \cup ({r} \cap Units)
        /\ n.kept = l.kept \cup ({r} \cap Kept)
        /\ \A e \in Edges : (n.relation[e] # None)
              <=> (l.relation[e] # None \/ (r \in Relations /\ Edge[r] = e))
    BY AbsorbedFields
  <1> HIDE DEF n
  <1>2. n.units = (rs \cup {r}) \cap Units /\ n.kept = (rs \cup {r}) \cap Kept
    BY <1>1 DEF TellsSets
  <1>3. ASSUME NEW e \in Edges
        PROVE (n.relation[e] # None)
                 <=> \E x \in (rs \cup {r}) \cap Relations : Edge[x] = e
    <2>1. (l.relation[e] # None) <=> \E x \in rs \cap Relations : Edge[x] = e
      BY DEF TellsSets
    <2>2. (n.relation[e] # None)
              <=> (l.relation[e] # None \/ (r \in Relations /\ Edge[r] = e))
      BY <1>1
    <2> QED BY <2>1, <2>2
  <1>4. TellsSets(n, rs \cup {r})
    BY <1>2, <1>3 DEF TellsSets
  <1> QED BY <1>4 DEF n

LEMMA AbsorbedThreads ==
  ASSUME NEW l \in Layers, NEW r \in Records, NEW rs \in SUBSET Records,
         TellsThreads(l, rs)
  PROVE TellsThreads(Absorbed(l, r), rs \cup {r})
  <1> DEFINE n == Absorbed(l, r)
             Of(x, m) == {t \in x \cap Threads : Named[t] = m}
             Last(t, ts, m) == IF ts = {} THEN t = None
                               ELSE t \in ts /\ \A u \in ts : u = t \/ Before(u, t)
  <1>1. \A m \in Names : n.thread[m] =
           IF r \in Threads /\ Named[r] = m THEN Later(l.thread[m], r)
           ELSE l.thread[m]
    BY AbsorbedFields
  <1> HIDE DEF n
  <1>2. ASSUME NEW m \in Names
        PROVE Last(n.thread[m], Of(rs \cup {r}, m), m)
    <2>1. Last(l.thread[m], Of(rs, m), m)
      BY DEF TellsThreads
    <2>2. CASE ~(r \in Threads /\ Named[r] = m)
      <3>1. Of(rs \cup {r}, m) = Of(rs, m)
        BY <2>2
      <3>2. n.thread[m] = l.thread[m]
        BY <1>1, <2>2
      <3> QED BY <2>1, <3>1, <3>2
    <2>3. CASE r \in Threads /\ Named[r] = m
      <3>1. Of(rs \cup {r}, m) = Of(rs, m) \cup {r}
        BY <2>3
      <3>2. n.thread[m] = Later(l.thread[m], r)
        BY <1>1, <2>3
      <3>3. CASE Of(rs, m) = {}
        <4>1. n.thread[m] = r
          BY <2>1, <3>2, <3>3 DEF Later
        <4> QED BY <3>1, <3>3, <4>1
      <3>4. CASE Of(rs, m) # {}
        <4> DEFINE t == l.thread[m]
                   u == n.thread[m]
        <4>1. t \in Of(rs, m) /\ t \in Threads
              /\ \A x \in Of(rs, m) : x = t \/ Before(x, t)
          BY <2>1, <3>4
        <4>2. u \in {t, r} /\ (t = u \/ Before(t, u)) /\ (r = u \/ Before(r, u))
          BY <2>3, <3>2, <4>1, LaterIsLast
        <4>3. u \in Of(rs \cup {r}, m) /\ u \in Threads
          BY <2>3, <3>1, <4>1, <4>2
        <4>4. ASSUME NEW x \in Of(rs, m) PROVE x = u \/ Before(x, u)
          <5>1. x \in Threads /\ (x = t \/ Before(x, t))
            BY <4>1
          <5> HIDE DEF t, u, Of
          <5> QED BY <5>1, <4>1, <4>2, <4>3, BeforeTransitive
        <4> HIDE DEF u, Of
        <4>5. \A x \in Of(rs \cup {r}, m) : x = u \/ Before(x, u)
          BY <3>1, <4>2, <4>4
        <4>6. Of(rs \cup {r}, m) # {}
          BY <4>3
        <4> QED BY <4>3, <4>5, <4>6 DEF u
      <3> QED BY <3>3, <3>4
    <2> QED BY <2>2, <2>3
  <1>3. TellsThreads(n, rs \cup {r})
    BY <1>2 DEF TellsThreads
  <1> QED BY <1>3 DEF n

LEMMA AbsorbedKeeps ==
  ASSUME NEW l \in Layers, NEW r \in Records, NEW rs \in SUBSET Records,
         Keeps(l, rs)
  PROVE Keeps(Absorbed(l, r), rs \cup {r})
  <1> DEFINE n == Absorbed(l, r)
             S == Units \cup Edges
  <1>1. /\ n.units = l.units \cup ({r} \cap Units)
        /\ \A e \in Edges : (n.relation[e] # None)
              <=> (l.relation[e] # None \/ (r \in Relations /\ Edge[r] = e))
        /\ r \notin Attestations => n.pending = l.pending /\ n.attested = l.attested
    BY AbsorbedFields
  <1>2. \A s \in S : Has(l, s) => Has(n, s)
    BY <1>1 DEF Has
  <1>3. CASE r \notin Attestations
    <2> HIDE DEF n
    <2>1. n.pending = l.pending /\ n.attested = l.attested
      BY <1>1, <1>3
    <2>2. (rs \cup {r}) \cap Attestations = rs \cap Attestations
      BY <1>3
    <2>3. Keeps(n, rs \cup {r})
      BY <1>2, <2>1, <2>2 DEF Keeps
    <2> QED BY <2>3 DEF n
  <1>4. CASE r \in Attestations
    <2>1. Subject[r] \in S
      BY <1>4, MergeShapes
    <2>2. n = Attach(l, r)
      BY <1>4, Arms
    <2>3. CASE Has(l, Subject[r])
      <3>1. n.pending = l.pending
        BY <2>2, <2>3 DEF Attach, Layers
      <3>2. \A s \in S : n.attested[s] = IF s = Subject[r] THEN l.attested[s] \cup {r}
                                        ELSE l.attested[s]
        <4>1. n.attested = [l.attested EXCEPT ![Subject[r]] = @ \cup {r}]
          BY <2>2, <2>3 DEF Attach, Layers
        <4>2. l.attested \in [S -> SUBSET Attestations]
          BY DEF Layers
        <4> QED BY <2>1, <4>1, <4>2
      <3> HIDE DEF n
      <3>3. n.pending \subseteq (rs \cup {r}) \cap Attestations
        BY <3>1 DEF Keeps
      <3>4. ASSUME NEW s \in S, NEW a \in n.attested[s]
            PROVE a \in (rs \cup {r}) \cap Attestations /\ Subject[a] = s /\ Has(n, s)
        <4>1. a \in l.attested[s] \/ (a = r /\ s = Subject[r])
          BY <3>2
        <4>2. CASE a \in l.attested[s]
          BY <4>2, <1>2 DEF Keeps
        <4>3. CASE a = r /\ s = Subject[r]
          BY <4>3, <1>2, <1>4, <2>3
        <4> QED BY <4>1, <4>2, <4>3
      <3>5. ASSUME NEW a \in (rs \cup {r}) \cap Attestations
            PROVE a \in n.attested[Subject[a]] \/ a \in n.pending
        <4>1. Subject[a] \in S
          BY MergeShapes
        <4>2. CASE a = r
          BY <4>2, <2>1, <3>2
        <4>3. CASE a # r
          BY <4>1, <4>3, <3>1, <3>2 DEF Keeps
        <4> QED BY <4>2, <4>3
      <3>6. Keeps(n, rs \cup {r})
        BY <3>3, <3>4, <3>5 DEF Keeps
      <3> QED BY <3>6 DEF n
    <2>4. CASE ~Has(l, Subject[r])
      <3>1. n.pending = l.pending \cup {r} /\ n.attested = l.attested
        BY <2>2, <2>4 DEF Attach, Layers
      <3> HIDE DEF n
      <3>2. Keeps(n, rs \cup {r})
        BY <1>2, <1>4, <3>1 DEF Keeps
      <3> QED BY <3>2 DEF n
    <2> QED BY <2>3, <2>4
  <1> QED BY <1>3, <1>4

(* Once what waits has been tried again, attestations are told exactly.    *)
LEMMA RebuiltTells ==
  ASSUME NEW l \in Layers, NEW rs \in SUBSET Records, Keeps(l, rs)
  PROVE TellsAttestations(Attached(l, l.pending), rs)
  <1> DEFINE n == Attached(l, l.pending)
             S == Units \cup Edges
  <1>1. l.pending \in SUBSET Attestations
    BY DEF Layers
  <1>2. /\ n.units = l.units /\ n.relation = l.relation
        /\ n.pending = {a \in l.pending : ~Has(l, Subject[a])}
        /\ \A s \in S : n.attested[s] =
              l.attested[s] \cup {a \in l.pending : Has(l, Subject[a]) /\ Subject[a] = s}
    BY <1>1, AttachedType
  <1> HIDE DEF n
  <1>3. \A a \in Attestations : Has(l, Subject[a]) <=>
           (Subject[a] \in n.units \/ (Subject[a] \in Edges /\ n.relation[Subject[a]] # None))
    BY <1>2 DEF Has
  <1>4. n.pending = {a \in rs \cap Attestations : ~Has(l, Subject[a])}
    <2>1. ASSUME NEW a \in rs \cap Attestations, ~Has(l, Subject[a])
          PROVE a \in l.pending
      <3>1. Subject[a] \in S
        BY MergeShapes
      <3> QED BY <2>1, <3>1 DEF Keeps
    <2> QED BY <1>2, <2>1 DEF Keeps
  <1>5. ASSUME NEW s \in S
        PROVE n.attested[s] = {a \in rs \cap Attestations : Subject[a] = s /\ Has(l, Subject[a])}
    <2>1. n.attested[s] = l.attested[s]
             \cup {a \in l.pending : Has(l, Subject[a]) /\ Subject[a] = s}
      BY <1>2
    <2> QED BY <2>1 DEF Keeps
  <1>6. TellsAttestations(n, rs)
    BY <1>3, <1>4, <1>5 DEF TellsAttestations
  <1> QED BY <1>6 DEF n

-----------------------------------------------------------------------------
(* Two layers joined.                                                      *)
LEMMA JoinType ==
  ASSUME NEW l \in Layers, NEW m \in Layers
  PROVE Join(l, m) \in Layers
  <1> DEFINE j == Join(l, m)
  <1>1. j.units \in SUBSET Units /\ j.kept \in SUBSET Kept /\ j.pending \in SUBSET Attestations
    BY DEF Join, Layers
  <1>2. j.attested \in [Units \cup Edges -> SUBSET Attestations]
    BY DEF Join, Layers
  <1>3. j.relation \in [Edges -> Relations \cup {None}]
    BY DEF Join, Layers
  <1>4. j.thread \in [Names -> Threads \cup {None}]
    BY DEF Join, Layers, Later
  <1>5. j.view \in [Names -> Views \cup {None}]
    BY DEF Join, Layers
  <1>6. j.recorded \in [Names -> Contentions \cup {None}]
    BY DEF Join, Layers
  <1>7. j = [units |-> j.units, attested |-> j.attested, pending |-> j.pending,
             relation |-> j.relation, thread |-> j.thread, view |-> j.view,
             recorded |-> j.recorded, kept |-> j.kept]
    BY DEF Join
  <1> HIDE DEF j
  <1>8. j \in Layers
    BY <1>1, <1>2, <1>3, <1>4, <1>5, <1>6, <1>7 DEF Layers
  <1> QED BY <1>8 DEF j

LEMMA JoinSets ==
  ASSUME NEW l \in Layers, NEW m \in Layers, NEW A, NEW B,
         TellsSets(l, A), TellsSets(m, B)
  PROVE TellsSets(Join(l, m), A \cup B)
  <1> DEFINE j == Join(l, m)
  <1>1. j.units = l.units \cup m.units /\ j.kept = l.kept \cup m.kept
    BY DEF Join
  <1>2. \A e \in Edges : (j.relation[e] # None)
           <=> (l.relation[e] # None \/ m.relation[e] # None)
    BY DEF Join
  <1> HIDE DEF j
  <1>3. TellsSets(j, A \cup B)
    BY <1>1, <1>2 DEF TellsSets
  <1> QED BY <1>3 DEF j

LEMMA JoinThreads ==
  ASSUME NEW l \in Layers, NEW m \in Layers, NEW A, NEW B,
         TellsThreads(l, A), TellsThreads(m, B)
  PROVE TellsThreads(Join(l, m), A \cup B)
  <1> DEFINE j == Join(l, m)
             Of(x, n) == {t \in x \cap Threads : Named[t] = n}
             Last(t, ts) == IF ts = {} THEN t = None
                            ELSE t \in ts /\ \A u \in ts : u = t \/ Before(u, t)
  <1>1. \A n \in Names : j.thread[n] =
           IF m.thread[n] = None THEN l.thread[n] ELSE Later(l.thread[n], m.thread[n])
    BY DEF Join
  <1> HIDE DEF j
  <1>2. ASSUME NEW n \in Names
        PROVE Last(j.thread[n], Of(A \cup B, n))
    <2> DEFINE t == l.thread[n]
               u == m.thread[n]
               v == j.thread[n]
               TA == Of(A, n)
               TB == Of(B, n)
    <2>1. Last(t, TA) /\ Last(u, TB)
      BY DEF TellsThreads
    <2>2. Of(A \cup B, n) = TA \cup TB
      OBVIOUS
    <2>3. TA \subseteq Threads /\ TB \subseteq Threads /\ None \notin TA /\ None \notin TB
      BY MergeShapes DEF Records
    <2>4. v = IF u = None THEN t ELSE Later(t, u)
      BY <1>1
    <2> SUFFICES Last(v, TA \cup TB)
      BY <2>2 DEF v
    <2> HIDE DEF TA, TB, t, u, v, Of
    <2>5. CASE TB = {}
      BY <2>1, <2>4, <2>5
    <2>6. CASE TA = {} /\ TB # {}
      <3>1. u # None /\ t = None
        BY <2>1, <2>3, <2>6
      <3>2. v = u
        BY <2>4, <3>1 DEF Later
      <3> QED BY <2>1, <2>6, <3>2
    <2>7. CASE TA # {} /\ TB # {}
      <3>1. /\ t \in TA /\ t \in Threads /\ \A x \in TA : x = t \/ Before(x, t)
            /\ u \in TB /\ u \in Threads /\ \A x \in TB : x = u \/ Before(x, u)
            /\ v = Later(t, u)
        BY <2>1, <2>3, <2>4, <2>7
      <3>2. v \in {t, u} /\ (t = v \/ Before(t, v)) /\ (u = v \/ Before(u, v))
        BY <3>1, LaterIsLast
      <3>3. v \in Threads /\ v \in TA \cup TB
        BY <3>1, <3>2
      <3>4. ASSUME NEW x \in TA \cup TB PROVE x = v \/ Before(x, v)
        <4>1. x \in Threads
          BY <2>3
        <4>2. CASE x \in TA
          BY <3>1, <3>2, <3>3, <4>1, <4>2, BeforeTransitive
        <4>3. CASE x \in TB
          BY <3>1, <3>2, <3>3, <4>1, <4>3, BeforeTransitive
        <4> QED BY <4>2, <4>3
      <3> QED BY <3>3, <3>4
    <2> QED BY <2>5, <2>6, <2>7
  <1>3. TellsThreads(j, A \cup B)
    BY <1>2 DEF TellsThreads
  <1> QED BY <1>3 DEF j

(* Each side tells what lands by its own units and edges; the attestations *)
(* that wait on either side are tried against those of both.               *)
LEMMA UnionOfTells ==
  ASSUME NEW l \in Layers, NEW m \in Layers,
         NEW A \in SUBSET Records, NEW B \in SUBSET Records,
         Tells(l, A), Tells(m, B)
  PROVE Tells(UnionOf(l, m), A \cup B)
  <1> DEFINE j == Join(l, m)
             w == l.pending \cup m.pending
             n == Attached(j, w)
             S == Units \cup Edges
  <1>1. j \in Layers /\ w \in SUBSET Attestations
    BY JoinType DEF Layers
  <1>2. TellsSets(j, A \cup B) /\ TellsThreads(j, A \cup B)
    BY JoinSets, JoinThreads DEF Tells
  <1>3. /\ \A s : Has(j, s) <=> Has(l, s) \/ Has(m, s)
        /\ \A s \in S : j.attested[s] = l.attested[s] \cup m.attested[s]
    BY DEF Join, Has
  <1>4. /\ n.units = j.units /\ n.relation = j.relation
        /\ n.thread = j.thread /\ n.kept = j.kept
        /\ n.pending = {a \in w : ~Has(j, Subject[a])}
        /\ \A s \in S : n.attested[s] =
              j.attested[s] \cup {a \in w : Has(j, Subject[a]) /\ Subject[a] = s}
    BY <1>1, AttachedType
  <1>5. /\ l.pending = {a \in A \cap Attestations : ~Has(l, Subject[a])}
        /\ m.pending = {a \in B \cap Attestations : ~Has(m, Subject[a])}
        /\ \A s \in S : l.attested[s] =
              {a \in A \cap Attestations : Subject[a] = s /\ Has(l, Subject[a])}
        /\ \A s \in S : m.attested[s] =
              {a \in B \cap Attestations : Subject[a] = s /\ Has(m, Subject[a])}
    BY DEF Tells, TellsAttestations, Has
  <1> HIDE DEF j, n
  <1>6. n.pending = {a \in (A \cup B) \cap Attestations : ~Has(j, Subject[a])}
    BY <1>3, <1>4, <1>5
  <1>7. ASSUME NEW s \in S
        PROVE n.attested[s] =
                 {a \in (A \cup B) \cap Attestations : Subject[a] = s /\ Has(j, Subject[a])}
    <2>1. n.attested[s] = l.attested[s] \cup m.attested[s]
             \cup {a \in w : Has(j, Subject[a]) /\ Subject[a] = s}
      BY <1>3, <1>4
    <2> QED BY <2>1, <1>3, <1>5
  <1>8. TellsAttestations(n, A \cup B)
    BY <1>4, <1>6, <1>7 DEF TellsAttestations, Has
  <1>9. TellsSets(n, A \cup B)
    BY <1>2, <1>4 DEF TellsSets
  <1>10. TellsThreads(n, A \cup B)
    BY <1>2, <1>4 DEF TellsThreads
  <1>11. Tells(n, A \cup B)
    BY <1>8, <1>9, <1>10 DEF Tells
  <1> QED BY <1>11 DEF n, j, UnionOf

(* Records determine what a layer that tells them has in common.           *)
LEMMA TellsOne ==
  ASSUME NEW l \in Layers, NEW m \in Layers, NEW rs \in SUBSET Records,
         Tells(l, rs), Tells(m, rs)
  PROVE Common(l) = Common(m)
  <1>1. l.units = m.units /\ l.kept = m.kept
    BY DEF Tells, TellsSets
  <1>2. \A e \in Edges : (l.relation[e] # None) <=> (m.relation[e] # None)
    BY DEF Tells, TellsSets
  <1>3. {e \in Edges : l.relation[e] # None} = {e \in Edges : m.relation[e] # None}
    BY <1>2
  <1>4. ASSUME NEW n \in Names PROVE l.thread[n] = m.thread[n]
    <2> DEFINE ts == {t \in rs \cap Threads : Named[t] = n}
    <2>1. CASE ts = {}
      BY <2>1 DEF Tells, TellsThreads
    <2>2. CASE ts # {}
      <3>1. /\ l.thread[n] \in ts /\ \A t \in ts : t = l.thread[n] \/ Before(t, l.thread[n])
            /\ m.thread[n] \in ts /\ \A t \in ts : t = m.thread[n] \/ Before(t, m.thread[n])
        BY <2>2 DEF Tells, TellsThreads
      <3> QED BY <3>1, BeforeOneWay
    <2> QED BY <2>1, <2>2
  <1>5. l.thread = m.thread
    BY <1>4 DEF Layers
  <1>6. l.pending = m.pending
    BY <1>1, <1>2 DEF Tells, TellsAttestations
  <1>7. ASSUME NEW s \in Units \cup Edges PROVE l.attested[s] = m.attested[s]
    <2>1. \A x : Has(l, x) <=> Has(m, x)
      BY <1>1, <1>2 DEF Has
    <2>2. /\ l.attested[s] = {a \in rs \cap Attestations : Subject[a] = s /\ Has(l, Subject[a])}
          /\ m.attested[s] = {a \in rs \cap Attestations : Subject[a] = s /\ Has(m, Subject[a])}
      BY DEF Tells, TellsAttestations, Has
    <2> QED BY <2>1, <2>2
  <1>8. l.attested = m.attested
    BY <1>7 DEF Layers
  <1> QED BY <1>1, <1>3, <1>5, <1>6, <1>8 DEF Common

-----------------------------------------------------------------------------
LEMMA InitIInv == Init => IInv
  <1> SUFFICES ASSUME Init PROVE IInv
    OBVIOUS
  <1>1. Empty \in Layers
    BY DEF Empty, Layers
  <1>2. MergeTypeOK
    BY <1>1 DEF Init, MergeTypeOK
  <1>3. TellsSets(Empty, {}) /\ TellsThreads(Empty, {})
        /\ TellsAttestations(Empty, {}) /\ Keeps(Empty, {})
    BY DEF Empty, TellsSets, TellsThreads, TellsAttestations, Keeps
  <1>4. ASSUME NEW p \in Peers
        PROVE held[p] = {} /\ Taken(p) = {} /\ layer[p] = Empty
    BY DEF Init, Taken
  <1> QED BY <1>2, <1>3, <1>4 DEF IInv, Gathers

(* Nothing of an append but held and inbox has moved: what has been taken  *)
(* in is what it was.                                                      *)
LEMMA AppendKeeps ==
  ASSUME IInv, NEW p \in Peers, NEW rs \in SUBSET Records, Append(p, rs)
  PROVE IInv'
  <1>1. MergeTypeOK'
    BY MergeShapes DEF IInv, MergeTypeOK, Append
  <1>2. ASSUME NEW q \in Peers PROVE Taken(q)' = Taken(q)
    BY MergeShapes DEF IInv, MergeTypeOK, Append, Taken
  <1>3. \A q \in Peers : Gathers(layer[q], Taken(q))'
    BY <1>2 DEF IInv, Append
  <1>4. ASSUME NEW q \in Peers, Settled(q)'
        PROVE TellsAttestations(layer[q], held[q])'
    <2>1. q # p /\ Settled(q) /\ held'[q] = held[q] /\ layer' = layer
      BY <1>4, MergeShapes DEF IInv, MergeTypeOK, Append, Settled
    <2> QED BY <2>1 DEF IInv
  <1> QED BY <1>1, <1>3, <1>4 DEF IInv

LEMMA AbsorbKeeps ==
  ASSUME IInv, NEW p \in Peers, Absorb(p)
  PROVE IInv'
  <1> PICK r \in inbox : layer' = [layer EXCEPT ![p] = Absorbed(@, r)]
                         /\ inbox' = inbox \ {r}
    BY DEF Absorb
  <1>1. /\ appending = p /\ appending' = p /\ held' = held /\ p # None
        /\ r \in held[p] /\ r \in Records /\ held[p] \in SUBSET Records
        /\ layer[p] \in Layers
    BY MergeShapes DEF Absorb, IInv, MergeTypeOK
  <1>2. layer'[p] = Absorbed(layer[p], r)
    BY DEF IInv, MergeTypeOK
  <1>3. \A q \in Peers : q # p => layer'[q] = layer[q]
    BY DEF IInv, MergeTypeOK
  <1>4. MergeTypeOK'
    BY <1>1, AbsorbedType DEF IInv, MergeTypeOK
  <1>5. Taken(p)' = Taken(p) \cup {r}
    BY <1>1 DEF Taken
  <1>6. Gathers(layer[p], Taken(p))'
    <2>1. Gathers(layer[p], Taken(p)) /\ Taken(p) \in SUBSET Records
      BY <1>1 DEF IInv, Taken
    <2>2. TellsSets(Absorbed(layer[p], r), Taken(p) \cup {r})
      BY <1>1, <2>1, AbsorbedSets DEF Gathers
    <2>3. TellsThreads(Absorbed(layer[p], r), Taken(p) \cup {r})
      BY <1>1, <2>1, AbsorbedThreads DEF Gathers
    <2>4. Keeps(Absorbed(layer[p], r), Taken(p) \cup {r})
      BY <1>1, <2>1, AbsorbedKeeps DEF Gathers
    <2>5. Gathers(layer'[p], Taken(p)')
      BY <1>2, <1>5, <2>2, <2>3, <2>4 DEF Gathers
    <2> QED BY <2>5
  <1>7. ASSUME NEW q \in Peers, q # p
        PROVE /\ Gathers(layer[q], Taken(q))'
              /\ TellsAttestations(layer[q], held[q])'
    <2>1. Taken(q)' = Taken(q) /\ layer'[q] = layer[q] /\ held' = held /\ Settled(q)
      BY <1>1, <1>3, <1>7 DEF Taken, Settled
    <2>2. Gathers(layer[q], Taken(q)) /\ TellsAttestations(layer[q], held[q])
      BY <2>1 DEF IInv
    <2>3. Gathers(layer'[q], Taken(q)') /\ TellsAttestations(layer'[q], held'[q])
      BY <2>1, <2>2
    <2> QED BY <2>3
  <1>8. ~Settled(p)'
    BY <1>1 DEF Settled
  <1> QED BY <1>4, <1>6, <1>7, <1>8 DEF IInv

LEMMA RebuildKeeps ==
  ASSUME IInv, NEW p \in Peers, Rebuild(p)
  PROVE IInv'
  <1> DEFINE n == Attached(layer[p], layer[p].pending)
  <1>1. /\ appending = p /\ appending' = None /\ held' = held /\ inbox = {}
        /\ inbox' = {} /\ layer[p] \in Layers /\ held[p] \in SUBSET Records
        /\ layer[p].pending \in SUBSET Attestations /\ Taken(p) = held[p]
    BY DEF Rebuild, IInv, MergeTypeOK, Taken, Layers
  <1>2. layer'[p] = n /\ \A q \in Peers : q # p => layer'[q] = layer[q]
    BY DEF Rebuild, IInv, MergeTypeOK
  <1>3. /\ n \in Layers /\ n.units = layer[p].units /\ n.relation = layer[p].relation
        /\ n.thread = layer[p].thread /\ n.kept = layer[p].kept
    BY <1>1, AttachedType
  <1>4. Gathers(layer[p], held[p])
    BY <1>1 DEF IInv
  <1>5. TellsAttestations(n, held[p])
    BY <1>1, <1>4, RebuiltTells DEF Gathers
  <1> HIDE DEF n
  <1>6. Keeps(n, held[p])
    <2>1. ASSUME NEW a \in held[p] \cap Attestations
          PROVE Subject[a] \in Units \cup Edges
      BY MergeShapes
    <2> QED BY <1>5, <2>1 DEF Keeps, TellsAttestations, Has
  <1>7. Gathers(n, held[p])
    BY <1>3, <1>4, <1>6 DEF Gathers, TellsSets, TellsThreads
  <1>8. MergeTypeOK'
    <2>1. layer' = [layer EXCEPT ![p] = n]
      BY DEF Rebuild, n
    <2> QED BY <1>1, <1>3, <2>1 DEF IInv, MergeTypeOK
  <1>9. ASSUME NEW q \in Peers
        PROVE Gathers(layer'[q], Taken(q)') /\ TellsAttestations(layer'[q], held'[q])
    <2>1. Taken(q)' = held[q]
      BY <1>1 DEF Taken
    <2>2. CASE q = p
      BY <1>1, <1>2, <1>5, <1>7, <2>1, <2>2
    <2>3. CASE q # p
      <3>1. Taken(q) = held[q] /\ Settled(q)
        BY <1>1, <2>3 DEF Taken, Settled
      <3> QED BY <1>1, <1>2, <2>1, <2>3, <3>1 DEF IInv
    <2> QED BY <2>2, <2>3
  <1> QED BY <1>8, <1>9 DEF IInv

LEMMA NextKeeps == IInv /\ [Next]_vars => IInv'
  <1> SUFFICES ASSUME IInv, [Next]_vars PROVE IInv'
    OBVIOUS
  <1>1. ASSUME NEW p \in Peers, Write(p) PROVE IInv'
    <2>1. PICK r \in Writes[p] : Append(p, {r})
      BY <1>1 DEF Write
    <2>2. {r} \in SUBSET Records
      BY MergeShapes
    <2> QED BY <2>1, <2>2, AppendKeeps
  <1>2. ASSUME NEW p \in Peers, NEW q \in Peers, Receive(p, q) PROVE IInv'
    <2>1. PICK rs \in SUBSET held[q] : Append(p, rs)
      BY <1>2 DEF Receive
    <2>2. rs \in SUBSET Records
      BY DEF IInv, MergeTypeOK
    <2> QED BY <2>1, <2>2, AppendKeeps
  <1>3. ASSUME NEW p \in Peers, Absorb(p) PROVE IInv'
    BY <1>3, AbsorbKeeps
  <1>4. ASSUME NEW p \in Peers, Rebuild(p) PROVE IInv'
    BY <1>4, RebuildKeeps
  <1>5. CASE UNCHANGED vars
    BY <1>5 DEF vars, IInv, MergeTypeOK, Gathers, Taken, Settled
  <1> QED BY <1>1, <1>2, <1>3, <1>4, <1>5 DEF Next

THEOREM Invariant == Spec => []IInv
  BY InitIInv, NextKeeps, PTL DEF Spec

(* A store that is not in the middle of an append tells its records.       *)
LEMMA SettledTells ==
  ASSUME IInv, NEW p \in Peers, Settled(p)
  PROVE layer[p] \in Layers /\ held[p] \in SUBSET Records /\ Tells(layer[p], held[p])
  <1>1. Taken(p) = held[p]
    BY DEF Taken, Settled
  <1> QED BY <1>1 DEF IInv, MergeTypeOK, Gathers, Tells

(* Every variable keeps its type: whatever is still to be absorbed is held *)
(* already (Store::append, absorb_hashed).                                 *)
THEOREM MergeTypes == Spec => []MergeTypeOK
  <1>1. IInv => MergeTypeOK
    BY DEF IInv
  <1> QED BY <1>1, Invariant, PTL

(* Stores with the same records agree on everything but the weight of an   *)
(* edge, views and recorded contentions, whatever the order, the batches   *)
(* and the repeats (Store::append, Interpretive::absorb_hot).              *)
THEOREM Converges == Spec => []Converged
  <1>1. IInv => Converged
    <2> SUFFICES ASSUME IInv, NEW p \in Peers, NEW q \in Peers,
                        Settled(p), Settled(q), held[p] = held[q]
                 PROVE Common(layer[p]) = Common(layer[q])
      BY DEF Converged
    <2> QED BY SettledTells, TellsOne
  <1> QED BY <1>1, Invariant, PTL

(* Two shards read together tell the records of both (Union::new).         *)
THEOREM UnionTells == Spec => []UnionAnswers
  <1>1. IInv => UnionAnswers
    <2> SUFFICES ASSUME IInv, NEW p \in Peers, NEW q \in Peers, Settled(p), Settled(q)
                 PROVE Tells(UnionOf(layer[p], layer[q]), held[p] \cup held[q])
      BY DEF UnionAnswers
    <2> QED BY SettledTells, UnionOfTells
  <1> QED BY <1>1, Invariant, PTL
=============================================================================
