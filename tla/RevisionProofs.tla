---------------------------- MODULE RevisionProofs ----------------------------
(* Theorems about Revision: whatever units, edges and remarks arrive, and  *)
(* however much is relinked and compacted between them.                    *)
EXTENDS Revision, FiniteSetTheorems, WellFoundedInduction, TLAPS

(* What an edge ends in is among the ends of the edges.                    *)
LEMMA EndsOf ==
    ASSUME NEW edges, NEW e \in edges
    PROVE  e[1] \in Ends(edges) /\ e[2] \in Ends(edges)
BY DEF Ends

(* compact: no end of a retraction is dropped, so no retraction is.        *)
LEMMA RetractionsKept ==
    ASSUME Compact
    PROVE  retracts' = retracts /\ Retracted \subseteq units'
<1>1. Dropped \cap Ends(retracts) = {}
  BY DEF Dropped
<1>2. \A r \in retracts : {r[1], r[2]} \cap Dropped = {}
  BY <1>1, EndsOf
<1>3. retracts' = retracts
  BY <1>2 DEF Compact, Without
<1>4. ASSUME NEW u \in Retracted
      PROVE  u \in units'
  <2>1. PICK r \in retracts : u = r[2]
    BY DEF Retracted
  <2>2. u \notin Dropped
    BY <1>2, <2>1
  <2> QED
    BY <2>2 DEF Compact, Retracted
<1> QED
  BY <1>3, <1>4

-----------------------------------------------------------------------------
(* No step of anybody, compaction least of all, takes away a unit that has *)
(* been retracted or what says that it is (compact.rs:14).                 *)
THEOREM RetractionsStand == Spec => RetractionStands
<1>1. ASSUME [Next]_store
      PROVE  Retracted \subseteq Retracted'
  <2>1. CASE DeliverUnit
    BY <2>1 DEF DeliverUnit, Retracted
  <2>2. CASE DeliverReplacement
    BY <2>2 DEF DeliverReplacement, Retracted
  <2>3. CASE DeliverRemark
    BY <2>3 DEF DeliverRemark, Retracted
  <2>4. ASSUME NEW u \in units, Retract(u)
        PROVE  Retracted \subseteq Retracted'
    BY <2>4 DEF Retract, Retracted
  <2>5. CASE Relink
    BY <2>5 DEF Relink, Retracted
  <2>6. CASE Compact
    BY <2>6, RetractionsKept DEF Retracted
  <2>7. CASE UNCHANGED store
    BY <2>7 DEF store, Retracted
  <2> QED
    BY <1>1, <2>1, <2>2, <2>3, <2>4, <2>5, <2>6, <2>7 DEF Next
<1> QED
  BY <1>1, PTL DEF Spec, RetractionStands

-----------------------------------------------------------------------------
(* Of some sets of things of which there are finitely many, one is part of *)
(* no other: an induction over finite sets.                                *)
LEMMA LargestOf ==
    ASSUME NEW X, IsFiniteSet(X), NEW P \in SUBSET SUBSET X, P # {}
    PROVE  \E B \in P : \A C \in P : B \subseteq C => C = B
<1> DEFINE Rests == {X \ B : B \in P}
           F == FiniteSubsetsOf(X)
           R == StrictSubsetOrdering(X)
<1>1. IsWellFoundedOn(R, F)
  BY FS_StrictSubsetOrderingWellFounded
<1>2. \A B \in SUBSET X : X \ B \in F
  BY FS_Subset DEF FiniteSubsetsOf
<1>3. Rests \subseteq F /\ Rests # {}
  <2>1. ASSUME NEW A \in Rests PROVE A \in F
    <3>1. PICK B \in P : A = X \ B
      BY <2>1
    <3> QED
      BY <1>2, <3>1
  <2>2. Rests # {}
    <3>1. PICK B : B \in P
      OBVIOUS
    <3>2. X \ B \in Rests
      BY <3>1
    <3> QED
      BY <3>2
  <2> QED
    BY <2>1, <2>2
<1>4. PICK A \in Rests : \A C \in Rests : ~(<<C, A>> \in R)
  <2> HIDE DEF Rests, F, R
  <2> QED
    BY <1>1, <1>3, WFMin
<1>5. PICK B \in P : A = X \ B
  BY <1>4
<1>6. ASSUME NEW C \in P, B \subseteq C, C # B PROVE FALSE
  <2>1. /\ X \ C \subseteq X \ B /\ X \ C # X \ B
        /\ X \ C \in SUBSET X /\ X \ B \in SUBSET X
    BY <1>6
  <2>2. <<X \ C, X \ B>> \in R
    BY <2>1 DEF StrictSubsetOrdering
  <2> QED
    BY <1>4, <1>5, <2>2
<1> QED
  BY <1>6

-----------------------------------------------------------------------------
(***************************************************************************)
(* What a retraction leaves without support is the least set of units that *)
(* has the retracted ones and leaves nothing more without support.         *)
(***************************************************************************)
Loses(us, gone) ==
    {u \in us \ gone : u.grounds \cap us # {} /\ u.grounds \cap us \subseteq gone}

Spreads(us, f) ==
    f = [gone \in SUBSET us |-> IF Loses(us, gone) = {} THEN gone
                                ELSE f[gone \cup Loses(us, gone)]]

Settles(us, gone, S) ==
    S \in SUBSET us /\ gone \subseteq S /\ Loses(us, S) = {}

Least(us, gone, S) ==
    Settles(us, gone, S) /\ \A T \in SUBSET us : Settles(us, gone, T) => S \subseteq T

(* A set that settles has what any part of it leaves without support. *)
LEMMA SettledHasLost ==
    ASSUME NEW us, NEW gone \in SUBSET us, NEW S, Settles(us, gone, S)
    PROVE  Settles(us, gone \cup Loses(us, gone), S)
<1>1. ASSUME NEW u \in Loses(us, gone), u \notin S PROVE FALSE
  <2>1. u \in Loses(us, S)
    BY <1>1 DEF Loses, Settles
  <2> QED
    BY <2>1 DEF Settles
<1> QED
  BY <1>1 DEF Settles

(* The loop is a function: to the sets that settle it gives what they have *)
(* in common, for one.                                                     *)
LEMMA SpreadExists ==
    ASSUME NEW us
    PROVE  \E f : Spreads(us, f)
<1> DEFINE All(gone) == {S \in SUBSET us : Settles(us, gone, S)}
           f == [gone \in SUBSET us |-> {u \in us : \A S \in All(gone) : u \in S}]
           g == [gone \in SUBSET us |-> IF Loses(us, gone) = {} THEN gone
                                        ELSE f[gone \cup Loses(us, gone)]]
<1>1. ASSUME NEW gone \in SUBSET us PROVE f[gone] = g[gone]
  <2>1. CASE Loses(us, gone) = {}
    <3>1. gone \in All(gone) /\ \A S \in All(gone) : gone \subseteq S
      BY <2>1 DEF Settles
    <3>2. f[gone] = gone
      BY <3>1
    <3> QED
      BY <2>1, <3>2
  <2>2. CASE Loses(us, gone) # {}
    <3> DEFINE more == gone \cup Loses(us, gone)
    <3>1. more \in SUBSET us
      BY DEF Loses
    <3>2. \A S : Settles(us, gone, S) => Settles(us, more, S)
      BY SettledHasLost
    <3>3. \A S : Settles(us, more, S) => Settles(us, gone, S)
      BY DEF Settles
    <3>4. All(gone) = All(more)
      BY <3>2, <3>3
    <3>5. f[gone] = f[more]
      BY <3>1, <3>4
    <3> QED
      BY <2>2, <3>5
  <2> QED
    BY <2>1, <2>2
<1>2. f = g
  <2> HIDE DEF All
  <2> QED
    BY <1>1, Zenon
<1> QED
  BY <1>2 DEF Spreads

(* Of finitely many units it gives the least set that settles: it stops at *)
(* each set it adds nothing to, and the rest gets smaller till then.       *)
LEMMA SpreadIsLeast ==
    ASSUME NEW us, IsFiniteSet(us), NEW f, Spreads(us, f), NEW ret \in SUBSET us
    PROVE  Least(us, ret, f[ret])
<1> DEFINE Bad == {gone \in SUBSET us : ~Least(us, gone, f[gone])}
<1>1. ASSUME Bad # {} PROVE FALSE
  <2>1. PICK gone \in Bad : \A C \in Bad : gone \subseteq C => C = gone
    <3>1. Bad \in SUBSET SUBSET us
      OBVIOUS
    <3> HIDE DEF Bad
    <3> QED
      BY <1>1, <3>1, LargestOf
  <2> DEFINE more == gone \cup Loses(us, gone)
  <2>2. more \in SUBSET us /\ f[gone] = IF Loses(us, gone) = {} THEN gone ELSE f[more]
    BY DEF Spreads, Loses
  <2>3. CASE Loses(us, gone) = {}
    BY <2>2, <2>3 DEF Least, Settles
  <2>4. CASE Loses(us, gone) # {}
    <3>1. gone \subseteq more /\ more # gone
      BY <2>4 DEF Loses
    <3>2. Least(us, more, f[more])
      BY <2>1, <2>2, <3>1
    <3>3. Settles(us, gone, f[more])
      BY <3>2 DEF Least, Settles
    <3>4. \A T \in SUBSET us : Settles(us, gone, T) => f[more] \subseteq T
      BY <3>2, SettledHasLost DEF Least
    <3> QED
      BY <2>2, <2>4, <3>3, <3>4 DEF Least
  <2> QED
    BY <2>3, <2>4
<1> QED
  BY <1>1

LEMMA UnfoundedIsLeast ==
    IsFiniteSet(units) => Least(units, Retracted, Unfounded)
<1> DEFINE spread == CHOOSE f :
               f = [gone \in SUBSET units |->
                       IF Unsupported(gone) = {} THEN gone
                       ELSE f[gone \cup Unsupported(gone)]]
<1>1. \A gone : Unsupported(gone) = Loses(units, gone)
  BY DEF Unsupported, Loses
<1>2. \E f : f = [gone \in SUBSET units |->
                     IF Unsupported(gone) = {} THEN gone
                     ELSE f[gone \cup Unsupported(gone)]]
  BY SpreadExists DEF Unsupported, Loses, Spreads
<1>3. spread = [gone \in SUBSET units |->
                   IF Unsupported(gone) = {} THEN gone
                   ELSE spread[gone \cup Unsupported(gone)]]
  BY <1>2, Zenon
<1>4. Spreads(units, spread)
  BY <1>3 DEF Unsupported, Loses, Spreads
<1>5. Unfounded = spread[Retracted] /\ Retracted \in SUBSET units
  BY DEF Unfounded, Retracted
<1> HIDE DEF spread
<1> QED
  BY <1>4, <1>5, SpreadIsLeast

-----------------------------------------------------------------------------
(***************************************************************************)
(* The recursive functions of relinking exist: each is had on more and     *)
(* more of its domain, what it asks of itself first.                       *)
(***************************************************************************)
LEMMA OneByOne ==
    ASSUME NEW X, IsFiniteSet(X), NEW Good \in SUBSET SUBSET X, {} \in Good,
           \A Y \in Good : Y # X => \E x \in X \ Y : Y \cup {x} \in Good
    PROVE  X \in Good
<1>1. PICK Y \in Good : \A Z \in Good : Y \subseteq Z => Z = Y
  BY LargestOf
<1>2. ASSUME Y # X PROVE FALSE
  <2>1. PICK x \in X \ Y : Y \cup {x} \in Good
    BY <1>2
  <2> QED
    BY <1>1, <2>1
<1> QED
  BY <1>2

(* resettle: what becomes of a ground, and of a unit, in the sweep. *)
Now(to, us, s, g) ==
    LET now == IF g \in us THEN s[g] ELSE g
    IN IF now # g THEN now ELSE IF g \in DOMAIN to THEN to[g] ELSE g

Swept(to, us, s, u) == [u EXCEPT !.grounds = {Now(to, us, s, g) : g \in u.grounds}]

Sweeps(to, us, s) == s = [u \in us |-> Swept(to, us, s, u)]

(* Of any of the units, one rests on none of them. *)
Ordered(us) == \A S \in SUBSET us : S # {} => \E u \in S : u.grounds \cap S = {}

LEMMA SweptAlike ==
    ASSUME NEW to, NEW us, NEW s, NEW t, NEW u,
           \A g \in u.grounds \cap us : s[g] = t[g]
    PROVE  Swept(to, us, s, u) = Swept(to, us, t, u)
<1>1. \A g \in u.grounds : Now(to, us, s, g) = Now(to, us, t, g)
  BY DEF Now
<1>2. {Now(to, us, s, g) : g \in u.grounds} = {Now(to, us, t, g) : g \in u.grounds}
  BY <1>1
<1> QED
  BY <1>2 DEF Swept

LEMMA SweepExists ==
    ASSUME NEW us, IsFiniteSet(us), Ordered(us), NEW to
    PROVE  \E s : Sweeps(to, us, s)
<1> DEFINE Done(Y) == \A u \in Y : u.grounds \cap us \subseteq Y
           Has(Y) == \E s : s = [u \in Y |-> Swept(to, us, s, u)]
           Good == {Y \in SUBSET us : Done(Y) /\ Has(Y)}
<1>1. {} \in Good
  <2> DEFINE s == [u \in {} |-> u]
  <2>1. s = [u \in {} |-> Swept(to, us, s, u)]
    OBVIOUS
  <2> HIDE DEF s
  <2>2. Has({})
    BY <2>1
  <2> QED
    BY <2>2
<1>2. ASSUME NEW Y \in Good, Y # us
      PROVE  \E x \in us \ Y : Y \cup {x} \in Good
  <2>1. PICK u \in us \ Y : u.grounds \cap (us \ Y) = {}
    BY <1>2 DEF Ordered
  <2>2. u.grounds \cap us \subseteq Y /\ Y \cup {u} \in SUBSET us
    BY <2>1
  <2>3. PICK s : s = [v \in Y |-> Swept(to, us, s, v)]
    OBVIOUS
  <2> DEFINE t == [v \in Y \cup {u} |-> IF v = u THEN Swept(to, us, s, u) ELSE s[v]]
             r == [v \in Y \cup {u} |-> Swept(to, us, t, v)]
  <2>4. \A v \in Y : t[v] = s[v]
    OBVIOUS
  <2>5. ASSUME NEW v \in Y \cup {u} PROVE t[v] = r[v]
    <3>1. v.grounds \cap us \subseteq Y
      BY <2>2
    <3>2. Swept(to, us, s, v) = Swept(to, us, t, v)
      <4> HIDE DEF t
      <4> QED
        BY <2>4, <3>1, SweptAlike
    <3>3. t[v] = Swept(to, us, s, v)
      BY <2>3
    <3> QED
      BY <3>2, <3>3
  <2>6. t = r
    BY <2>5, Zenon
  <2>7. Has(Y \cup {u})
    <3> HIDE DEF t
    <3> QED
      BY <2>6
  <2>8. Done(Y \cup {u})
    BY <2>2
  <2> QED
    BY <2>2, <2>7, <2>8
<1>3. us \in Good
  <2> HIDE DEF Done, Has
  <2>1. Good \in SUBSET SUBSET us
    OBVIOUS
  <2> HIDE DEF Good
  <2> QED
    BY <1>1, <1>2, <2>1, OneByOne
<1> QED
  BY <1>3 DEF Sweeps

(* supersession_heads: the walk along the replacements, from where it is   *)
(* and what it has seen.                                                   *)
Walked(next, w, at) ==
    IF at[1] \in DOMAIN next \ at[2]
    THEN w[<<next[at[1]], at[2] \cup {at[1]}>>] ELSE at[1]

Walks(V, next, w) ==
    w = [at \in V \X SUBSET DOMAIN next |-> Walked(next, w, at)]

LEMMA WalkExists ==
    ASSUME NEW V, NEW D \in SUBSET V, IsFiniteSet(D), NEW next \in [D -> V]
    PROVE  \E w : Walks(V, next, w)
<1> DEFINE Done(Y) == \A T \in Y, U \in SUBSET D : T \subseteq U => U \in Y
           Has(Y) == \E w : w = [at \in V \X Y |-> Walked(next, w, at)]
           Good == {Y \in SUBSET SUBSET D : Done(Y) /\ Has(Y)}
<1>0. DOMAIN next = D
  OBVIOUS
<1>1. {} \in Good
  <2> DEFINE w == [at \in V \X {} |-> at]
             r == [at \in V \X {} |-> Walked(next, w, at)]
  <2>1. w = r
    <3>1. V \X {} = {}
      OBVIOUS
    <3>2. \A at \in V \X {} : w[at] = r[at]
      BY <3>1
    <3> QED
      BY <3>2, Zenon
  <2> HIDE DEF w
  <2>2. Has({})
    BY <2>1
  <2> QED
    BY <2>2
<1>2. ASSUME NEW Y \in Good, Y # SUBSET D
      PROVE  \E T \in (SUBSET D) \ Y : Y \cup {T} \in Good
  <2>1. PICK T \in (SUBSET D) \ Y :
              \A U \in (SUBSET D) \ Y : T \subseteq U => U = T
    <3> DEFINE rest == (SUBSET D) \ Y
    <3>1. rest # {} /\ rest \in SUBSET SUBSET D
      BY <1>2
    <3> HIDE DEF rest
    <3>2. \E T \in rest : \A U \in rest : T \subseteq U => U = T
      BY <3>1, LargestOf
    <3> QED
      BY <3>2 DEF rest
  <2>2. \A U \in SUBSET D : T \subseteq U /\ U # T => U \in Y
    BY <2>1
  <2>3. PICK w : w = [at \in V \X Y |-> Walked(next, w, at)]
    OBVIOUS
  <2> DEFINE t == [at \in V \X (Y \cup {T}) |->
                      IF at[2] = T THEN Walked(next, w, at) ELSE w[at]]
             r == [at \in V \X (Y \cup {T}) |-> Walked(next, t, at)]
  <2>4. \A at \in V \X Y : at[2] # T /\ t[at] = w[at]
    OBVIOUS
  <2>5. ASSUME NEW at \in V \X (Y \cup {T}) PROVE t[at] = r[at]
    <3>1. at[1] \in D \ at[2] => <<next[at[1]], at[2] \cup {at[1]}>> \in V \X Y
      <4>1. at[2] \in Y \cup {T} /\ at[2] \in SUBSET D
        OBVIOUS
      <4>2. at[1] \in D \ at[2] => /\ at[2] \cup {at[1]} \in SUBSET D
                                   /\ at[2] \subseteq at[2] \cup {at[1]}
                                   /\ at[2] \cup {at[1]} # at[2]
        BY <4>1
      <4>3. at[1] \in D \ at[2] => at[2] \cup {at[1]} \in Y
        BY <2>2, <4>1, <4>2
      <4> QED
        BY <4>3
    <3>2. Walked(next, w, at) = Walked(next, t, at)
      <4> HIDE DEF t
      <4> QED
        BY <1>0, <2>4, <3>1 DEF Walked
    <3>3. t[at] = Walked(next, w, at)
      <4>1. CASE at[2] = T
        BY <4>1
      <4>2. CASE at[2] # T
        <5>1. at \in V \X Y
          BY <4>2
        <5> QED
          BY <2>3, <4>2, <5>1
      <4> QED
        BY <4>1, <4>2
    <3> QED
      BY <3>2, <3>3
  <2>6. t = r
    BY <2>5, Zenon
  <2>7. Has(Y \cup {T})
    <3> HIDE DEF t
    <3> QED
      BY <2>6
  <2>8. Done(Y \cup {T})
    BY <2>2
  <2>9. Y \cup {T} \in SUBSET SUBSET D
    OBVIOUS
  <2> HIDE DEF Done, Has
  <2> QED
    BY <2>7, <2>8, <2>9
<1>3. SUBSET D \in Good
  <2> HIDE DEF Done, Has
  <2>1. Good \in SUBSET SUBSET SUBSET D
    OBVIOUS
  <2>2. IsFiniteSet(SUBSET D)
    BY FS_SUBSET
  <2> HIDE DEF Good
  <2> QED
    BY <1>1, <1>2, <2>1, <2>2, OneByOne
<1> QED
  BY <1>0, <1>3 DEF Walks

LEMMA WalkEnds ==
    ASSUME NEW V, NEW D \in SUBSET V, IsFiniteSet(D), NEW next \in [D -> V],
           NEW w, Walks(V, next, w), NEW at \in V \X SUBSET D
    PROVE  w[at] = at[1] \/ \E u \in D : w[at] = next[u]
<1> DEFINE Reached(b) == w[b] = b[1] \/ \E u \in D : w[b] = next[u]
           Bad == {T \in SUBSET D : \E v \in V : ~Reached(<<v, T>>)}
<1>1. ASSUME Bad # {} PROVE FALSE
  <2>1. PICK T \in Bad : \A U \in Bad : T \subseteq U => U = T
    <3>1. Bad \in SUBSET SUBSET D
      OBVIOUS
    <3> HIDE DEF Bad
    <3> QED
      BY <1>1, <3>1, LargestOf
  <2>2. PICK v \in V : ~Reached(<<v, T>>)
    BY <2>1
  <2>3. w[<<v, T>>] = Walked(next, w, <<v, T>>)
    BY DEF Walks
  <2>4. v \in D \ T
    BY <2>2, <2>3 DEF Walked
  <2>5. w[<<v, T>>] = w[<<next[v], T \cup {v}>>]
    BY <2>3, <2>4 DEF Walked
  <2>6. next[v] \in V /\ T \cup {v} \in SUBSET D /\ T \cup {v} # T
    BY <2>4
  <2>7. Reached(<<next[v], T \cup {v}>>)
    <3>1. T \cup {v} \notin Bad
      BY <2>1, <2>6
    <3> HIDE DEF Reached
    <3> QED
      BY <2>6, <3>1
  <2> QED
    BY <2>2, <2>4, <2>5, <2>7
<1>2. at[1] \in V /\ at[2] \in SUBSET D /\ at = <<at[1], at[2]>>
  OBVIOUS
<1>3. Reached(<<at[1], at[2]>>)
  BY <1>1, <1>2
<1> QED
  BY <1>2, <1>3

-----------------------------------------------------------------------------
(* Every unit that has been replaced, and not forked, has a successor, and *)
(* its newest replacement is something that replaces.                      *)
LEMMA ImageFinite ==
    ASSUME NEW S, IsFiniteSet(S), NEW f
    PROVE  IsFiniteSet({f[x] : x \in S})
<1> DEFINE g == [x \in S |-> f[x]]
<1>1. g \in Surjection(S, {f[x] : x \in S})
  BY DEF Surjection
<1> QED
  BY <1>1, FS_Surjection

LEMMA SuccessorAmong ==
    ASSUME IsFiniteSet(supersedes), NEW u \in Replaced
    PROVE  Successor(u) \in Successors(u)
<1> DEFINE S == {d \in supersedes : d[2] = u}
           f == [e \in S |-> e[1]]
<1>1. IsFiniteSet(Successors(u))
  <2>1. IsFiniteSet(S)
    BY FS_Subset
  <2>2. Successors(u) = {f[e] : e \in S}
    BY DEF Successors
  <2> HIDE DEF S, f
  <2> QED
    BY <2>1, <2>2, ImageFinite
<1>2. Successors(u) # {}
  BY DEF Replaced, Successors
<1>3. CASE Cardinality(Successors(u)) = 1
  BY <1>2, <1>3 DEF Successor
<1>4. CASE Cardinality(Successors(u)) # 1
  <2>1. Cardinality(Successors(u)) > 1
    BY <1>1, <1>2, <1>4, FS_CardinalityType, FS_EmptySet
  <2>2. Cardinality(Latest(u)) = 1
    BY <2>1 DEF Replaced, Forked
  <2>3. Latest(u) \in SUBSET Successors(u)
    BY DEF Latest
  <2>4. IsFiniteSet(Latest(u))
    BY <1>1, <2>3, FS_Subset
  <2>5. PICK n : Latest(u) = {n}
    BY <2>2, <2>4, FS_Singleton
  <2>6. (CHOOSE m \in Latest(u) : TRUE) \in Latest(u)
    BY <2>5
  <2> QED
    BY <1>4, <2>3, <2>6 DEF Successor
<1> QED
  BY <1>3, <1>4

LEMMA NewestOf ==
    ASSUME IsFiniteSet(supersedes)
    PROVE  /\ DOMAIN Newest \subseteq Replaced
           /\ \A u \in DOMAIN Newest : \E e \in supersedes : Newest[u] = e[1]
<1> DEFINE next == [u \in Replaced |-> Successor(u)]
           V == Ends(supersedes)
           walk == CHOOSE w : w = [at \in V \X SUBSET DOMAIN next |->
                       IF at[1] \in DOMAIN next \ at[2]
                       THEN w[<<next[at[1]], at[2] \cup {at[1]}>>] ELSE at[1]]
<1>1. next \in [Replaced -> V] /\ Replaced \in SUBSET V
  <2>1. \A u \in Replaced : Successor(u) \in V /\ u \in V
    BY SuccessorAmong, EndsOf DEF Successors, Replaced
  <2> QED
    BY <2>1
<1>2. IsFiniteSet(Replaced)
  <2> DEFINE f == [e \in supersedes |-> e[2]]
             T == {f[e] : e \in supersedes}
  <2>1. Replaced \in SUBSET T
    BY DEF Replaced
  <2> HIDE DEF f
  <2>2. IsFiniteSet(T)
    BY ImageFinite
  <2> QED
    BY <2>1, <2>2, FS_Subset
<1>3. Newest = [u \in {v \in DOMAIN next : walk[<<v, {}>>] # v} |-> walk[<<u, {}>>]]
  BY DEF Newest
<1>4. \E w : Walks(V, next, w)
  <2> HIDE DEF next, V
  <2> QED
    BY <1>1, <1>2, WalkExists
<1>5. Walks(V, next, walk)
  <2> HIDE DEF next, V
  <2> QED
    BY <1>4, Zenon DEF Walks, Walked
<1>6. DOMAIN next = Replaced
  OBVIOUS
<1>7. ASSUME NEW u \in Replaced, walk[<<u, {}>>] # u
      PROVE  \E e \in supersedes : walk[<<u, {}>>] = e[1]
  <2>1. PICK v \in Replaced : walk[<<u, {}>>] = next[v]
    <3> HIDE DEF next, V, walk
    <3>1. <<u, {}>> \in V \X SUBSET Replaced
      BY <1>1
    <3> QED
      BY <1>1, <1>2, <1>5, <1>7, <3>1, WalkEnds
  <2>2. next[v] \in Successors(v)
    BY SuccessorAmong
  <2> HIDE DEF walk, next
  <2> QED
    BY <2>1, <2>2 DEF Successors
<1> HIDE DEF walk, next
<1> QED
  BY <1>3, <1>6, <1>7

-----------------------------------------------------------------------------
(* The units halfway through relinking, and where the sweep leaves them.   *)
Halfway == {Repointed[u] : u \in DOMAIN Repointed}

LEMMA RelinkedSweeps ==
    ASSUME IsFiniteSet(Halfway), Ordered(Halfway)
    PROVE  \E s : /\ Sweeps(Repointed, Halfway, s)
                  /\ Relinked = [u \in DOMAIN Repointed |-> s[Repointed[u]]]
<1> DEFINE to == Repointed
           swept == {to[u] : u \in DOMAIN to}
           moved(g) == IF g \in DOMAIN to THEN to[g] ELSE g
           s == CHOOSE t : t = [u \in swept |->
                   [u EXCEPT !.grounds =
                       {LET now == IF g \in swept THEN t[g] ELSE g
                        IN IF now # g THEN now ELSE moved(g) : g \in @}]]
<1>1. \E t : Sweeps(Repointed, Halfway, t)
  BY SweepExists
<1>2. Sweeps(Repointed, Halfway, s)
  BY <1>1, Zenon DEF Sweeps, Swept, Now, Halfway
<1>3. Relinked = [u \in DOMAIN to |-> s[to[u]]]
  BY DEF Relinked
<1> HIDE DEF s
<1> QED
  BY <1>2, <1>3

(* Units are content: the grounds are all that is changed of one. *)
Content(u) == u = [name |-> u.name, grounds |-> u.grounds]

(* All that has been written anywhere, the store's units and edges of it.  *)
Written(us) ==
    /\ units \subseteq us /\ Ends(supersedes) \subseteq us /\ Drafts \subseteq us
    /\ \A u \in us : Content(u) /\ u.grounds \subseteq us
    /\ Ordered(us)

RevisionInv == /\ IsFiniteSet(units) /\ IsFiniteSet(supersedes)
               /\ \E us : Written(us)

LEMMA OrderedWith ==
    ASSUME NEW us, Ordered(us), \A u \in us : u.grounds \subseteq us,
           NEW more, Ordered(more), more \cap us = {}
    PROVE  Ordered(us \cup more)
<1> SUFFICES ASSUME NEW S \in SUBSET (us \cup more), S # {}
             PROVE  \E u \in S : u.grounds \cap S = {}
  BY DEF Ordered
<1>1. CASE S \cap us # {}
  <2>1. PICK u \in S \cap us : u.grounds \cap (S \cap us) = {}
    BY <1>1 DEF Ordered
  <2> QED
    BY <2>1
<1>2. CASE S \cap us = {}
  BY <1>2 DEF Ordered
<1> QED
  BY <1>1, <1>2

LEMMA HalfwayWritten ==
    ASSUME RevisionInv, NEW us, Written(us)
    PROVE  /\ DOMAIN Repointed = units \ DOMAIN Newest
           /\ IsFiniteSet(Halfway)
           /\ \A u \in Halfway : Content(u) /\ u.grounds \subseteq us
           /\ Ordered(us \cup Halfway) /\ Ordered(Halfway)
<1> DEFINE at(g) == IF g \in DOMAIN Newest THEN Newest[g] ELSE g
<1>1. Repointed = [u \in units \ DOMAIN Newest |-> [u EXCEPT !.grounds = {at(g) : g \in @}]]
  BY DEF Repointed
<1>2. \A g \in us : at(g) \in us
  BY NewestOf, EndsOf DEF RevisionInv, Written
<1>3. ASSUME NEW u \in units \ DOMAIN Newest
      PROVE  Content(Repointed[u]) /\ Repointed[u].grounds \subseteq us
  <2>1. Content(u) /\ u.grounds \subseteq us
    BY DEF Written
  <2>2. Repointed[u] = [name |-> u.name, grounds |-> {at(g) : g \in u.grounds}]
    BY <1>1, <2>1 DEF Content
  <2> QED
    BY <1>2, <2>1, <2>2 DEF Content
<1>4. DOMAIN Repointed = units \ DOMAIN Newest
  BY <1>1
<1>5. \A u \in Halfway : Content(u) /\ u.grounds \subseteq us
  BY <1>3, <1>4 DEF Halfway
<1>6. IsFiniteSet(Halfway)
  <2>1. IsFiniteSet(DOMAIN Repointed)
    BY <1>4, FS_Subset DEF RevisionInv
  <2> QED
    BY <2>1, ImageFinite DEF Halfway
<1>7. Ordered(Halfway \ us)
  BY <1>5 DEF Ordered
<1>8. Ordered(us \cup (Halfway \ us))
  BY <1>7, OrderedWith DEF Written
<1>9. us \cup (Halfway \ us) = us \cup Halfway
  OBVIOUS
<1> QED
  BY <1>4, <1>5, <1>6, <1>8, <1>9 DEF Ordered

(* What is swept is written in order too: a unit comes after what became   *)
(* of its grounds.                                                         *)
LEMMA SweptWritten ==
    ASSUME RevisionInv, NEW us, Written(us), NEW s, Sweeps(Repointed, Halfway, s)
    PROVE  \E all : /\ us \subseteq all /\ \A u \in Halfway : s[u] \in all
                    /\ \A u \in all : Content(u) /\ u.grounds \subseteq all
                    /\ Ordered(all)
<1> DEFINE half == us \cup Halfway
           new == {s[u] : u \in Halfway} \ half
           now(g) == Now(Repointed, Halfway, s, g)
<1>1. /\ \A u \in Halfway : Content(u) /\ u.grounds \subseteq us
      /\ Ordered(half) /\ Ordered(Halfway)
      /\ \A u \in half : Content(u) /\ u.grounds \subseteq half
  BY HalfwayWritten DEF Written
<1>2. \A g \in us : now(g) \in half \/ (g \in Halfway /\ now(g) = s[g])
  BY DEF Now, Halfway
<1>3. ASSUME NEW u \in Halfway
      PROVE  Content(s[u]) /\ s[u].grounds = {now(g) : g \in u.grounds}
  <2>1. s[u] = Swept(Repointed, Halfway, s, u) /\ Content(u)
    BY <1>1 DEF Sweeps
  <2>2. s[u] = [name |-> u.name, grounds |-> {now(g) : g \in u.grounds}]
    BY <2>1 DEF Swept, Content
  <2> QED
    BY <2>2 DEF Content
<1>4. ASSUME NEW u \in Halfway, NEW h \in s[u].grounds
      PROVE  h \in half \/ \E g \in u.grounds \cap Halfway : h = s[g]
  <2>1. PICK g \in u.grounds : h = now(g)
    BY <1>3
  <2> QED
    BY <1>1, <1>2, <2>1
<1>5. ASSUME NEW S \in SUBSET new, S # {}
      PROVE  \E u \in S : u.grounds \cap S = {}
  <2> DEFINE T == {u \in Halfway : s[u] \in S}
  <2>1. T \in SUBSET Halfway /\ T # {}
    BY <1>5
  <2>2. PICK u \in T : u.grounds \cap T = {}
    BY <1>1, <2>1 DEF Ordered
  <2>3. ASSUME NEW h \in s[u].grounds \cap S PROVE FALSE
    BY <1>4, <2>2
  <2> QED
    BY <2>2, <2>3
<1>6. Ordered(half \cup new)
  <2>1. Ordered(new) /\ new \cap half = {}
    BY <1>5 DEF Ordered
  <2> HIDE DEF new, half
  <2> QED
    BY <1>1, <2>1, OrderedWith
<1>7. ASSUME NEW u \in Halfway
      PROVE  Content(s[u]) /\ s[u].grounds \subseteq half \cup new
  <2>1. \A g \in Halfway : s[g] \in half \cup new
    OBVIOUS
  <2> HIDE DEF new
  <2> QED
    BY <1>3, <1>4, <2>1
<1>8. \A u \in half \cup new : Content(u) /\ u.grounds \subseteq half \cup new
  BY <1>1, <1>7
<1> DEFINE all == half \cup new
<1>9. us \subseteq all /\ \A u \in Halfway : s[u] \in all
  OBVIOUS
<1> HIDE DEF half, new
<1> QED
  BY <1>6, <1>8, <1>9

LEMMA RelinkWrites ==
    ASSUME RevisionInv, Relink
    PROVE  \E us : Written(us)'
<1>1. PICK us : Written(us)
  BY DEF RevisionInv
<1>2. IsFiniteSet(Halfway) /\ Ordered(Halfway)
  BY <1>1, HalfwayWritten
<1>3. PICK s : /\ Sweeps(Repointed, Halfway, s)
               /\ Relinked = [u \in DOMAIN Repointed |-> s[Repointed[u]]]
  BY <1>2, RelinkedSweeps
<1>4. PICK all : /\ us \subseteq all /\ \A u \in Halfway : s[u] \in all
                 /\ \A u \in all : Content(u) /\ u.grounds \subseteq all
                 /\ Ordered(all)
  BY <1>1, <1>3, SweptWritten
<1>5. \A e \in Moves : e[1] \in all /\ e[2] \in all
  <2>1. \A u \in DOMAIN Relinked : Relinked[u] \in all /\ u \in all
    BY <1>1, <1>3, <1>4, HalfwayWritten DEF Halfway, Written
  <2> QED
    BY <2>1 DEF Moves, Becoming
<1>6. units' \subseteq all /\ Ends(supersedes') \subseteq all /\ Drafts \subseteq all
  BY <1>1, <1>4, <1>5 DEF Relink, Written, Ends
<1> QED
  BY <1>4, <1>6 DEF Written

LEMMA MovesFinitely ==
    ASSUME RevisionInv
    PROVE  IsFiniteSet(Moves) /\ IsFiniteSet({e[1] : e \in Moves})
<1> DEFINE becomes == Relinked
           moved == {v \in DOMAIN becomes : becomes[v] # v}
           f == [u \in moved |-> <<becomes[u], u>>]
           h == [e \in Moves |-> e[1]]
<1>0. Moves = {<<becomes[u], u>> : u \in moved}
  BY DEF Moves, Becoming
<1>1. DOMAIN becomes \subseteq units
  BY DEF Relinked, Repointed
<1> HIDE DEF becomes
<1>2. IsFiniteSet(moved)
  BY <1>1, FS_Subset DEF RevisionInv
<1>3. Moves = {f[u] : u \in moved}
  BY <1>0
<1> HIDE DEF f, moved
<1>4. IsFiniteSet(Moves)
  BY <1>2, <1>3, ImageFinite
<1> DEFINE firsts == {h[e] : e \in Moves}
<1>5. {e[1] : e \in Moves} = firsts
  OBVIOUS
<1>6. IsFiniteSet(firsts)
  <2> HIDE DEF h
  <2> QED
    BY <1>4, ImageFinite
<1> HIDE DEF firsts
<1> QED
  BY <1>4, <1>5, <1>6

LEMMA RevisionInvHolds == Spec => []RevisionInv
<1>1. Init => RevisionInv
  <2> SUFFICES ASSUME Init PROVE RevisionInv
    OBVIOUS
  <2>1. Written(Drafts)
    BY GroundsFirst DEF Init, Written, Content, Ordered, Ends
  <2> QED
    BY <2>1, FS_EmptySet DEF Init, RevisionInv
<1>2. ASSUME RevisionInv, [Next]_store
      PROVE  RevisionInv'
  <2>1. PICK us : Written(us)
    BY <1>2 DEF RevisionInv
  <2> USE <1>2 DEF RevisionInv
  <2>2. CASE DeliverUnit
    <3>1. Written(us)'
      BY <2>1, <2>2 DEF DeliverUnit, Written
    <3> QED
      BY <2>2, <3>1, FS_AddElement DEF DeliverUnit
  <2>3. CASE DeliverReplacement
    <3>1. Ends(supersedes') \subseteq us
      BY <2>1, <2>3, GroundsFirst DEF DeliverReplacement, Written, Ends
    <3>2. Written(us)'
      BY <2>1, <2>3, <3>1 DEF DeliverReplacement, Written
    <3> QED
      BY <2>3, <3>2, FS_AddElement DEF DeliverReplacement
  <2>4. CASE Relink
    <3>1. \E all : Written(all)'
      BY <2>4, RelinkWrites
    <3> QED
      BY <2>4, <3>1, MovesFinitely, FS_Union DEF Relink
  <2>5. CASE Compact
    <3>1. units' \in SUBSET units /\ supersedes' \in SUBSET supersedes
      BY <2>5 DEF Compact, Without
    <3>2. Written(us)'
      BY <2>1, <3>1 DEF Written, Ends
    <3> QED
      BY <3>1, <3>2, FS_Subset
  <2>6. CASE (\E u \in units : Retract(u)) \/ DeliverRemark \/ UNCHANGED store
    <3>1. units' = units /\ supersedes' = supersedes
      BY <2>6 DEF Retract, DeliverRemark, store
    <3> QED
      BY <2>1, <3>1 DEF Written
  <2> QED
    BY <2>2, <2>3, <2>4, <2>5, <2>6 DEF Next
<1> QED
  BY <1>1, <1>2, PTL DEF Spec

-----------------------------------------------------------------------------
(* What is emitted names what it replaces by what it says, and rests on    *)
(* something else.                                                         *)
LEMMA MovesAlike ==
    ASSUME RevisionInv, NEW e \in Moves
    PROVE  e[1].name = e[2].name /\ e[1].grounds # e[2].grounds
<1>1. PICK us : Written(us)
  BY DEF RevisionInv
<1>2. /\ DOMAIN Repointed = units \ DOMAIN Newest
      /\ IsFiniteSet(Halfway) /\ Ordered(Halfway) /\ \A w \in Halfway : Content(w)
  BY <1>1, HalfwayWritten
<1>3. PICK s : /\ Sweeps(Repointed, Halfway, s)
               /\ Relinked = [w \in DOMAIN Repointed |-> s[Repointed[w]]]
  BY <1>2, RelinkedSweeps
<1>4. PICK u \in DOMAIN Repointed : e = <<Relinked[u], u>> /\ Relinked[u] # u
  BY <1>3 DEF Moves, Becoming
<1> DEFINE half == Repointed[u]
<1>5. Content(u) /\ u \in units
  BY <1>1, <1>2, <1>4 DEF Written
<1>6. half \in Halfway /\ Content(half) /\ half.name = u.name
  <2>1. half = [u EXCEPT !.grounds = {IF g \in DOMAIN Newest THEN Newest[g] ELSE g : g \in @}]
    BY <1>2 DEF Repointed
  <2>2. half = [name |-> u.name,
                grounds |-> {IF g \in DOMAIN Newest THEN Newest[g] ELSE g : g \in u.grounds}]
    BY <1>5, <2>1 DEF Content
  <2>3. half \in Halfway
    BY DEF Halfway
  <2> HIDE DEF half
  <2> QED
    BY <1>2, <2>2, <2>3
<1>7. Relinked[u] = [name |-> half.name,
                     grounds |-> {Now(Repointed, Halfway, s, g) : g \in half.grounds}]
  <2>1. Relinked[u] = s[half]
    BY <1>3
  <2> HIDE DEF half
  <2>2. s[half] = Swept(Repointed, Halfway, s, half)
    BY <1>3, <1>6 DEF Sweeps
  <2> QED
    BY <1>6, <2>1, <2>2 DEF Swept, Content
<1> HIDE DEF half
<1>8. Content(Relinked[u]) /\ Relinked[u].name = u.name
  BY <1>6, <1>7 DEF Content
<1>9. Relinked[u].grounds # u.grounds
  BY <1>4, <1>5, <1>8 DEF Content
<1> QED
  BY <1>4, <1>8, <1>9

(* What a store comes to hold: finitely many units, known by what they say *)
(* and rest on; retractions of one unit; and, beside what was written      *)
(* elsewhere, replacements by the same claim that rests on something else, *)
(* through the repointing and the sweep (relink.rs `relink`, `resettle`).  *)
THEOREM RevisionTypes == Spec => []RevisionTypeOK
<1>1. Init => RevisionTypeOK
  BY FS_EmptySet DEF Init, RevisionTypeOK
<1>2. ASSUME RevisionInv, RevisionInv', RevisionTypeOK, [Next]_store
      PROVE  RevisionTypeOK'
  <2>1. IsFiniteSet(units') /\ \A u \in units' : u = [name |-> u.name, grounds |-> u.grounds]
    BY <1>2 DEF RevisionInv, Written, Content
  <2>2. ASSUME NEW e \in supersedes' \ Replaces
        PROVE  e[1].name = e[2].name /\ e[1].grounds # e[2].grounds
    <3>1. e \in supersedes \/ e \in Moves
      BY <1>2, <2>2 DEF Next, DeliverUnit, DeliverReplacement, DeliverRemark, Retract,
         Relink, Compact, Without, store
    <3> QED
      BY <1>2, <2>2, <3>1, MovesAlike DEF RevisionTypeOK
  <2>3. /\ \A e \in retracts' : e[1] = e[2]
        /\ remarks' \subseteq Remarks
    BY <1>2 DEF RevisionTypeOK, Next, DeliverUnit, DeliverReplacement, DeliverRemark,
       Retract, Relink, Compact, Without, store
  <2> QED
    BY <2>1, <2>2, <2>3 DEF RevisionTypeOK
<1> QED
  BY <1>1, <1>2, RevisionInvHolds, PTL DEF Spec

-----------------------------------------------------------------------------
(* What compaction keeps rests on none of what it drops, given that of     *)
(* what it keeps although it is superseded.                                *)
LEMMA KeptRestApart ==
    ASSUME KeptRestOnKept, NEW u \in units \ Dropped
    PROVE  u.grounds \cap Dropped = {}
<1>1. CASE u \in Superseded
  BY <1>1 DEF KeptRestOnKept
<1>2. CASE u \notin Superseded
  <2>1. u.grounds \subseteq NeededAsGrounds
    BY <1>2 DEF NeededAsGrounds
  <2> QED
    BY <2>1 DEF Dropped
<1> QED
  BY <1>1, <1>2

(* The same units are unfounded after what they rest on none of is gone.   *)
LEMMA LeastWithout ==
    ASSUME NEW us, NEW gone, NEW ret \in SUBSET (us \ gone),
           \A u \in us \ gone : u.grounds \cap gone = {},
           NEW S, Least(us, ret, S), NEW T, Least(us \ gone, ret, T)
    PROVE  T = S \ gone
<1> USE DEF Settles
<1>1. Settles(us \ gone, ret, S \ gone)
  <2>1. Loses(us \ gone, S \ gone) \subseteq Loses(us, S)
    BY DEF Loses
  <2> QED
    BY <2>1 DEF Least
<1>2. Settles(us, ret, T \cup (us \cap gone))
  <2>1. Loses(us, T \cup (us \cap gone)) \subseteq Loses(us \ gone, T)
    BY DEF Loses
  <2>2. T \cup (us \cap gone) \in SUBSET us
    BY DEF Least
  <2> QED
    BY <2>1, <2>2 DEF Least
<1>3. T \subseteq S \ gone
  BY <1>1 DEF Least
<1>4. S \subseteq T \cup (us \cap gone)
  BY <1>2 DEF Least
<1> QED
  BY <1>3, <1>4

-----------------------------------------------------------------------------
(* Compaction changes no status: what read as unfounded and is kept reads  *)
(* so after it, and nothing else does, however far support was lost        *)
(* (compact.rs `compact`, retraction.rs `effective_status`), if no unit    *)
(* kept although it is superseded rests on one that is dropped.            *)
THEOREM CompactionKeeps == Spec => CompactionKeepsStatus
<1>1. ASSUME IsFiniteSet(units), Compact, KeptRestOnKept,
             IsFiniteSet(units') => Least(units', Retracted', Unfounded')
      PROVE  Unfounded' = Unfounded \ Dropped
  <2>1. units' = units \ Dropped
    BY <1>1 DEF Compact
  <2>2. Retracted' = Retracted /\ Retracted \in SUBSET (units \ Dropped)
    BY <1>1, <2>1, RetractionsKept DEF Retracted
  <2>3. Least(units \ Dropped, Retracted, Unfounded')
    BY <1>1, <2>1, <2>2, FS_Subset
  <2>4. \A u \in units \ Dropped : u.grounds \cap Dropped = {}
    BY <1>1, KeptRestApart
  <2>5. Least(units, Retracted, Unfounded)
    BY <1>1, UnfoundedIsLeast
  <2> QED
    BY <2>2, <2>3, <2>4, <2>5, LeastWithout
<1>2. (IsFiniteSet(units) => Least(units, Retracted, Unfounded))'
  BY UnfoundedIsLeast, PTL
<1>3. RevisionInv /\ [Next]_store
         => [~(units \subseteq units') /\ Compact /\ KeptRestOnKept
                => Unfounded' = Unfounded \ Dropped]_store
  BY <1>1, <1>2 DEF RevisionInv
<1> QED
  BY <1>3, RevisionInvHolds, PTL DEF Spec, CompactionKeepsStatus

-----------------------------------------------------------------------------
(* The successors of a unit that are held, and what holds of an heir.      *)
Direct(v) == Successors(v) \cap units

Leads(u, us) == Direct(u) \subseteq us /\ \A v \in us : Direct(v) \subseteq us

LEMMA HeirsOf ==
    ASSUME NEW u
    PROVE  /\ Heirs(u) = {h \in Replacing :
                              \A us \in SUBSET Replacing : Leads(u, us) => h \in us}
           /\ Heirs(u) \in SUBSET units
           /\ Direct(u) \subseteq Heirs(u)
           /\ \A h \in Heirs(u) : Heirs(h) \subseteq Heirs(u)
<1>1. \A v : Heirs(v) = {h \in Replacing :
                            \A us \in SUBSET Replacing : Leads(v, us) => h \in us}
  BY DEF Heirs, Leads, Direct
<1>2. Direct(u) \subseteq Heirs(u)
  BY <1>1 DEF Leads, Direct, Successors, Replacing
<1>3. ASSUME NEW h \in Heirs(u), NEW k \in Heirs(h) PROVE k \in Heirs(u)
  <2>1. ASSUME NEW us \in SUBSET Replacing, Leads(u, us) PROVE k \in us
    <3>1. h \in us
      BY <1>1, <2>1
    <3>2. Leads(h, us)
      BY <2>1, <3>1 DEF Leads
    <3> QED
      BY <1>1, <3>2
  <2>2. k \in Replacing
    BY <1>1
  <2> QED
    BY <1>1, <2>1, <2>2
<1> QED
  BY <1>1, <1>2, <1>3 DEF Replacing

(* Were every heir of a dropped unit dropped, each would have an heir with *)
(* fewer of its own.                                                       *)
LEMMA SomeHeirStays ==
    ASSUME IsFiniteSet(units), \A u \in Dropped : u \notin Heirs(u), NEW u \in Dropped
    PROVE  \E h \in Heirs(u) : h \notin Dropped
<1> SUFFICES ASSUME Heirs(u) \subseteq Dropped PROVE FALSE
  OBVIOUS
<1> DEFINE line == Heirs(u) \cup {u}
           P == {units \ Heirs(v) : v \in line}
<1>1. P \in SUBSET SUBSET units /\ P # {}
  OBVIOUS
<1>2. PICK B \in P : \A C \in P : B \subseteq C => C = B
  <2> HIDE DEF P
  <2> QED
    BY <1>1, LargestOf
<1>3. PICK v \in line : B = units \ Heirs(v)
  OBVIOUS
<1>4. v \in Dropped /\ Heirs(v) \subseteq Heirs(u)
  BY <1>3, HeirsOf
<1>5. PICK w : w \in Direct(v)
  BY <1>4 DEF Dropped, Superseded, Direct, Successors
<1>6. w \in Heirs(v) /\ Heirs(w) \subseteq Heirs(v) /\ w \in units
  BY <1>5, HeirsOf DEF Direct
<1>7. w \in line /\ w \notin Heirs(w)
  BY <1>4, <1>6
<1>8. B \subseteq units \ Heirs(w) /\ units \ Heirs(w) # B
  BY <1>3, <1>6, <1>7
<1>9. units \ Heirs(w) \in P
  BY <1>7
<1> QED
  BY <1>2, <1>8, <1>9

(* Compaction loses no content: of what replaced a unit that is dropped,   *)
(* or replaced that, however long the chain, something is kept             *)
(* (compact.rs `compact`), unless units replace each other in a circle.    *)
THEOREM ReplacementsStay == Spec => ReplacementStays
<1>1. ASSUME RevisionInv, Compact, \A u \in Dropped : u \notin Heirs(u), NEW u \in Dropped
      PROVE  Heirs(u) \cap units' # {}
  <2>1. PICK h \in Heirs(u) : h \notin Dropped
    BY <1>1, SomeHeirStays DEF RevisionInv
  <2>2. h \in units /\ units' = units \ Dropped
    BY <1>1, HeirsOf DEF Compact
  <2> QED
    BY <2>1, <2>2
<1>2. RevisionInv /\ [Next]_store
         => [~(units \subseteq units') /\ Compact /\ (\A u \in Dropped : u \notin Heirs(u))
                => \A u \in Dropped : Heirs(u) \cap units' # {}]_store
  BY <1>1
<1> QED
  BY <1>2, RevisionInvHolds, PTL DEF Spec, ReplacementStays

-----------------------------------------------------------------------------
(* A ground of what a unit became is something new, or a unit that stayed  *)
(* what it was.                                                            *)
LEMMA GroundsAfter ==
    ASSUME RevisionInv, Intact, MovedOnce, ChainsEnd,
           NEW u \in DOMAIN Repointed, NEW h \in Relinked[u].grounds
    PROVE  \/ \E e \in Moves : h = e[1]
           \/ h \in DOMAIN Repointed /\ Relinked[h] = h
<1> DEFINE to == Repointed
           now(s, g) == Now(to, Halfway, s, g)
<1>1. PICK us : Written(us)
  BY DEF RevisionInv
<1>2. /\ DOMAIN to = units \ DOMAIN Newest
      /\ IsFiniteSet(Halfway) /\ Ordered(Halfway)
      /\ \A w \in Halfway : Content(w)
  BY <1>1, HalfwayWritten
<1>3. PICK s : /\ Sweeps(to, Halfway, s)
               /\ Relinked = [w \in DOMAIN to |-> s[to[w]]]
  BY <1>2, RelinkedSweeps
<1>4. to[u] \in Halfway /\ Content(to[u])
  BY <1>2 DEF Halfway
<1>5. PICK g \in to[u].grounds : h = now(s, g)
  <2>1. Relinked[u] = Swept(to, Halfway, s, to[u])
    BY <1>3, <1>4 DEF Sweeps
  <2>2. Relinked[u].grounds = {now(s, g) : g \in to[u].grounds}
    BY <1>4, <2>1 DEF Swept, Content
  <2> QED
    BY <2>2
<1>6. \A w \in DOMAIN to : Relinked[w] = w \/ \E e \in Moves : Relinked[w] = e[1]
  <2>1. \A w \in DOMAIN to : Relinked[w] # w => <<Relinked[w], w>> \in Moves
    BY <1>3 DEF Moves, Becoming
  <2> QED
    BY <2>1
<1>7. g \in DOMAIN to
  <2>1. PICK k \in u.grounds : g = IF k \in DOMAIN Newest THEN Newest[k] ELSE k
    <3>1. u \in units /\ Content(u)
      BY <1>1, <1>2 DEF Written
    <3>2. to[u].grounds = {IF k \in DOMAIN Newest THEN Newest[k] ELSE k : k \in u.grounds}
      BY <1>2, <3>1 DEF Repointed, Content
    <3> QED
      BY <3>2
  <2>2. k \in units
    BY <1>2, <2>1 DEF Intact
  <2>3. k \in DOMAIN Newest => Newest[k] \in units \ DOMAIN Newest
    BY NewestOf DEF RevisionInv, ChainsEnd, Intact
  <2> QED
    BY <1>2, <2>1, <2>2, <2>3
<1>8. to[g] = g \/ to[g] = Relinked[g]
  BY <1>7 DEF MovedOnce
<1>9. CASE g \in Halfway /\ s[g] # g
  <2>1. h = s[g]
    BY <1>5, <1>9 DEF Now
  <2>2. PICK w \in DOMAIN to : g = to[w]
    BY <1>9 DEF Halfway
  <2>3. h = Relinked[w]
    BY <1>3, <2>1, <2>2
  <2> QED
    BY <1>6, <2>3
<1>10. CASE ~(g \in Halfway /\ s[g] # g)
  <2>1. h = to[g]
    BY <1>5, <1>7, <1>10 DEF Now
  <2>2. CASE to[g] = Relinked[g]
    BY <1>6, <1>7, <2>1, <2>2
  <2>3. CASE to[g] = g
    <3>1. g \in Halfway /\ Relinked[g] = s[g]
      BY <1>3, <1>7, <2>3 DEF Halfway
    <3> QED
      BY <1>7, <1>10, <2>1, <2>3, <3>1
  <2> QED
    BY <1>8, <2>2, <2>3
<1> QED
  BY <1>9, <1>10

(* Relinking gives no successor to a unit that stays, so it is as little   *)
(* replaced after it as before.                                            *)
LEMMA StaysUnreplaced ==
    ASSUME RevisionInv, Intact, Relink, AllNew, ChainsEnd,
           NEW u \in DOMAIN Repointed, Relinked[u] = u
    PROVE  u \notin Replaced'
<1>1. u \in units /\ u \notin Replaced
  BY DEF Repointed, ChainsEnd
<1>2. supersedes' = supersedes \cup Moves
  BY DEF Relink
<1>3. \A e \in Moves : e[2] # u /\ e[1] \notin units
  BY DEF Moves, Becoming, AllNew
<1>4. Successors(u)' = Successors(u)
  BY <1>2, <1>3 DEF Successors
<1>5. Successors(u) \subseteq units
  BY DEF Successors, Intact
<1>6. ASSUME NEW m \in units, NEW n
      PROVE  <<m, n>> \in supersedes' <=> <<m, n>> \in supersedes
  BY <1>2, <1>3
<1>7. Latest(u)' = Latest(u)
  BY <1>4, <1>5, <1>6 DEF Latest
<1>8. (\E e \in supersedes' : e[2] = u) <=> (\E e \in supersedes : e[2] = u)
  BY <1>2, <1>3
<1>9. CASE ~\E e \in supersedes : e[2] = u
  BY <1>8, <1>9 DEF Replaced
<1>10. CASE \E e \in supersedes : e[2] = u
  <2>1. u \in Forked
    BY <1>1, <1>10 DEF Replaced
  <2>2. Cardinality(Successors(u)) > 1 /\ Cardinality(Latest(u)) # 1
    BY <2>1 DEF Forked
  <2>3. u \in Forked'
    BY <1>4, <1>7, <1>8, <1>10, <2>2 DEF Forked
  <2> QED
    BY <2>3 DEF Replaced
<1> QED
  BY <1>9, <1>10

LEMMA RelinkingOnce ==
    ASSUME RevisionInv, Intact, Relink, MovedOnce, AllNew, ChainsEnd
    PROVE  Intact' /\ AtNewest'
<1>1. /\ units' = units \cup {e[1] : e \in Moves}
      /\ supersedes' = supersedes \cup Moves
  BY DEF Relink
<1>2. DOMAIN Relinked = DOMAIN Repointed /\ DOMAIN Repointed = units \ DOMAIN Newest
  BY DEF Relinked, Repointed
<1>3. DOMAIN Newest' \subseteq Replaced' /\ DOMAIN Newest \subseteq Replaced
  BY DEF Newest
<1>4. \A e \in Moves : \E u \in DOMAIN Repointed : e = <<Relinked[u], u>> /\ Relinked[u] # u
  BY <1>2 DEF Moves, Becoming
<1>5. ASSUME NEW u \in DOMAIN Repointed
      PROVE  Relinked[u].grounds \subseteq units' \ Replaced'
  <2>1. ASSUME NEW h \in Relinked[u].grounds PROVE h \in units' /\ h \notin Replaced'
    <3>1. CASE \E e \in Moves : h = e[1]
      <4>1. h \in units' /\ h \notin units \cup {d[2] : d \in supersedes}
        BY <1>1, <3>1 DEF AllNew
      <4>2. \A e \in Moves : e[2] \in units
        BY <1>2, <1>4
      <4>3. \A e \in supersedes' : e[2] # h
        BY <1>1, <4>1, <4>2
      <4> QED
        BY <4>1, <4>3 DEF Replaced
    <3>2. CASE h \in DOMAIN Repointed /\ Relinked[h] = h
      BY <1>1, <1>2, <3>2, StaysUnreplaced
    <3> QED
      BY <3>1, <3>2, GroundsAfter
  <2> QED
    BY <2>1
<1>6. ASSUME NEW u \in units'
      PROVE  u \in units \/ \E w \in DOMAIN Repointed : u = Relinked[w]
  BY <1>1, <1>4
<1>7. Intact'
  <2>1. \A u \in units' : u.grounds \subseteq units'
    BY <1>1, <1>5, <1>6 DEF Intact
  <2>2. \A e \in supersedes' : e[1] \in units'
    BY <1>1 DEF Intact
  <2> QED
    BY <2>1, <2>2 DEF Intact
<1>8. ASSUME NEW u \in Unreplaced' PROVE u.grounds \cap Replaced' = {}
  <2>1. u \in units' /\ \A e \in supersedes' : e[2] # u
    BY <1>8 DEF Unreplaced
  <2>2. CASE u \in units
    <3>1. u \notin Replaced
      BY <1>1, <2>1 DEF Replaced
    <3>2. u \in DOMAIN Repointed
      BY <1>2, <1>3, <2>2, <3>1
    <3>3. Relinked[u] # u => <<Relinked[u], u>> \in Moves
      BY <1>2, <3>2 DEF Moves, Becoming
    <3>4. Relinked[u] = u
      BY <1>1, <2>1, <3>3
    <3> QED
      BY <1>5, <3>2, <3>4
  <2>3. CASE u \notin units
    BY <1>5, <1>6, <2>1, <2>3
  <2> QED
    BY <2>2, <2>3
<1>9. AtNewest'
  BY <1>3, <1>8 DEF AtNewest
<1> QED
  BY <1>7, <1>9

(* After one relink nothing that is not replaced itself rests on a unit    *)
(* that has a newer one, and nothing rests on a unit that is not there     *)
(* (relink.rs `relink`), whatever the units, where the code's claim that   *)
(* one pass suffices is not excepted.                                      *)
THEOREM RelinkingSettles == Spec => RelinkSettles
<1>1. RevisionInv /\ [Next]_store
         => [supersedes' # supersedes /\ Intact /\ Relink /\ MovedOnce /\ AllNew
                /\ ChainsEnd => Intact' /\ AtNewest']_store
  BY RelinkingOnce
<1> QED
  BY <1>1, RevisionInvHolds, PTL DEF Spec, RelinkSettles
=============================================================================
