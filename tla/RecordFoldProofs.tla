-------------------------- MODULE RecordFoldProofs --------------------------
(***************************************************************************)
(* What folding a log into the tables computes, for records of any number  *)
(* and logs of any length, however the log is cut into pieces.             *)
(*                                                                         *)
(* A fold is a recursive function over the sets of places of a log.  That  *)
(* there is such a function, and what it says place by place, is shown     *)
(* here with the least place of a log that would contradict it.            *)
(***************************************************************************)
EXTENDS RecordFold, SequenceTheorems, FiniteSetTheorems,
        WellFoundedInduction, TLAPS

-----------------------------------------------------------------------------
(* There is a first place: the places up to a number of the set, ordered   *)
(* by inclusion, are well-founded.                                         *)
LEMMA LeastPlace ==
    ASSUME NEW n \in Nat, NEW S \in SUBSET (0..n), S # {}
    PROVE  \E k \in S : \A j \in S : k <= j
  <1> DEFINE Below(k) == 0..k
             T == {Below(k) : k \in S}
             F == FiniteSubsetsOf(0..n)
             R == StrictSubsetOrdering(0..n)
  <1>1. IsWellFoundedOn(R, F)
    BY FS_StrictSubsetOrderingWellFounded
  <1>2. ASSUME NEW k \in S PROVE Below(k) \in F
    <2>1. k \in Int /\ 0..k \subseteq 0..n
      OBVIOUS
    <2>2. IsFiniteSet(0..k)
      BY <2>1, FS_Interval
    <2> QED
      BY <2>1, <2>2 DEF FiniteSubsetsOf
  <1>3. T \subseteq F /\ T # {}
    BY <1>2
  <1> HIDE DEF R, F
  <1>4. PICK B \in T : \A C \in T : ~(<<C, B>> \in R)
    <2> HIDE DEF T
    <2> QED
      BY <1>1, <1>3, WFMin
  <1>5. PICK k \in S : B = Below(k)
    BY <1>4
  <1>6. ASSUME NEW j \in S, ~(k <= j) PROVE FALSE
    <2>1. Below(j) \in T
      OBVIOUS
    <2>2. k \in Below(k) /\ k \notin Below(j)
      BY <1>6
    <2>3. /\ Below(j) \subseteq Below(k) /\ Below(j) # Below(k)
          /\ Below(j) \in SUBSET (0..n) /\ Below(k) \in SUBSET (0..n)
      BY <1>6, <2>2
    <2>4. <<Below(j), Below(k)>> \in R
      BY <2>3 DEF R, StrictSubsetOrdering
    <2> QED
      BY <1>4, <1>5, <2>1, <2>4
  <1> QED
    BY <1>5, <1>6

(* What holds before the first place and of each place if of the one       *)
(* before it holds of them all.                                            *)
LEMMA PlaceByPlace ==
    ASSUME NEW n \in Nat, NEW S, 0 \in S,
           \A k \in 0..n : k \in S /\ k < n => k + 1 \in S
    PROVE  0..n \subseteq S
  <1> DEFINE D == (0..n) \ S
  <1>1. CASE D = {}
    BY <1>1
  <1>2. CASE D # {}
    <2>1. PICK k \in D : \A j \in D : k <= j
      <3>1. D \in SUBSET (0..n)
        OBVIOUS
      <3> HIDE DEF D
      <3> QED
        BY <1>2, <3>1, LeastPlace
    <2>2. k \in 0..n /\ k # 0
      BY <2>1
    <2>3. k - 1 \in 0..n /\ k - 1 < n /\ k - 1 \notin D
      BY <2>1, <2>2
    <2>4. (k - 1) + 1 \in S
      BY <2>3
    <2>5. k \in S
      BY <2>2, <2>4
    <2> QED
      BY <2>1, <2>5
  <1> QED
    BY <1>1, <1>2

-----------------------------------------------------------------------------
(* The function a fold is: of a set of places of the log, the records at   *)
(* the others of them folded, then the one at the last of them.            *)
IsFold(it, P, t, l, s) ==
    it = [S \in SUBSET P |-> IF S = {} THEN t
                             ELSE FoldRecord(it[S \ {Max(S)}], l, s[Max(S)])]

LEMMA FoldIs ==
    ASSUME NEW t, NEW l, NEW s
    PROVE  FoldLog(t, l, s) =
             (CHOOSE it : IsFold(it, DOMAIN s, t, l, s))[DOMAIN s]
  BY DEF FoldLog, FoldLeft, MapThenFoldSet, IsFold

LEMMA LastPlace ==
    ASSUME NEW k \in Nat, NEW S \in SUBSET (1..(k + 1)), k + 1 \in S
    PROVE  Max(S) = k + 1
  <1>1. \A x \in S : k + 1 >= x
    OBVIOUS
  <1>2. ASSUME NEW x \in S, \A y \in S : x >= y
        PROVE  x = k + 1
    BY <1>2
  <1> QED
    BY <1>1, <1>2 DEF Max

LEMMA FoldExists ==
    ASSUME NEW t, NEW l, NEW s, NEW n \in Nat
    PROVE  \E it : IsFold(it, 1..n, t, l, s)
  <1> DEFINE E == {k \in 0..n : \E it : IsFold(it, 1..k, t, l, s)}
  <1>1. 0 \in E
    <2> DEFINE f == [S \in SUBSET (1..0) |-> t]
    <2>1. IsFold(f, 1..0, t, l, s)
      BY DEF IsFold
    <2> QED
      BY <2>1
  <1>2. ASSUME NEW k \in 0..n, k \in E, k < n
        PROVE  k + 1 \in E
    <2>1. PICK f : IsFold(f, 1..k, t, l, s)
      BY <1>2
    <2> DEFINE g == [S \in SUBSET (1..(k + 1)) |->
                        IF k + 1 \in S
                        THEN FoldRecord(f[S \ {k + 1}], l, s[k + 1])
                        ELSE f[S]]
               h == [S \in SUBSET (1..(k + 1)) |->
                        IF S = {} THEN t
                        ELSE FoldRecord(g[S \ {Max(S)}], l, s[Max(S)])]
    <2>2. \A S \in SUBSET (1..k) : S \in SUBSET (1..(k + 1)) /\ k + 1 \notin S
      OBVIOUS
    <2>3. \A S \in SUBSET (1..k) : g[S] = f[S]
      BY <2>2
    <2>4. ASSUME NEW S \in SUBSET (1..(k + 1)), k + 1 \in S
          PROVE  g[S] = h[S]
      <3>1. Max(S) = k + 1
        BY <2>4, LastPlace
      <3>2. S \ {k + 1} \in SUBSET (1..k)
        OBVIOUS
      <3>3. g[S] = FoldRecord(f[S \ {k + 1}], l, s[k + 1])
        BY <2>4
      <3>4. h[S] = FoldRecord(g[S \ {k + 1}], l, s[k + 1])
        <4> HIDE DEF g
        <4> QED
          BY <2>4, <3>1
      <3> QED
        BY <2>3, <3>2, <3>3, <3>4
    <2>5. ASSUME NEW S \in SUBSET (1..(k + 1)), k + 1 \notin S
          PROVE  g[S] = h[S]
      <3>1. S \in SUBSET (1..k) /\ S \ {Max(S)} \in SUBSET (1..k)
        <4>1. \A x \in 1..(k + 1) : x # k + 1 => x \in 1..k
          OBVIOUS
        <4>2. S \subseteq 1..k
          BY <2>5, <4>1
        <4> QED
          BY <4>2, Zenon
      <3>2. f[S] = IF S = {} THEN t ELSE FoldRecord(f[S \ {Max(S)}], l, s[Max(S)])
        BY <2>1, <3>1 DEF IsFold
      <3>3. g[S] = f[S] /\ g[S \ {Max(S)}] = f[S \ {Max(S)}]
        BY <2>3, <3>1
      <3> HIDE DEF g
      <3> QED
        BY <2>5, <3>2, <3>3
    <2>6. \A S \in SUBSET (1..(k + 1)) : g[S] = h[S]
      BY <2>4, <2>5
    <2>7. g = h
      <3> SUFFICES \A S \in SUBSET (1..(k + 1)) : g[S] = h[S]
        OBVIOUS
      <3> QED
        BY <2>6
    <2>8. IsFold(g, 1..(k + 1), t, l, s)
      BY <2>7 DEF IsFold
    <2>9. k + 1 \in 0..n
      BY <1>2
    <2> QED
      BY <2>8, <2>9
  <1>3. 0..n \subseteq E
    <2> HIDE DEF E
    <2> QED
      BY <1>1, <1>2, PlaceByPlace
  <1> QED
    BY <1>3

(* The tables after each record of the log, from those before the first to *)
(* those the fold ends with.                                               *)
FoldsTo(g, t, l, s, n) ==
    /\ g = [k \in 0..n |-> g[k]]
    /\ g[0] = t
    /\ \A k \in 0..(n - 1) : g[k + 1] = FoldRecord(g[k], l, s[k + 1])
    /\ FoldLog(t, l, s) = g[n]

LEMMA FoldSteps ==
    ASSUME NEW t, NEW l, NEW s, NEW n \in Nat, DOMAIN s = 1..n
    PROVE  \E g : FoldsTo(g, t, l, s, n)
  <1> DEFINE it == CHOOSE i : IsFold(i, 1..n, t, l, s)
             g == [k \in 0..n |-> it[1..k]]
  <1>1. IsFold(it, 1..n, t, l, s)
    BY FoldExists
  <1>2. FoldLog(t, l, s) = it[1..n]
    BY FoldIs
  <1> HIDE DEF it
  <1>3. it[{}] = t
    BY <1>1 DEF IsFold
  <1>4. ASSUME NEW k \in 0..(n - 1)
        PROVE  it[1..(k + 1)] = FoldRecord(it[1..k], l, s[k + 1])
    <2>1. 1..(k + 1) \in SUBSET (1..n) /\ 1..(k + 1) # {}
      <3>1. k + 1 \in 1..(k + 1) /\ \A x \in 1..(k + 1) : x \in 1..n
        OBVIOUS
      <3> QED
        BY <3>1
    <2>2. Max(1..(k + 1)) = k + 1
      BY LastPlace
    <2>3. (1..(k + 1)) \ {k + 1} = 1..k
      OBVIOUS
    <2>4. it[1..(k + 1)] = FoldRecord(it[(1..(k + 1)) \ {Max(1..(k + 1))}], l,
                                      s[Max(1..(k + 1))])
      BY <1>1, <2>1 DEF IsFold
    <2> QED
      BY <2>2, <2>3, <2>4
  <1>5. g[0] = t
    <2>1. 1..0 = {} /\ 0 \in 0..n
      OBVIOUS
    <2> QED
      BY <1>3, <2>1
  <1>6. ASSUME NEW k \in 0..(n - 1)
        PROVE  g[k + 1] = FoldRecord(g[k], l, s[k + 1])
    <2>1. k \in 0..n /\ k + 1 \in 0..n
      OBVIOUS
    <2> QED
      BY <1>4, <2>1
  <1>7. FoldLog(t, l, s) = g[n]
    BY <1>2
  <1> QED
    BY <1>5, <1>6, <1>7 DEF FoldsTo

-----------------------------------------------------------------------------
(***************************************************************************)
(* What the tables say, record by record.                                  *)
(***************************************************************************)
Header(L)  == [log : L, attested : Nat]
Headers(L) == UNION {[S -> Header(L)] : S \in SUBSET Units}

Tables(L) == [hash   : SUBSET (Records \X L),
              holds  : SUBSET (Units \X L),
              header : Headers(L),
              attest : SUBSET (Atts \X L),
              interp : [L -> Seq(Hots)]]

(* The tables t of logs c say what they ought to, with no more than        *)
(* finitely many attestations of a unit to count.                          *)
Says(t, c) == /\ t \in Tables(DOMAIN c)
              /\ SaysOf(t, c)
              /\ \A u \in Units : IsFiniteSet(AttsOf(c, u))

Logs(L) == [L -> Seq(Records)]

Longer(c, l, r) == [c EXCEPT ![l] = Append(@, r)]

LEMMA RangeOfAppend ==
    ASSUME NEW q \in Seq(Records), NEW r \in Records
    PROVE  Range(Append(q, r)) = Range(q) \cup {r}
  <1>1. /\ DOMAIN q = 1..Len(q) /\ Len(q) \in Nat
        /\ DOMAIN Append(q, r) = 1..(Len(q) + 1)
        /\ \A i \in 1..Len(q) : Append(q, r)[i] = q[i]
        /\ Append(q, r)[Len(q) + 1] = r
    BY LenProperties, AppendProperties
  <1>2. \A i \in 1..(Len(q) + 1) : i \in 1..Len(q) \/ i = Len(q) + 1
    BY <1>1
  <1>3. Len(q) + 1 \in 1..(Len(q) + 1) /\ 1..Len(q) \subseteq 1..(Len(q) + 1)
    BY <1>1
  <1> QED
    BY <1>1, <1>2, <1>3, Zenon DEF Range

(* What one more record changes of what the logs hold. *)
MoreHeld(L, c, d, l, r) ==
    /\ d \in Logs(L) /\ DOMAIN d = L
    /\ \A h \in Records \X L : InLog(d, h) <=> InLog(c, h) \/ h = <<r, l>>
    /\ \A x : Held(d, x) <=> Held(c, x) \/ x = r
    /\ \A k \in L : Range(c[k]) \subseteq Range(d[k])
    /\ r \in Range(d[l])

AttsMore(c, d, r) ==
    \A u : AttsOf(d, u) = AttsOf(c, u) \cup {a \in Atts \cap {r} : Subject[a] = u}

LEMMA HoldsMore ==
    ASSUME NEW L, NEW c \in Logs(L), NEW l \in L, NEW r \in Records,
           NEW d, d = Longer(c, l, r)
    PROVE  MoreHeld(L, c, d, l, r) /\ AttsMore(c, d, r)
  <1>1. /\ d \in Logs(L) /\ DOMAIN d = L /\ DOMAIN c = L
        /\ d[l] = Append(c[l], r) /\ \A k \in L \ {l} : d[k] = c[k]
        /\ c[l] \in Seq(Records)
    BY AppendProperties DEF Logs, Longer
  <1>2. Range(d[l]) = Range(c[l]) \cup {r}
    BY <1>1, RangeOfAppend
  <1>3. ASSUME NEW h \in Records \X L
        PROVE  InLog(d, h) <=> InLog(c, h) \/ h = <<r, l>>
    <2>1. PICK x \in Records, k \in L : h = <<x, k>>
      OBVIOUS
    <2>2. x \in Range(d[k]) <=> x \in Range(c[k]) \/ (x = r /\ k = l)
      BY <1>1, <1>2
    <2> QED
      BY <2>1, <2>2 DEF InLog
  <1>4. ASSUME NEW x
        PROVE  Held(d, x) <=> Held(c, x) \/ x = r
    BY <1>1, <1>2 DEF Held
  <1>5. ASSUME NEW u
        PROVE  AttsOf(d, u) = AttsOf(c, u) \cup {a \in Atts \cap {r} : Subject[a] = u}
    BY <1>4 DEF AttsOf
  <1>6. \A k \in L : Range(c[k]) \subseteq Range(d[k])
    BY <1>1, <1>2
  <1> QED
    BY <1>1, <1>2, <1>3, <1>4, <1>5, <1>6 DEF MoreHeld, AttsMore

(* A hot record is appended to the others of its log, and no other is.     *)
LEMMA HotsAfter ==
    ASSUME NEW q \in Seq(Hots), NEW s \in Seq(Records), NEW r \in Records,
           HotsOf(q, s)
    PROVE  HotsOf(IF r \in Hots THEN Append(q, r) ELSE q, Append(s, r))
  <1> DEFINE m == Len(q)
             n == Len(s)
             z == Append(s, r)
  <1>1. /\ m \in Nat /\ n \in Nat /\ Len(z) = n + 1
        /\ \A k \in 1..n : z[k] = s[k]
        /\ z[n + 1] = r
        /\ Len(Append(q, r)) = m + 1
        /\ \A i \in 1..m : Append(q, r)[i] = q[i]
        /\ Append(q, r)[m + 1] = r
    BY LenProperties, AppendProperties
  <1>2. PICK place \in [1..m -> 1..n] :
           /\ \A i, j \in 1..m : i < j => place[i] < place[j]
           /\ Range(place) = {k \in 1..n : s[k] \in Hots}
           /\ \A i \in 1..m : q[i] = s[place[i]]
    BY DEF HotsOf
  <1> HIDE DEF m, n, z
  <1>3. /\ \A k \in 1..(n + 1) : k \in 1..n \/ k = n + 1
        /\ \A k \in 1..n : k \in 1..(n + 1)
        /\ n + 1 \in 1..(n + 1)
    BY <1>1
  <1>4. CASE r \notin Hots
    <2>1. {k \in 1..(n + 1) : z[k] \in Hots} = {k \in 1..n : s[k] \in Hots}
      <3>1. \A k \in 1..n : z[k] = s[k]
        BY <1>1
      <3>2. z[n + 1] \notin Hots
        BY <1>1, <1>4
      <3> QED
        BY <1>3, <3>1, <3>2, Zenon
    <2>2. place \in [1..m -> 1..(n + 1)]
      BY <1>1, <1>2
    <2>3. \A i \in 1..m : q[i] = z[place[i]]
      BY <1>1, <1>2
    <2>4. HotsOf(q, z)
      BY <1>1, <1>2, <2>1, <2>2, <2>3 DEF HotsOf, m
    <2> QED
      BY <1>4, <2>4 DEF z
  <1>5. CASE r \in Hots
    <2> DEFINE more == [i \in 1..(m + 1) |-> IF i = m + 1 THEN n + 1 ELSE place[i]]
    <2>1. \A i \in 1..(m + 1) : i = m + 1 \/ i \in 1..m
      BY <1>1
    <2>2. /\ more \in [1..(m + 1) -> 1..(n + 1)]
          /\ more[m + 1] = n + 1 /\ \A i \in 1..m : more[i] = place[i]
      <3>1. n + 1 \in 1..(n + 1) /\ m + 1 \in 1..(m + 1)
            /\ \A i \in 1..m : i # m + 1 /\ i \in 1..(m + 1)
        BY <1>1
      <3>2. \A i \in 1..m : place[i] \in 1..(n + 1)
        BY <1>1, <1>2
      <3> QED
        BY <2>1, <3>1, <3>2
    <2> HIDE DEF more
    <2>3. \A i, j \in 1..(m + 1) : i < j => more[i] < more[j]
      <3>1. ASSUME NEW i \in 1..(m + 1), NEW j \in 1..(m + 1), i < j
            PROVE  more[i] < more[j]
        <4>1. i \in 1..m
          BY <1>1, <3>1
        <4>2. CASE j = m + 1
          BY <1>1, <1>2, <2>2, <4>1, <4>2
        <4>3. CASE j \in 1..m
          BY <1>2, <2>2, <3>1, <4>1, <4>3
        <4> QED
          BY <2>1, <4>2, <4>3
      <3> QED
        BY <3>1
    <2>4. Range(more) = {k \in 1..(n + 1) : z[k] \in Hots}
      <3>1. {k \in 1..(n + 1) : z[k] \in Hots}
              = {k \in 1..n : s[k] \in Hots} \cup {n + 1}
        <4>1. \A k \in 1..n : z[k] = s[k]
          BY <1>1
        <4>2. z[n + 1] \in Hots
          BY <1>1, <1>5
        <4> QED
          BY <1>3, <4>1, <4>2, Zenon
      <3>2. Range(more) = Range(place) \cup {n + 1}
        <4>1. DOMAIN more = 1..(m + 1) /\ DOMAIN place = 1..m
          BY <1>2, <2>2
        <4>2. m + 1 \in 1..(m + 1) /\ 1..m \subseteq 1..(m + 1)
          BY <1>1
        <4> QED
          BY <2>1, <2>2, <4>1, <4>2, Zenon DEF Range
      <3> QED
        BY <1>2, <3>1, <3>2
    <2>5. \A i \in 1..(m + 1) : Append(q, r)[i] = z[more[i]]
      BY <1>1, <1>2, <2>1, <2>2
    <2>6. HotsOf(Append(q, r), z)
      <3>1. Len(Append(q, r)) = m + 1 /\ Len(z) = n + 1
        BY <1>1
      <3> QED
        BY <2>2, <2>3, <2>4, <2>5, <3>1, Zenon DEF HotsOf
    <2> QED
      BY <1>5, <2>6 DEF z
  <1> QED
    BY <1>4, <1>5

(* The fields of tables, one by one. *)
LEMMA TableFields ==
    ASSUME NEW L, NEW t \in Tables(L)
    PROVE  /\ t.hash \subseteq Records \X L
           /\ t.holds \subseteq Units \X L
           /\ t.header \in [DOMAIN t.header -> Header(L)]
           /\ DOMAIN t.header \subseteq Units
           /\ t.attest \subseteq Atts \X L
           /\ t.interp \in [L -> Seq(Hots)]
  BY DEF Tables, Headers

(* The tables of logs of which the hot records are as they were, or of     *)
(* which one has one more.                                                 *)
LEMMA HotsKept ==
    ASSUME NEW L, NEW c \in Logs(L), NEW l \in L, NEW r \in Records,
           NEW t, Says(t, c)
    PROVE  LET d == Longer(c, l, r)
               q == [t.interp EXCEPT ![l] = Append(@, r)] IN
           IF r \in Hots
           THEN q \in [L -> Seq(Hots)] /\ \A k \in L : HotsOf(q[k], d[k])
           ELSE \A k \in L : HotsOf(t.interp[k], d[k])
  <1> DEFINE d == Longer(c, l, r)
             q == [t.interp EXCEPT ![l] = Append(@, r)]
  <1>1. DOMAIN c = L /\ t \in Tables(L)
    BY DEF Logs, Says
  <1>2. t.interp \in [L -> Seq(Hots)] /\ \A k \in L : HotsOf(t.interp[k], c[k])
    BY <1>1, TableFields DEF Says, SaysOf
  <1>3. /\ d[l] = Append(c[l], r) /\ \A k \in L \ {l} : d[k] = c[k]
        /\ c[l] \in Seq(Records) /\ t.interp[l] \in Seq(Hots)
    BY <1>1, <1>2 DEF Logs, Longer
  <1>4. HotsOf(IF r \in Hots THEN Append(t.interp[l], r) ELSE t.interp[l], d[l])
    BY <1>2, <1>3, HotsAfter
  <1>5. CASE r \in Hots
    <2>1. /\ q \in [L -> Seq(Hots)]
          /\ q[l] = Append(t.interp[l], r) /\ \A k \in L \ {l} : q[k] = t.interp[k]
      BY <1>2, <1>3, <1>5, AppendProperties
    <2> HIDE DEF d, q
    <2>2. \A k \in L : HotsOf(q[k], d[k])
      BY <1>2, <1>3, <1>4, <1>5, <2>1
    <2> QED
      BY <1>5, <2>1, <2>2 DEF d, q
  <1>6. CASE r \notin Hots
    <2> HIDE DEF d
    <2>1. \A k \in L : HotsOf(t.interp[k], d[k])
      BY <1>2, <1>3, <1>4, <1>6
    <2> QED
      BY <1>6, <2>1 DEF d
  <1> QED
    BY <1>5, <1>6

(* No more attestations than there were, or one more, are to be counted.   *)
LEMMA AttsFinite ==
    ASSUME NEW L, NEW c \in Logs(L), NEW l \in L, NEW r \in Records,
           NEW t, Says(t, c), NEW u \in Units
    PROVE  LET d == Longer(c, l, r) IN
           /\ IsFiniteSet(AttsOf(d, u)) /\ Cardinality(AttsOf(d, u)) \in Nat
           /\ r \notin Atts \/ Held(c, r) \/ Subject[r] # u
                 => AttsOf(d, u) = AttsOf(c, u)
           /\ r \in Atts /\ ~Held(c, r) /\ Subject[r] = u
                 => Cardinality(AttsOf(d, u)) = Cardinality(AttsOf(c, u)) + 1
  <1> DEFINE d == Longer(c, l, r)
  <1> HIDE DEF d
  <1>1. AttsOf(d, u) = AttsOf(c, u) \cup {a \in Atts \cap {r} : Subject[a] = u}
    BY HoldsMore DEF d, AttsMore
  <1>2. IsFiniteSet(AttsOf(c, u))
    BY DEF Says
  <1>3. CASE r \notin Atts \/ Subject[r] # u
    <2>1. AttsOf(d, u) = AttsOf(c, u)
      BY <1>1, <1>3
    <2> QED
      BY <1>2, <1>3, <2>1, FS_CardinalityType DEF d
  <1>4. CASE r \in Atts /\ Subject[r] = u
    <2>1. AttsOf(d, u) = AttsOf(c, u) \cup {r}
      BY <1>1, <1>4
    <2>2. r \in AttsOf(c, u) <=> Held(c, r)
      BY <1>4 DEF AttsOf
    <2> HIDE DEF AttsOf
    <2>3. Held(c, r) => AttsOf(d, u) = AttsOf(c, u)
      BY <2>1, <2>2
    <2>4. ~Held(c, r) => Cardinality(AttsOf(d, u)) = Cardinality(AttsOf(c, u)) + 1
      BY <1>2, <2>1, <2>2, FS_AddElement
    <2>5. IsFiniteSet(AttsOf(d, u))
      BY <1>2, <2>1, FS_AddElement
    <2> QED
      BY <1>4, <2>3, <2>4, <2>5, FS_CardinalityType DEF d
  <1> QED
    BY <1>3, <1>4

LEMMA FoldsHot ==
    ASSUME NEW L, NEW c \in Logs(L), NEW l \in L, NEW t, Says(t, c),
           NEW h \in Hots
    PROVE  Says(FoldHot(t, l, h), Longer(c, l, h))
  <1> DEFINE d == Longer(c, l, h)
             q == [t.interp EXCEPT ![l] = Append(@, h)]
             t2 == FoldHot(t, l, h)
  <1>1. /\ h \in Records /\ h \notin Units /\ h \notin Atts
        /\ DOMAIN c = L /\ t \in Tables(L) /\ SaysOf(t, c)
    BY RecordKinds DEF Records, Logs, Says
  <1>2. /\ t2 \in [hash : {t2.hash}, holds : {t.holds}, header : {t.header},
                   attest : {t.attest}, interp : {q}]
        /\ t2.hash = t.hash \cup {<<h, l>>}
        /\ t2.holds = t.holds /\ t2.header = t.header
        /\ t2.attest = t.attest /\ t2.interp = q
    BY <1>1 DEF FoldHot, Tables
  <1>3. q \in [L -> Seq(Hots)] /\ \A k \in L : HotsOf(q[k], d[k])
    BY <1>1, HotsKept
  <1>4. /\ d \in Logs(L) /\ DOMAIN d = L
        /\ \A x \in Records \X L : InLog(d, x) <=> InLog(c, x) \/ x = <<h, l>>
        /\ \A x : Held(d, x) <=> Held(c, x) \/ x = h
        /\ \A k \in L : Range(c[k]) \subseteq Range(d[k])
    <2>1. MoreHeld(L, c, d, l, h)
      BY <1>1, HoldsMore
    <2> QED
      BY <2>1 DEF MoreHeld
  <1>5. \A u \in Units : AttsOf(d, u) = AttsOf(c, u) /\ IsFiniteSet(AttsOf(d, u))
    BY <1>1, AttsFinite
  <1> HIDE DEF d, q, t2
  <1>6. t2 \in Tables(L)
    BY <1>1, <1>2, <1>3 DEF Tables
  <1>7. t2.hash = {x \in Records \X L : InLog(d, x)}
    BY <1>1, <1>2, <1>4 DEF SaysOf
  <1>8. /\ Kind = "many" => t2.holds = {x \in Units \X L : InLog(d, x)}
        /\ t2.attest = {x \in Atts \X L : InLog(d, x)}
    <2>1. \A x \in (Units \cup Atts) \X L : x \in Records \X L /\ x # <<h, l>>
      BY <1>1 DEF Records
    <2>2. \A x \in (Units \cup Atts) \X L : InLog(d, x) <=> InLog(c, x)
      BY <1>4, <2>1
    <2> QED
      BY <1>1, <1>2, <2>2 DEF SaysOf
  <1>9. DOMAIN t2.header = {u \in Units : Held(d, u)}
    BY <1>1, <1>2, <1>4 DEF SaysOf
  <1>10. ASSUME NEW u \in DOMAIN t2.header
         PROVE  /\ t2.header[u].log \in DOMAIN d
                /\ u \in Range(d[t2.header[u].log])
                /\ t2.header[u].attested = Cardinality(AttsOf(d, u))
    <2>1. u \in Units /\ u \in DOMAIN t.header
      BY <1>2, <1>9
    <2> QED
      BY <1>1, <1>2, <1>4, <1>5, <2>1 DEF SaysOf
  <1>11. SaysOf(t2, d)
    BY <1>2, <1>3, <1>4, <1>6, <1>7, <1>8, <1>9, <1>10, TableFields DEF SaysOf
  <1> QED
    BY <1>4, <1>5, <1>6, <1>11 DEF Says, d, t2

(* What is in the tables, and what of it was in none before. *)
LEMMA SaidOf ==
    ASSUME NEW L, NEW c \in Logs(L), NEW t, Says(t, c), NEW r \in Records
    PROVE  /\ First(t, r) <=> ~Held(c, r)
           /\ \A l \in L : Fresh(t, l, r) <=> r \notin Range(c[l])
           /\ r \in Units => Waiting(t, r) = AttsOf(c, r)
  <1>1. /\ DOMAIN c = L
        /\ t.hash = {h \in Records \X L : InLog(c, h)}
        /\ t.attest = {h \in Atts \X L : InLog(c, h)}
    BY DEF Logs, Says, SaysOf
  <1>2. \A l \in L : <<r, l>> \in t.hash <=> r \in Range(c[l])
    BY <1>1 DEF InLog
  <1>3. First(t, r) <=> ~Held(c, r)
    BY <1>1, <1>2 DEF First, Held, InLog
  <1>4. \A a \in Atts : (\E h \in t.attest : h[1] = a) <=> Held(c, a)
    <2> TAKE a \in Atts
    <2>1. \A l \in L : <<a, l>> \in t.attest <=> a \in Range(c[l])
      BY <1>1 DEF InLog
    <2>2. \A h \in t.attest : h = <<h[1], h[2]>> /\ h[2] \in L
      BY <1>1
    <2>3. ASSUME NEW h \in t.attest, h[1] = a PROVE Held(c, a)
      BY <1>1, <2>1, <2>2, <2>3 DEF Held
    <2>4. ASSUME NEW l \in L, a \in Range(c[l]) PROVE \E h \in t.attest : h[1] = a
      <3>1. <<a, l>> \in t.attest /\ <<a, l>>[1] = a
        BY <2>1, <2>4
      <3> QED
        BY <3>1
    <2> QED
      BY <1>1, <2>3, <2>4 DEF Held
  <1> QED
    BY <1>2, <1>3, <1>4 DEF Fresh, Waiting, AttsOf

(* A unit or an attestation entered: what is left to show is HEADER.       *)
LEMMA EntersOne ==
    ASSUME NEW L, NEW c \in Logs(L), NEW l \in L, NEW r \in Records \ Hots,
           NEW t, Says(t, c), NEW t2 \in Tables(L), NEW d, d = Longer(c, l, r),
           t2.hash = t.hash \cup {<<r, l>>},
           Kind = "many" =>
               t2.holds = t.holds \cup {h \in Units \X L : h = <<r, l>>},
           t2.attest = t.attest \cup {h \in Atts \X L : h = <<r, l>>},
           t2.interp = t.interp,
           DOMAIN t2.header = DOMAIN t.header \cup ({r} \cap Units),
           \A u \in DOMAIN t2.header :
              /\ t2.header[u].log \in L
              /\ u \in Range(d[t2.header[u].log])
              /\ t2.header[u].attested = Cardinality(AttsOf(d, u))
    PROVE  Says(t2, d)
  <1>1. DOMAIN c = L /\ SaysOf(t, c)
    BY DEF Logs, Says
  <1>2. MoreHeld(L, c, d, l, r)
    BY HoldsMore
  <1>3. t2.hash = {h \in Records \X L : InLog(d, h)}
    BY <1>1, <1>2 DEF SaysOf, MoreHeld
  <1>4. Kind = "many" => t2.holds = {h \in Units \X L : InLog(d, h)}
    <2>1. \A h \in Units \X L : InLog(d, h) <=> InLog(c, h) \/ h = <<r, l>>
      BY <1>2 DEF MoreHeld, Records
    <2> QED
      BY <1>1, <2>1 DEF SaysOf
  <1>5. t2.attest = {h \in Atts \X L : InLog(d, h)}
    <2>1. \A h \in Atts \X L : InLog(d, h) <=> InLog(c, h) \/ h = <<r, l>>
      BY <1>2 DEF MoreHeld, Records
    <2> QED
      BY <1>1, <2>1 DEF SaysOf
  <1>6. DOMAIN t2.header = {u \in Units : Held(d, u)}
    BY <1>1, <1>2 DEF SaysOf, MoreHeld
  <1>7. DOMAIN t2.interp = L /\ \A k \in L : HotsOf(t2.interp[k], d[k])
    <2>1. \A k \in L : HotsOf(t.interp[k], d[k])
      BY HotsKept
    <2> QED
      BY <2>1, TableFields
  <1>8. SaysOf(t2, d)
    BY <1>2, <1>3, <1>4, <1>5, <1>6, <1>7 DEF SaysOf, MoreHeld
  <1>9. \A u \in Units : IsFiniteSet(AttsOf(d, u))
    BY AttsFinite
  <1> QED
    BY <1>2, <1>8, <1>9 DEF Says, MoreHeld

LEMMA FoldsUnit ==
    ASSUME NEW L, NEW c \in Logs(L), NEW l \in L, NEW t, Says(t, c),
           NEW u \in Units
    PROVE  Says(FoldUnit(t, l, u), Longer(c, l, u))
  <1> DEFINE d == Longer(c, l, u)
             t2 == FoldUnit(t, l, u)
             hd == IF u \in DOMAIN t.header THEN t.header
                   ELSE [v \in DOMAIN t.header \cup {u} |->
                           IF v = u
                           THEN [log |-> l, attested |-> Cardinality(Waiting(t, u))]
                           ELSE t.header[v]]
  <1>1. /\ u \in Records \ Hots /\ u \notin Atts
        /\ DOMAIN c = L /\ t \in Tables(L) /\ SaysOf(t, c)
    BY RecordKinds DEF Records, Logs, Says
  <1>2. /\ t2.hash = t.hash \cup {<<u, l>>}
        /\ t2.holds = IF Kind = "many" THEN t.holds \cup {<<u, l>>} ELSE t.holds
        /\ t2.header = hd
        /\ t2.attest = t.attest /\ t2.interp = t.interp
        /\ t2 \in [hash : {t2.hash}, holds : {t2.holds}, header : {hd},
                   attest : {t.attest}, interp : {t.interp}]
    BY <1>1 DEF FoldUnit, Tables
  <1>3. MoreHeld(L, c, d, l, u)
    BY <1>1, HoldsMore
  <1>4. /\ \A v \in Units : AttsOf(d, v) = AttsOf(c, v)
        /\ Waiting(t, u) = AttsOf(c, u) /\ Cardinality(AttsOf(d, u)) \in Nat
    BY <1>1, AttsFinite, SaidOf
  <1>5. /\ hd \in [DOMAIN t.header \cup {u} -> Header(L)]
        /\ \A v \in DOMAIN t.header : hd[v] = t.header[v]
        /\ u \notin DOMAIN t.header =>
              hd[u] = [log |-> l, attested |-> Cardinality(Waiting(t, u))]
    <2>1. t.header \in [DOMAIN t.header -> Header(L)]
      BY <1>1, TableFields
    <2>2. [log |-> l, attested |-> Cardinality(Waiting(t, u))] \in Header(L)
      BY <1>4 DEF Header
    <2>3. CASE u \in DOMAIN t.header
      BY <2>1, <2>3
    <2>4. CASE u \notin DOMAIN t.header
      BY <2>1, <2>2, <2>4
    <2> QED
      BY <2>3, <2>4
  <1> HIDE DEF hd, t2, d
  <1>6. t2 \in Tables(L)
    <2>1. DOMAIN t.header \cup {u} \in SUBSET Units
      BY <1>1, TableFields
    <2>2. hd \in Headers(L)
      BY <1>5, <2>1 DEF Headers
    <2>3. t2.hash \subseteq Records \X L /\ t2.holds \subseteq Units \X L
      BY <1>1, <1>2, TableFields
    <2> QED
      BY <1>1, <1>2, <2>2, <2>3, TableFields DEF Tables
  <1>7. ASSUME NEW v \in DOMAIN t2.header
        PROVE  /\ t2.header[v].log \in L
               /\ v \in Range(d[t2.header[v].log])
               /\ t2.header[v].attested = Cardinality(AttsOf(d, v))
    <2>1. v \in DOMAIN t.header \/ (v = u /\ u \notin DOMAIN t.header)
      BY <1>2, <1>5
    <2>2. CASE v \in DOMAIN t.header
      <3>1. t2.header[v] = t.header[v] /\ v \in Units
        BY <1>1, <1>2, <1>5, <2>2, TableFields
      <3> QED
        BY <1>1, <1>3, <1>4, <2>2, <3>1 DEF SaysOf, MoreHeld
    <2>3. CASE v = u /\ u \notin DOMAIN t.header
      <3>1. t2.header[v].log = l /\ t2.header[v].attested = Cardinality(AttsOf(d, u))
        BY <1>2, <1>4, <1>5, <2>3
      <3> QED
        BY <1>3, <2>3, <3>1 DEF MoreHeld
    <2> QED
      BY <2>1, <2>2, <2>3
  <1>8. /\ Kind = "many" =>
             t2.holds = t.holds \cup {h \in Units \X L : h = <<u, l>>}
        /\ t2.attest = t.attest \cup {h \in Atts \X L : h = <<u, l>>}
        /\ DOMAIN t2.header = DOMAIN t.header \cup ({u} \cap Units)
    BY <1>1, <1>2, <1>5
  <1>9. Says(t2, d)
    BY <1>1, <1>2, <1>6, <1>7, <1>8, EntersOne DEF d
  <1> QED
    BY <1>9 DEF t2, d

LEMMA FoldsAtt ==
    ASSUME NEW L, NEW c \in Logs(L), NEW l \in L, NEW t, Says(t, c),
           NEW a \in Atts
    PROVE  Says(FoldAtt(t, l, a), Longer(c, l, a))
  <1> DEFINE d == Longer(c, l, a)
             t2 == FoldAtt(t, l, a)
             s == Subject[a]
             hd == IF First(t, a) /\ s \in DOMAIN t.header
                   THEN [t.header EXCEPT ![s].attested = @ + 1] ELSE t.header
  <1>1. /\ a \in Records \ Hots /\ a \notin Units /\ s \in Units
        /\ DOMAIN c = L /\ t \in Tables(L) /\ SaysOf(t, c)
    BY RecordKinds DEF Records, Logs, Says
  <1>2. /\ t2.hash = t.hash \cup {<<a, l>>}
        /\ t2.holds = t.holds
        /\ t2.header = hd
        /\ t2.attest = t.attest \cup {<<a, l>>} /\ t2.interp = t.interp
        /\ t2 \in [hash : {t2.hash}, holds : {t.holds}, header : {hd},
                   attest : {t2.attest}, interp : {t.interp}]
    BY <1>1 DEF FoldAtt, Tables
  <1>3. MoreHeld(L, c, d, l, a)
    BY <1>1, HoldsMore
  <1>4. /\ First(t, a) <=> ~Held(c, a)
        /\ \A v \in Units : Held(c, a) \/ s # v => AttsOf(d, v) = AttsOf(c, v)
        /\ ~Held(c, a) =>
              Cardinality(AttsOf(d, s)) = Cardinality(AttsOf(c, s)) + 1
    BY <1>1, AttsFinite, SaidOf
  <1>5. t.header \in [DOMAIN t.header -> Header(L)] /\ DOMAIN t.header \subseteq Units
    BY <1>1, TableFields
  <1>6. /\ hd \in [DOMAIN t.header -> Header(L)]
        /\ \A v \in DOMAIN t.header :
              /\ hd[v].log = t.header[v].log
              /\ v # s \/ ~First(t, a) => hd[v] = t.header[v]
              /\ v = s /\ First(t, a) => hd[v].attested = t.header[v].attested + 1
    BY <1>5 DEF Header
  <1> HIDE DEF hd, t2, d, s
  <1>7. t2 \in Tables(L)
    <2>1. hd \in Headers(L)
      BY <1>5, <1>6 DEF Headers
    <2>2. t2.hash \subseteq Records \X L /\ t2.attest \subseteq Atts \X L
      BY <1>1, <1>2, TableFields
    <2> QED
      BY <1>1, <1>2, <2>1, <2>2, TableFields DEF Tables
  <1>8. ASSUME NEW v \in DOMAIN t2.header
        PROVE  /\ t2.header[v].log \in L
               /\ v \in Range(d[t2.header[v].log])
               /\ t2.header[v].attested = Cardinality(AttsOf(d, v))
    <2>1. v \in DOMAIN t.header /\ v \in Units /\ t2.header[v] = hd[v]
      BY <1>2, <1>5, <1>6
    <2>2. /\ t.header[v].log \in L /\ v \in Range(d[t.header[v].log])
          /\ t.header[v].attested = Cardinality(AttsOf(c, v))
      BY <1>1, <1>3, <2>1 DEF SaysOf, MoreHeld
    <2>3. t2.header[v].attested = Cardinality(AttsOf(d, v))
      <3>1. CASE v # s \/ Held(c, a)
        BY <1>4, <1>6, <2>1, <2>2, <3>1
      <3>2. CASE v = s /\ ~Held(c, a)
        BY <1>4, <1>6, <2>1, <2>2, <3>2
      <3> QED
        BY <3>1, <3>2
    <2> QED
      BY <1>6, <2>1, <2>2, <2>3
  <1>9. /\ Kind = "many" =>
             t2.holds = t.holds \cup {h \in Units \X L : h = <<a, l>>}
        /\ t2.attest = t.attest \cup {h \in Atts \X L : h = <<a, l>>}
        /\ DOMAIN t2.header = DOMAIN t.header \cup ({a} \cap Units)
    BY <1>1, <1>2, <1>6
  <1>10. Says(t2, d)
    BY <1>1, <1>2, <1>7, <1>8, <1>9, EntersOne DEF d
  <1> QED
    BY <1>10 DEF t2, d

(* A unit or an attestation that its log has already changes nothing.      *)
LEMMA FoldsAgain ==
    ASSUME NEW L, NEW c \in Logs(L), NEW l \in L, NEW t, Says(t, c),
           NEW r \in Records \ Hots, ~Fresh(t, l, r)
    PROVE  Says(t, Longer(c, l, r))
  <1> DEFINE d == Longer(c, l, r)
  <1>1. DOMAIN c = L /\ t \in Tables(L) /\ SaysOf(t, c)
    BY DEF Logs, Says
  <1>2. MoreHeld(L, c, d, l, r) /\ Held(c, r) /\ r \in Range(c[l])
    BY <1>1, HoldsMore, SaidOf DEF Held
  <1>3. \A v \in Units : AttsOf(d, v) = AttsOf(c, v)
    BY <1>2, AttsFinite
  <1> HIDE DEF d
  <1>4. /\ t.hash = t.hash \cup {<<r, l>>}
        /\ Kind = "many" =>
               t.holds = t.holds \cup {h \in Units \X L : h = <<r, l>>}
        /\ t.attest = t.attest \cup {h \in Atts \X L : h = <<r, l>>}
    <2>1. InLog(c, <<r, l>>)
      BY <1>2 DEF InLog
    <2> QED
      BY <1>1, <2>1 DEF SaysOf
  <1>5. DOMAIN t.header = DOMAIN t.header \cup ({r} \cap Units)
    BY <1>1, <1>2 DEF SaysOf
  <1>6. ASSUME NEW u \in DOMAIN t.header
        PROVE  /\ t.header[u].log \in L
               /\ u \in Range(d[t.header[u].log])
               /\ t.header[u].attested = Cardinality(AttsOf(d, u))
    <2>1. u \in Units
      BY <1>1, TableFields
    <2> QED
      BY <1>1, <1>2, <1>3, <2>1 DEF SaysOf, MoreHeld
  <1>7. Says(t, d)
    BY <1>1, <1>4, <1>5, <1>6, EntersOne DEF d
  <1> QED
    BY <1>7 DEF d

LEMMA FoldsRecord ==
    ASSUME NEW L, NEW c \in Logs(L), NEW l \in L, NEW t, Says(t, c),
           NEW r \in Records
    PROVE  Says(FoldRecord(t, l, r), Longer(c, l, r))
  <1>1. r \in Hots \/ r \in Units \/ r \in Atts
    BY DEF Records
  <1>2. CASE r \in Hots
    BY <1>2, FoldsHot, RecordKinds DEF FoldRecord
  <1>3. CASE r \in Units /\ Fresh(t, l, r)
    BY <1>3, FoldsUnit, RecordKinds DEF FoldRecord
  <1>4. CASE r \in Atts /\ Fresh(t, l, r)
    BY <1>4, FoldsAtt, RecordKinds DEF FoldRecord
  <1>5. CASE r \notin Hots /\ ~Fresh(t, l, r)
    BY <1>5, FoldsAgain DEF FoldRecord
  <1> QED
    BY <1>1, <1>2, <1>3, <1>4, <1>5

-----------------------------------------------------------------------------
(* A log one record longer: what has been folded of s goes on in s.        *)
LEMMA AppendToConcat ==
    ASSUME NEW d \in Seq(Records), NEW t \in Seq(Records), NEW n \in Nat,
           n < Len(t)
    PROVE  Append(d \o SubSeq(t, 1, n), t[n + 1]) = d \o SubSeq(t, 1, n + 1)
  <1> DEFINE a == SubSeq(t, 1, n)
             b == SubSeq(t, 1, n + 1)
             x == t[n + 1]
  <1>1. Len(d) \in Nat /\ Len(t) \in Nat /\ x \in Records
    BY LenProperties, ElementOfSeq
  <1>2. \A i \in 1..(n + 1) : t[i] \in Records
    BY <1>1, ElementOfSeq
  <1>3. /\ a \in Seq(Records) /\ Len(a) = n
        /\ \A i \in 1..n : a[i] = t[i]
    BY <1>2, SubSeqProperties
  <1>4. /\ b \in Seq(Records) /\ Len(b) = n + 1
        /\ \A i \in 1..(n + 1) : b[i] = t[i]
    BY <1>2, SubSeqProperties
  <1> HIDE DEF a, b
  <1>5. /\ d \o a \in Seq(Records) /\ Len(d \o a) = Len(d) + n
        /\ \A i \in 1..(Len(d) + n) :
              (d \o a)[i] = IF i <= Len(d) THEN d[i] ELSE a[i - Len(d)]
    BY <1>3, ConcatProperties
  <1>6. /\ d \o b \in Seq(Records) /\ Len(d \o b) = Len(d) + n + 1
        /\ \A i \in 1..(Len(d) + n + 1) :
              (d \o b)[i] = IF i <= Len(d) THEN d[i] ELSE b[i - Len(d)]
    <2>1. /\ d \o b \in Seq(Records) /\ Len(d \o b) = Len(d) + Len(b)
          /\ \A i \in 1..(Len(d) + Len(b)) :
                (d \o b)[i] = IF i <= Len(d) THEN d[i] ELSE b[i - Len(d)]
      BY <1>4, ConcatProperties
    <2>2. Len(d) + Len(b) = Len(d) + n + 1
      BY <1>1, <1>4
    <2> QED
      BY <2>1, <2>2
  <1> DEFINE c == Append(d \o a, x)
  <1>7. /\ c \in Seq(Records) /\ Len(c) = Len(d) + n + 1
        /\ \A i \in 1..(Len(d) + n) : c[i] = (d \o a)[i]
        /\ c[Len(d) + n + 1] = x
    BY <1>1, <1>5, AppendProperties
  <1> HIDE DEF c
  <1>8. ASSUME NEW i \in 1..(Len(d) + n + 1) PROVE c[i] = (d \o b)[i]
    <2>1. CASE i <= Len(d)
      <3>1. c[i] = (d \o a)[i] /\ (d \o a)[i] = d[i]
        BY <1>1, <1>5, <1>7, <2>1
      <3> QED
        BY <1>6, <2>1, <3>1
    <2>2. CASE Len(d) < i /\ i < Len(d) + n + 1
      <3>1. c[i] = (d \o a)[i] /\ (d \o a)[i] = a[i - Len(d)]
        BY <1>1, <1>5, <1>7, <2>2
      <3>2. (d \o b)[i] = b[i - Len(d)] /\ i - Len(d) \in 1..n
        BY <1>1, <1>6, <2>2
      <3> QED
        BY <1>1, <1>3, <1>4, <3>1, <3>2
    <2>3. CASE i = Len(d) + n + 1
      <3>1. (d \o b)[i] = b[i - Len(d)] /\ i - Len(d) = n + 1
        BY <1>1, <1>6, <2>3
      <3>2. b[n + 1] = x
        BY <1>4
      <3>3. c[i] = x
        BY <1>7, <2>3
      <3>4. (d \o b)[i] = b[n + 1]
        BY <3>1
      <3> QED
        BY <3>2, <3>3, <3>4
    <2>4. i <= Len(d) \/ (Len(d) < i /\ i < Len(d) + n + 1) \/ i = Len(d) + n + 1
      BY <1>1
    <2> QED
      BY <2>1, <2>2, <2>3, <2>4, Zenon
  <1>9. c = d \o b
    BY <1>1, <1>6, <1>7, <1>8, SeqEqual
  <1> QED
    BY <1>9 DEF a, b, c

LEMMA NothingAdded ==
    ASSUME NEW q \in Seq(Records), NEW s \in Seq(Records)
    PROVE  q \o SubSeq(s, 1, 0) = q /\ s = SubSeq(s, 1, Len(s))
  <1>1. SubSeq(s, 1, 0) = <<>>
    BY SubSeqEmpty
  <1> QED
    BY <1>1, ConcatEmptySeq, SubSeqFull

UpTo(c, l, s, k) == [c EXCEPT ![l] = @ \o SubSeq(s, 1, k)]

(* Whatever logs the tables spoke of, whatever of log l was folded before  *)
(* and by whom, and wherever the rest of it was cut off: once records s of *)
(* it are folded the tables say of the logs what the logs, with s behind l,*)
(* say.  In particular an attestation is counted for its unit whether it   *)
(* came before it or behind it, in its log or in another, and once however *)
(* many logs hold it (build.rs `fold`).                                    *)
THEOREM FoldSays ==
    ASSUME NEW L, NEW c \in Logs(L), NEW l \in L, NEW t, Says(t, c),
           NEW s \in Seq(Records)
    PROVE  Says(FoldLog(t, l, s), [c EXCEPT ![l] = @ \o s])
  <1> DEFINE n == Len(s)
  <1>1. /\ n \in Nat /\ DOMAIN s = 1..n /\ c[l] \in Seq(Records)
        /\ c = [k \in L |-> c[k]] /\ DOMAIN c = L
        /\ \A k \in 1..n : s[k] \in Records
    BY LenProperties, ElementOfSeq DEF Logs
  <1>2. PICK g : FoldsTo(g, t, l, s, n)
    BY <1>1, FoldSteps
  <1> HIDE DEF n
  <1> DEFINE S == {k \in 0..n : Says(g[k], UpTo(c, l, s, k))}
  <1>3. 0 \in S
    <2>1. UpTo(c, l, s, 0) = c
      BY <1>1, NothingAdded DEF UpTo
    <2> QED
      BY <1>1, <1>2, <2>1 DEF FoldsTo
  <1>4. ASSUME NEW k \in 0..n, k \in S, k < n
        PROVE  k + 1 \in S
    <2>1. /\ k \in Nat /\ k + 1 \in 0..n /\ k \in 0..(n - 1)
          /\ s[k + 1] \in Records
      BY <1>1, <1>4
    <2>2. SubSeq(s, 1, k) \in Seq(Records)
      <3>1. \A i \in 1..k : s[i] \in Records
        BY <1>1, <2>1
      <3> QED
        BY <2>1, <3>1, SubSeqProperties
    <2>3. UpTo(c, l, s, k) \in Logs(L)
      BY <1>1, <2>2, ConcatProperties DEF UpTo, Logs
    <2>4. Longer(UpTo(c, l, s, k), l, s[k + 1]) = UpTo(c, l, s, k + 1)
      <3>1. Append(c[l] \o SubSeq(s, 1, k), s[k + 1])
              = c[l] \o SubSeq(s, 1, k + 1)
        BY <1>1, <1>4, <2>1, AppendToConcat DEF n
      <3> QED
        BY <1>1, <3>1 DEF Longer, UpTo
    <2>5. g[k + 1] = FoldRecord(g[k], l, s[k + 1])
      BY <1>2, <2>1 DEF FoldsTo
    <2>6. Says(g[k + 1], UpTo(c, l, s, k + 1))
      BY <1>4, <2>1, <2>3, <2>4, <2>5, FoldsRecord
    <2> QED
      BY <2>1, <2>6
  <1>5. 0..n \subseteq S
    <2> HIDE DEF S
    <2> QED
      BY <1>1, <1>3, <1>4, PlaceByPlace
  <1>6. n \in S
    BY <1>1, <1>5
  <1>7. UpTo(c, l, s, n) = [c EXCEPT ![l] = @ \o s]
    BY NothingAdded DEF UpTo, n
  <1> QED
    BY <1>2, <1>6, <1>7 DEF FoldsTo

(* A store that has just been cleared says what logs with nothing in them  *)
(* say (build.rs `clear`).                                                 *)
LEMMA EmptySays ==
    ASSUME NEW L
    PROVE  /\ [l \in L |-> <<>>] \in Logs(L)
           /\ Says(EmptyTables(L), [l \in L |-> <<>>])
  <1> DEFINE c == [l \in L |-> <<>>]
             t == EmptyTables(L)
  <1>1. c \in Logs(L) /\ DOMAIN c = L /\ \A l \in L : Range(c[l]) = {}
    <2>1. Range(<<>>) = {}
      BY DEF Range
    <2> QED
      BY <2>1, EmptySeq DEF Logs
  <1>2. /\ t.hash = {} /\ t.holds = {} /\ t.attest = {}
        /\ DOMAIN t.header = {} /\ t.interp = [l \in L |-> <<>>]
    BY DEF EmptyTables
  <1>3. t \in Tables(L)
    <2>1. <<>> \in [{} -> Header(L)]
      OBVIOUS
    <2>2. <<>> \in Headers(L)
      BY <2>1 DEF Headers
    <2>3. [l \in L |-> <<>>] \in [L -> Seq(Hots)]
      BY EmptySeq
    <2> QED
      BY <2>2, <2>3 DEF Tables, EmptyTables
  <1> HIDE DEF c, t
  <1>4. \A x : ~Held(c, x)
    BY <1>1 DEF Held
  <1>5. ASSUME NEW X
        PROVE  \A h \in X \X L : ~InLog(c, h)
    BY <1>1 DEF InLog
  <1>6. \A l \in L : HotsOf(<<>>, c[l])
    <2> DEFINE e == <<>>
    <2>1. e \in [1..0 -> 1..0] /\ Range(e) = {} /\ Len(e) = 0 /\ 1..0 = {}
      BY DEF Range
    <2>2. \A l \in L : c[l] = e
      BY DEF c
    <2> HIDE DEF e
    <2>3. HotsOf(e, e)
      BY <2>1 DEF HotsOf
    <2> QED
      BY <2>2, <2>3 DEF e
  <1>7. SaysOf(t, c)
    BY <1>1, <1>2, <1>4, <1>5, <1>6 DEF SaysOf
  <1>8. \A u \in Units : AttsOf(c, u) = {}
    BY <1>4 DEF AttsOf
  <1>9. Says(t, c)
    BY <1>1, <1>3, <1>7, <1>8, FS_EmptySet DEF Says
  <1> QED
    BY <1>1, <1>9 DEF c, t

(* Folding enters nothing in RECORD_HASH that was not folded, whatever the *)
(* tables were.                                                            *)
LEMMA HashesFolded ==
    ASSUME NEW t, "hash" \in DOMAIN t, NEW l, NEW s \in Seq(Records)
    PROVE  /\ "hash" \in DOMAIN FoldLog(t, l, s)
           /\ \A h \in FoldLog(t, l, s).hash :
                 h \in t.hash \/ \E r \in Range(s) : h = <<r, l>>
  <1> DEFINE n == Len(s)
             Entered(x) == /\ "hash" \in DOMAIN x
                           /\ \A h \in x.hash :
                                 h \in t.hash \/ \E r \in Range(s) : h = <<r, l>>
  <1>1. /\ n \in Nat /\ DOMAIN s = 1..n
        /\ \A k \in 1..n : s[k] \in Range(s)
    BY LenProperties DEF Range
  <1>2. PICK g : FoldsTo(g, t, l, s, n)
    BY <1>1, FoldSteps
  <1> HIDE DEF n
  <1> DEFINE S == {k \in 0..n : Entered(g[k])}
  <1>3. 0 \in S
    BY <1>1, <1>2 DEF FoldsTo
  <1>4. ASSUME NEW k \in 0..n, k \in S, k < n
        PROVE  k + 1 \in S
    <2>1. k + 1 \in 0..n /\ k \in 0..(n - 1) /\ s[k + 1] \in Range(s)
      BY <1>1, <1>4
    <2> DEFINE x == g[k]
               r == s[k + 1]
    <2>2. Entered(x) /\ g[k + 1] = FoldRecord(x, l, r)
      BY <1>2, <1>4, <2>1 DEF FoldsTo
    <2> HIDE DEF x, r
    <2>3. /\ "hash" \in DOMAIN FoldRecord(x, l, r)
          /\ FoldRecord(x, l, r).hash \in {x.hash, x.hash \cup {<<r, l>>}}
      <3>1. CASE FoldRecord(x, l, r) = x
        BY <2>2, <3>1
      <3>2. CASE FoldRecord(x, l, r) = FoldHot(x, l, r)
        BY <2>2, <3>2 DEF FoldHot
      <3>3. CASE FoldRecord(x, l, r) = FoldUnit(x, l, r)
        BY <2>2, <3>3 DEF FoldUnit
      <3>4. CASE FoldRecord(x, l, r) = FoldAtt(x, l, r)
        BY <2>2, <3>4 DEF FoldAtt
      <3> QED
        BY <3>1, <3>2, <3>3, <3>4 DEF FoldRecord
    <2>4. Entered(FoldRecord(x, l, r))
      BY <2>1, <2>2, <2>3 DEF r
    <2> HIDE DEF Entered
    <2> QED
      BY <2>1, <2>2, <2>4
  <1>5. 0..n \subseteq S
    <2> HIDE DEF S
    <2> QED
      BY <1>1, <1>3, <1>4, PlaceByPlace
  <1>6. Entered(g[n])
    BY <1>1, <1>5
  <1> QED
    BY <1>2, <1>6 DEF FoldsTo
=============================================================================
