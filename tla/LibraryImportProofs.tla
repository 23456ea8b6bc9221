------------------------- MODULE LibraryImportProofs -------------------------
(***************************************************************************)
(* What holds of imports into a text library for every set of commands,    *)
(* imports, records and findings, whoever is killed in the middle of what, *)
(* beside commands that add, append and redact.                            *)
(*   ImportInv  no record is lost, and the tables shrink (`Retained`)       *)
(*   WaitInv    what waits, waits for something (`WaitsForMissing`)         *)
(*   OrderInv   the order of the files leaves no trace (`OrderFree`)        *)
(* The last two speak of what happens while nobody is killed and no two    *)
(* commands overlap.                                                       *)
(***************************************************************************)
EXTENDS LibraryImport, TextLibraryProofs, WellFoundedInduction

-----------------------------------------------------------------------------
(***************************************************************************)
(* What classify.rs works out in rounds.  The rounds are a recursive       *)
(* function of their number; that there is one, and that its values are    *)
(* sets of the records that came in, is shown with the least round that    *)
(* would contradict it.                                                    *)
(***************************************************************************)
LEMMA LeastRound ==
    ASSUME NEW n \in Nat, NEW S \in SUBSET (0..n), S # {}
    PROVE  \E k \in S : \A j \in S : k <= j
  <1> DEFINE T == {0..k : k \in S}
             F == FiniteSubsetsOf(0..n)
             R == StrictSubsetOrdering(0..n)
  <1>1. IsWellFoundedOn(R, F)
    BY FS_StrictSubsetOrderingWellFounded
  <1>2. \A k \in S : 0..k \in F
    BY FS_Interval DEF FiniteSubsetsOf
  <1>3. T \subseteq F /\ T # {}
    BY <1>2
  <1> HIDE DEF R, F
  <1>4. PICK B \in T : \A C \in T : ~(<<C, B>> \in R)
    <2> HIDE DEF T
    <2> QED
      BY <1>1, <1>3, WFMin
  <1>5. PICK k \in S : B = 0..k
    BY <1>4
  <1>6. ASSUME NEW j \in S, ~(k <= j) PROVE FALSE
    <2>1. 0..j \in T /\ k \notin 0..j
      BY <1>6
    <2>2. /\ 0..j \subseteq 0..k /\ 0..j # 0..k
          /\ 0..j \in SUBSET (0..n) /\ 0..k \in SUBSET (0..n)
      BY <1>6, <2>1
    <2> QED
      BY <1>4, <1>5, <2>1, <2>2 DEF R, StrictSubsetOrdering
  <1> QED
    BY <1>5, <1>6

LEMMA RoundByRound ==
    ASSUME NEW n \in Nat, NEW S, 0 \in S,
           \A k \in 0..n : k \in S /\ k < n => k + 1 \in S
    PROVE  0..n \subseteq S
  <1> DEFINE D == (0..n) \ S
  <1>1. ASSUME D # {} PROVE FALSE
    <2>1. PICK k \in D : \A j \in D : k <= j
      BY <1>1, LeastRound
    <2>2. k \in 0..n /\ k # 0 /\ k - 1 \in 0..n /\ k - 1 < n /\ k - 1 \notin D
      BY <2>1
    <2>3. (k - 1) + 1 = k /\ (k - 1) + 1 \in S
      BY <2>2
    <2> QED
      BY <2>1, <2>3
  <1> QED
    BY <1>1

(* Rounds of any kind: sets of X, each a function of the one before it.    *)
Rounds(g, m, w) ==
    w = [n \in 0..m |-> IF n = 0 THEN {} ELSE g[w[n - 1]]]

LEMMA RoundsExist ==
    ASSUME NEW X, NEW g \in [SUBSET X -> SUBSET X], NEW m \in Nat
    PROVE  \E w \in [0..m -> SUBSET X] : Rounds(g, m, w)
  <1> DEFINE E == {k \in 0..m : \E w \in [0..k -> SUBSET X] : Rounds(g, k, w)}
  <1>1. 0 \in E
    <2> DEFINE f == [n \in 0..0 |-> {}]
    <2>1. f = [n \in 0..0 |-> IF n = 0 THEN {} ELSE g[f[n - 1]]]
      OBVIOUS
    <2>2. f \in [0..0 -> SUBSET X]
      OBVIOUS
    <2>3. Rounds(g, 0, f)
      BY <2>1 DEF Rounds
    <2> HIDE DEF f
    <2> QED
      BY <2>2, <2>3
  <1>2. ASSUME NEW k \in 0..m, k \in E, k < m PROVE k + 1 \in E
    <2>1. PICK w \in [0..k -> SUBSET X] : Rounds(g, k, w)
      BY <1>2
    <2> DEFINE f == [n \in 0..(k + 1) |-> IF n = k + 1 THEN g[w[k]] ELSE w[n]]
               h == [n \in 0..(k + 1) |-> IF n = 0 THEN {} ELSE g[f[n - 1]]]
    <2>2. f \in [0..(k + 1) -> SUBSET X]
      OBVIOUS
    <2>3. ASSUME NEW n \in 0..(k + 1) PROVE f[n] = h[n]
      <3>1. CASE n = 0
        BY <3>1, <2>1 DEF Rounds
      <3>2. CASE n = k + 1
        BY <3>2
      <3>3. CASE n # 0 /\ n # k + 1
        <4>1. n \in 0..k /\ n - 1 \in 0..k
          BY <3>3
        <4>2. w[n] = g[w[n - 1]]
          BY <2>1, <3>3, <4>1 DEF Rounds
        <4> QED
          BY <3>3, <4>1, <4>2
      <3> QED
        BY <3>1, <3>2, <3>3
    <2>4. f = h
      BY <2>3, Zenon
    <2>5. k + 1 \in 0..m
      BY <1>2
    <2> QED
      BY <2>2, <2>4, <2>5 DEF Rounds
  <1>3. 0..m \subseteq E
    <2> HIDE DEF E
    <2> QED
      BY <1>1, <1>2, RoundByRound
  <1> QED
    BY <1>3

(* The rounds of what waits, of which the last is the outcome.             *)
WaitRounds(live, held, m, w) ==
    /\ w \in [0..m -> SUBSET live]
    /\ w[0] = {}
    /\ \A n \in 1..m, r \in live :
          r \in w[n] <=> ~(Names[r] \subseteq held \ Provided(w[n - 1]))

LEMMA WaitsRounds ==
    ASSUME NEW base, NEW live, IsFiniteSet(live)
    PROVE  \E w : /\ WaitRounds(live, base \cup Provided(live), Cardinality(live), w)
                  /\ Waits(base, live) = w[Cardinality(live)]
  <1> DEFINE m == Cardinality(live)
             held == base \cup Provided(live)
             G(S) == {r \in live : ~(Names[r] \subseteq held \ Provided(S))}
             g == [S \in SUBSET live |-> G(S)]
             F(w) == [n \in 0..m |-> IF n = 0 THEN {} ELSE G(w[n - 1])]
             v == CHOOSE w : w = F(w)
  <1>1. m \in Nat
    BY FS_CardinalityType
  <1>2. g \in [SUBSET live -> SUBSET live]
    OBVIOUS
  <1>3. PICK w \in [0..m -> SUBSET live] : Rounds(g, m, w)
    <2> HIDE DEF g, m
    <2> QED
      BY <1>1, <1>2, RoundsExist
  <1>4. w = F(w)
    <2>1. ASSUME NEW n \in 0..m PROVE w[n] = F(w)[n]
      <3>1. CASE n = 0
        BY <1>3, <3>1 DEF Rounds
      <3>2. CASE n # 0
        <4>1. n - 1 \in 0..m
          BY <1>1, <3>2
        <4>2. w[n] = g[w[n - 1]] /\ w[n - 1] \in SUBSET live
          BY <1>3, <3>2, <4>1 DEF Rounds
        <4> QED
          BY <3>2, <4>2
      <3> QED
        BY <3>1, <3>2
    <2> HIDE DEF m, G
    <2>2. F(w) = [n \in 0..m |-> F(w)[n]]
      OBVIOUS
    <2>3. w = [n \in 0..m |-> w[n]]
      OBVIOUS
    <2> QED
      BY <2>1, <2>2, <2>3, Zenon
  <1>5. v = F(v)
    <2> HIDE DEF F
    <2> QED
      BY <1>4
  <1>6. Waits(base, live) = v[m]
    BY DEF Waits
  <1>7. v \in [0..m -> SUBSET live]
    <2>1. F(v) \in [0..m -> SUBSET live]
      <3> HIDE DEF v, m, held
      <3> QED
        OBVIOUS
    <2> HIDE DEF v, F
    <2> QED
      BY <1>5, <2>1
  <1>8. v[0] = {} /\ \A n \in 1..m : v[n] = G(v[n - 1])
    <2>1. 0 \in 0..m /\ \A n \in 1..m : n \in 0..m /\ n # 0
      BY <1>1
    <2> HIDE DEF v, m, G
    <2> QED
      BY <1>5, <2>1
  <1>9. ASSUME NEW n \in 1..m, NEW r \in live
        PROVE  r \in v[n] <=> ~(Names[r] \subseteq held \ Provided(v[n - 1]))
    <2>1. v[n] = G(v[n - 1])
      BY <1>8
    <2> HIDE DEF v, m, held
    <2> QED
      BY <2>1
  <1>10. WaitRounds(live, held, m, v)
    <2> HIDE DEF v, m, held
    <2> QED
      BY <1>7, <1>8, <1>9 DEF WaitRounds
  <1> QED
    <2> HIDE DEF v
    <2> QED
      BY <1>6, <1>10

LEMMA WaitsLive ==
    ASSUME NEW base, NEW live, IsFiniteSet(live)
    PROVE  Waits(base, live) \subseteq live
  <1>1. Cardinality(live) \in Nat
    BY FS_CardinalityType
  <1>2. Cardinality(live) \in 0..Cardinality(live)
    BY <1>1
  <1>3. PICK w : /\ WaitRounds(live, base \cup Provided(live), Cardinality(live), w)
                 /\ Waits(base, live) = w[Cardinality(live)]
    BY WaitsRounds
  <1> QED
    BY <1>2, <1>3 DEF WaitRounds

LEMMA GoneLive ==
    ASSUME NEW library, NEW base, NEW live
    PROVE  Gone(library, base, live) \subseteq live
  <1> DEFINE ready == live \ Waits(base, live)
             blamed == Blamed(library \cup ready, ready)
  <1>1. blamed \subseteq ready
    BY DEF Blamed
  <1>2. Minimal(blamed) \subseteq blamed
    BY DEF Minimal
  <1> QED
    BY <1>1, <1>2 DEF Gone

(* The quarantine after each round.                                        *)
Quarantines(library, extra, incoming, q) ==
    LET m == Cardinality(incoming)
    IN  /\ q \in [0..m -> SUBSET incoming]
        /\ q[0] = {}
        /\ \A n \in 1..m :
              q[n] = q[n - 1] \cup Gone(library, Provided(library) \cup extra,
                                       incoming \ q[n - 1])
        /\ ClassifyAll(library, extra, incoming).quarantined = q[m]

LEMMA QuarantineRounds ==
    ASSUME NEW library, NEW extra, NEW incoming, IsFiniteSet(incoming)
    PROVE  \E q : Quarantines(library, extra, incoming, q)
  <1> DEFINE m == Cardinality(incoming)
             base == Provided(library) \cup extra
             G(S) == S \cup Gone(library, base, incoming \ S)
             g == [S \in SUBSET incoming |-> G(S)]
             F(w) == [n \in 0..m |-> IF n = 0 THEN {} ELSE G(w[n - 1])]
             v == CHOOSE w : w = F(w)
  <1>1. m \in Nat
    BY FS_CardinalityType
  <1>2. \A S \in SUBSET incoming : G(S) \in SUBSET incoming
    BY GoneLive
  <1>3. g \in [SUBSET incoming -> SUBSET incoming]
    BY <1>2
  <1>4. PICK w \in [0..m -> SUBSET incoming] : Rounds(g, m, w)
    <2> HIDE DEF g, m
    <2> QED
      BY <1>1, <1>3, RoundsExist
  <1>5. w = F(w)
    <2>1. ASSUME NEW n \in 0..m PROVE w[n] = F(w)[n]
      <3>1. CASE n = 0
        BY <1>4, <3>1 DEF Rounds
      <3>2. CASE n # 0
        <4>1. n - 1 \in 0..m
          BY <1>1, <3>2
        <4>2. w[n] = g[w[n - 1]] /\ w[n - 1] \in SUBSET incoming
          BY <1>4, <3>2, <4>1 DEF Rounds
        <4> HIDE DEF G
        <4> QED
          BY <3>2, <4>2
      <3> QED
        BY <3>1, <3>2
    <2> HIDE DEF m, G
    <2>2. F(w) = [n \in 0..m |-> F(w)[n]]
      OBVIOUS
    <2>3. w = [n \in 0..m |-> w[n]]
      OBVIOUS
    <2> QED
      BY <2>1, <2>2, <2>3, Zenon
  <1>6. v = F(v)
    <2> HIDE DEF F
    <2> QED
      BY <1>5
  <1>7. ClassifyAll(library, extra, incoming).quarantined = v[m]
    BY DEF ClassifyAll
  <1>8. \A n \in 0..m : v[n] \in SUBSET incoming
    <2> DEFINE S == {n \in 0..m : v[n] \in SUBSET incoming}
    <2>1. 0 \in 0..m /\ v[0] = {}
      <3> HIDE DEF v, m, G
      <3> QED
        BY <1>1, <1>6
    <2>2. ASSUME NEW n \in 0..m, n \in S, n < m PROVE n + 1 \in S
      <3>1. n + 1 \in 0..m /\ n + 1 # 0 /\ (n + 1) - 1 = n
        BY <1>1, <2>2
      <3>2. v[n + 1] = G(v[n])
        <4> HIDE DEF v, m, G
        <4> QED
          BY <1>6, <3>1
      <3> HIDE DEF v, m, G
      <3> QED
        BY <1>2, <2>2, <3>1, <3>2
    <2>3. 0..m \subseteq S
      <3>1. 0 \in S
        BY <2>1
      <3> HIDE DEF S, m
      <3> QED
        BY <1>1, <2>2, <3>1, RoundByRound
    <2> QED
      BY <2>3
  <1>9. v \in [0..m -> SUBSET incoming]
    <2>1. v = [n \in 0..m |-> v[n]]
      <3> HIDE DEF v, m, G
      <3> QED
        BY <1>6
    <2> HIDE DEF v, m
    <2> QED
      BY <1>8, <2>1
  <1>10. v[0] = {} /\ \A n \in 1..m : v[n] = G(v[n - 1])
    <2>1. 0 \in 0..m /\ \A n \in 1..m : n \in 0..m /\ n # 0
      BY <1>1
    <2> HIDE DEF v, m, G
    <2> QED
      BY <1>6, <2>1
  <1> QED
    <2> HIDE DEF v
    <2> QED
      BY <1>7, <1>9, <1>10 DEF Quarantines

(* Each record that comes in is put in one of the three classes.           *)
LEMMA ClassesShare ==
    ASSUME NEW library, NEW extra, NEW incoming, IsFiniteSet(incoming)
    PROVE  LET cls == ClassifyAll(library, extra, incoming)
           IN  /\ cls = [accepted |-> cls.accepted, waiting |-> cls.waiting,
                         quarantined |-> cls.quarantined]
               /\ incoming = cls.accepted \cup cls.waiting \cup cls.quarantined
               /\ cls.accepted \cap (cls.waiting \cup cls.quarantined) = {}
               /\ cls.waiting \cap cls.quarantined = {}
  <1> DEFINE cls == ClassifyAll(library, extra, incoming)
             base == Provided(library) \cup extra
  <1>1. cls.quarantined \subseteq incoming
    <2>1. Cardinality(incoming) \in 0..Cardinality(incoming)
      BY FS_CardinalityType
    <2>2. PICK q : Quarantines(library, extra, incoming, q)
      BY QuarantineRounds
    <2>3. /\ q \in [0..Cardinality(incoming) -> SUBSET incoming]
          /\ cls.quarantined = q[Cardinality(incoming)]
      BY <2>2 DEF Quarantines
    <2> HIDE DEF cls
    <2> QED
      BY <2>1, <2>3
  <1>2. /\ cls = [accepted |-> cls.accepted, waiting |-> cls.waiting,
                  quarantined |-> cls.quarantined]
        /\ cls.waiting = Waits(base, incoming \ cls.quarantined)
        /\ cls.accepted = incoming \ (cls.quarantined \cup cls.waiting)
    BY DEF ClassifyAll
  <1>3. cls.waiting \subseteq incoming \ cls.quarantined
    <2>1. IsFiniteSet(incoming \ cls.quarantined)
      BY FS_Subset
    <2> HIDE DEF cls
    <2> QED
      BY <1>2, <2>1, WaitsLive
  <1> HIDE DEF cls
  <1> QED
    BY <1>1, <1>2, <1>3 DEF cls

-----------------------------------------------------------------------------
(***************************************************************************)
(* The inductive invariant.  Retained is not inductive by itself: it says  *)
(* nothing of an import until its state is in the batch table, which is    *)
(* written last.  What has become of its records until then is said place  *)
(* by place, of the one command that holds the library lock.               *)
(***************************************************************************)
ImportOps == {"import", "stage", "accept", "discard"}
Fetching  == {"put", "rename"}
Filing    == {"staging", "waiting", "apart"}
Promoting == {"promote", "moved", "shorten"}

Fetches(c)  == pc[c] \in Fetching /\ Doing(c, {"import", "stage", "accept"})
Takes(c)    == Doing(c, {"import", "stage"})
Classing(c) == Fetches(c) \/ (pc[c] \in Filing /\ Takes(c))
Busy(c)     == Fetches(c) \/ pc[c] \in Writing

(* What an import put aside is of its own file.                            *)
Files(f) == f = [n \in Imports |-> f[n]] /\ \A n \in Imports : f[n] \subseteq File[n]

Placed(c) ==
    /\ pc[c] \in {"idle", "enforce", "opened"} \cup Locked \cup Writing
    /\ op[c] \in {None} \cup TextTasks \cup ImportTasks
    /\ pc[c] \in Writing => lock = c
    /\ pc[c] = "staging" => Doing(c, {"stage"})
    /\ pc[c] \in {"waiting", "apart"} => Takes(c)
    /\ pc[c] \in Promoting => Doing(c, {"import", "accept"})
    /\ pc[c] = "unstage" => Doing(c, {"accept", "discard"})
    /\ pc[c] = "unwait" => Doing(c, {"discard"})
    /\ pc[c] \in {"save", "rows"} => Doing(c, ImportOps)

ImportShape ==
    /\ LibShape
    /\ Files(staged) /\ Files(waiting) /\ Files(quarantine)
    /\ batches \in [Imports -> States]
    /\ rows \in [Content -> Imports \cup {None}]
    /\ work = [c \in Commands |-> work[c]]
    /\ gaveUp \subseteq Imports /\ troubles \in 0 .. MaxTroubles
    /\ \A c \in Commands : Placed(c)

(* What a command has worked out: classes of its import's own file, and    *)
(* records to move of the file of the import that waits for them.          *)
Worked(c) ==
    /\ Busy(c) => work[c] \in Works
    /\ Classing(c) => /\ work[c].cls \in Sorted
                      /\ work[c].cls.accepted \subseteq File[On(c)]
                      /\ work[c].cls.waiting \subseteq File[On(c)]
                      /\ work[c].cls.quarantined \subseteq File[On(c)]
    /\ pc[c] \in {"moved", "shorten"} =>
          LET m == work[c].move
          IN  /\ m \in Moves /\ m.gone \subseteq waiting[m.of] /\ m.bad \subseteq m.gone
              /\ m.gone # {}
              /\ \A r \in m.gone : work[c].tables.rows[r] = m.of

(* The library has it, or has redacted it.                                 *)
Landed(r, n) == \/ r \in catalog.held \cup objects
                \/ r \in Objects /\ PartOf(r) \in DoorRedacted(catalog, n)

Kept(n) == \A r \in File[n] : Somewhere(r, n)

(* An import is not in the table before it is over, and until its records  *)
(* are all somewhere they are in the classes it has them in.               *)
Imported(c) ==
    Takes(c) =>
      /\ pc[c] \in Fetching \cup Filing \cup Promoting \cup {"save"}
            => batches[On(c)] = None
      /\ pc[c] \in Fetching \cup Filing =>
            \A r \in File[On(c)] :
               \/ Landed(r, On(c))
               \/ r \in work[c].cls.accepted \cup work[c].cls.waiting
                                             \cup work[c].cls.quarantined
      /\ pc[c] \in {"waiting", "apart"} =>
            \A r \in work[c].cls.accepted : Landed(r, On(c)) \/ r \in staged[On(c)]
      /\ pc[c] = "apart" => work[c].cls.waiting \subseteq waiting[On(c)]
      /\ pc[c] \in Promoting \cup {"save"} => Kept(On(c))

(* The texts that are accepted are put before the records are appended.    *)
TextsPut(c) ==
    pc[c] \in Fetching /\ Doing(c, {"import", "accept"}) =>
       \A x \in Texts(work[c].cls.accepted) : Landed(x, On(c)) \/ x \in todo[c]

(* A staged file is emptied when its records have landed, or are given up. *)
Unstaged(c) ==
    /\ Doing(c, {"accept"}) =>
          /\ pc[c] \in Fetching => work[c].cls.accepted = staged[On(c)]
          /\ pc[c] = "unstage" => \A x \in staged[On(c)] : Landed(x, On(c))
    /\ Doing(c, {"discard"}) /\ pc[c] \in {"unstage", "unwait"} => On(c) \in gaveUp

(* What is promoted is put where it goes before it is taken out of where   *)
(* it waited.                                                              *)
Moved(c) ==
    LET m == work[c].move
    IN  /\ pc[c] = "moved" => m.gone \ m.bad \subseteq catalog.held \cup staged[m.of]
        /\ pc[c] = "shorten" =>
              m.gone \subseteq catalog.held \cup staged[m.of] \cup quarantine[m.of]

(* The table to be written adds no import but the one that is under way.   *)
Tabled(c) ==
    Busy(c) /\ pc[c] # "rows" =>
       \A n \in Imports : work[c].tables.batches[n] # None =>
           batches[n] # None \/ (n = On(c) /\ Takes(c))

Sorts(c) == /\ Worked(c) /\ Imported(c) /\ TextsPut(c) /\ Unstaged(c)
               /\ Moved(c) /\ Tabled(c)

ImportInv == /\ ImportShape /\ Backed /\ Retained
             /\ \A c \in Commands : Sound(c) /\ Sorts(c)

-----------------------------------------------------------------------------
(* What has landed stays. *)
LEMMA LandedStays ==
    ASSUME LibShape, NEW c \in Commands, Leaves(c), NEW n, NEW r, Landed(r, n)
    PROVE  Landed(r, n)'
  <1>1. Redacted(catalog) \subseteq Redacted(catalog)'
    BY RedactedGrows DEF Leaves, Grown, Redacted
  <1>2. DoorRedacted(catalog, n) \subseteq DoorRedacted(catalog, n)'
    BY <1>1 DEF DoorRedacted, Logged
  <1>3. CASE r \in Objects /\ PartOf(r) \in DoorRedacted(catalog, n)
    BY <1>2, <1>3 DEF Landed, PartOf
  <1>4. CASE r \in catalog.held
    BY <1>4 DEF Landed, Leaves, Grown
  <1>5. CASE r \in objects
    <2>1. r \in objects' \/ PartOf(r) \in Redacted(catalog)
      BY <1>5 DEF Leaves
    <2>2. r \in Objects
      BY <1>5 DEF LibShape
    <2> QED
      BY <1>2, <2>1, <2>2 DEF Landed, DoorRedacted, PartOf
  <1> QED
    BY <1>3, <1>4, <1>5 DEF Landed

LEMMA AllLanded ==
    ASSUME LibShape, NEW c \in Commands, Leaves(c)
    PROVE  \A n, r : Landed(r, n) => Landed(r, n)'
  BY LandedStays

(* A command that does not import has nothing under way.                   *)
LEMMA IdleSorts ==
    ASSUME NEW c \in Commands, ~Busy(c)'
    PROVE  Sorts(c)'
  BY DEF Sorts, Worked, Imported, TextsPut, Unstaged, Moved, Tabled, Busy,
     Fetches, Takes, Classing, Writing, Fetching, Filing, Promoting, Doing

-----------------------------------------------------------------------------
(* What a step of an import leaves to the other commands, and where it     *)
(* leads.                                                                  *)
LEMMA ImportRecords ==
    ASSUME LibShape, NEW c \in Commands, pc[c] # "idle",
           NEW held \in SUBSET Content, Record(c, {}, {}, held)
    PROVE  /\ Grown /\ catalog' \in Catalogs /\ catalog'.versions = catalog.versions
           /\ snap' \in [Commands -> {None} \cup Catalogs]
           /\ \A d \in Commands : (snap'[d] = None) <=> (snap[d] = None)
           /\ \A d \in Commands \ {c} : snap'[d] = snap[d]
           /\ held \subseteq catalog'.held
           /\ snap'[c].versions = snap[c].versions
           /\ snap'[c].redacted = snap[c].redacted
           /\ catalog'.redacted = catalog.redacted
           /\ snap'[c].held = snap[c].held \cup held
           /\ catalog'.held = catalog.held \cup held
  <1>1. snap[c] \in Catalogs /\ catalog \in Catalogs
    BY DEF LibShape
  <1> DEFINE with(s) == [versions |-> s.versions \cup {}, redacted |-> s.redacted \cup {},
                         held |-> s.held \cup held]
  <1>2. with(snap[c]) \in Catalogs /\ with(catalog) \in Catalogs
    BY <1>1 DEF Catalogs
  <1>3. catalog' = with(catalog) /\ snap' = [snap EXCEPT ![c] = with(snap[c])]
    BY DEF Record
  <1>4. with(snap[c]) # None
    BY <1>2, NothingIsThere
  <1> QED
    BY <1>1, <1>2, <1>3, <1>4, NothingIsThere DEF LibShape, Grown

(* Of the other commands, and of the shape of the library.                 *)
Apart(c) == /\ LibShape'
            /\ Grown /\ catalog'.versions = catalog.versions
            /\ UNCHANGED <<objects, troubles>>
            /\ \A d \in Commands \ {c} :
                  /\ pc'[d] = pc[d] /\ op'[d] = op[d] /\ snap'[d] = snap[d]
                  /\ todo'[d] = todo[d] /\ alone'[d] = alone[d]
                  /\ work'[d] = work[d]
                  /\ (lock' = d) <=> (lock = d)
            /\ work' = [d \in Commands |-> work'[d]]

LEMMA WorkingApart ==
    ASSUME LibShape, work = [d \in Commands |-> work[d]], NEW c \in Commands,
           NEW from, NEW to, Working(c, from, to), from \in Locked \cup Writing,
           to \in Locked \cup Writing, lock = c,
           UNCHANGED <<objects, troubles>>,
           UNCHANGED <<catalog, snap>>
              \/ \E held \in SUBSET Content : Record(c, {}, {}, held),
           UNCHANGED todo \/ \E S \in SUBSET Objects : todo' = [todo EXCEPT ![c] = S],
           \/ UNCHANGED work
           \/ \E w : work' = [work EXCEPT ![c] = w]
    PROVE  Apart(c)
  <1>1. pc[c] = from /\ pc' = [pc EXCEPT ![c] = to] /\ UNCHANGED <<lock, op, temp, alone>>
    BY DEF Working, Step, Goto
  <1>2. from \notin {"idle", "enforce", "opened"} /\ to \notin {"idle", "enforce", "opened"}
    BY DEF Locked, Writing
  <1>3. /\ Grown /\ catalog' \in Catalogs /\ catalog'.versions = catalog.versions
        /\ snap' \in [Commands -> {None} \cup Catalogs]
        /\ \A d \in Commands : (snap'[d] = None) <=> (snap[d] = None)
        /\ \A d \in Commands \ {c} : snap'[d] = snap[d]
    <2>1. CASE UNCHANGED <<catalog, snap>>
      BY <2>1 DEF LibShape, Grown
    <2>2. CASE \E held \in SUBSET Content : Record(c, {}, {}, held)
      BY <1>1, <1>2, <2>2, ImportRecords
    <2> QED
      BY <2>1, <2>2
  <1>4. /\ todo' \in [Commands -> SUBSET Objects]
        /\ \A d \in Commands \ {c} : todo'[d] = todo[d]
    BY DEF LibShape
  <1>5. /\ work' = [d \in Commands |-> work'[d]]
        /\ \A d \in Commands \ {c} : work'[d] = work[d]
    OBVIOUS
  <1>6. /\ pc' = [d \in Commands |-> pc'[d]] /\ pc'[c] = to
        /\ \A d \in Commands \ {c} : pc'[d] = pc[d]
    BY <1>1 DEF LibShape
  <1>7. LibShape'
    BY <1>1, <1>2, <1>3, <1>4, <1>6 DEF LibShape
  <1> QED
    BY <1>1, <1>3, <1>4, <1>5, <1>6, <1>7 DEF Apart

(* A command that gives up, or is over: the library lock goes, or is kept. *)
LEMMA EndingApart ==
    ASSUME LibShape, work = [d \in Commands |-> work[d]], NEW c \in Commands,
           lock = c, LetGo(c), UNCHANGED <<work, troubles>>
    PROVE  Apart(c) /\ ~Busy(c)'
  BY Shapes DEF LibShape, LetGo, Exit, Goto, Apart, Grown, Busy, Fetches, Writing,
     Fetching, Locked

(* What is apart leaves the others what they need.                         *)
LEMMA ApartLeaves ==
    ASSUME NEW c \in Commands, Apart(c)
    PROVE  Leaves(c)
  BY DEF Apart, Leaves

LEMMA WorkingSound ==
    ASSUME LibShape, NEW c \in Commands, Sound(c), NEW from, NEW to,
           Working(c, from, to), pc[c] # "idle",
           to \in {"put", "done"} \cup Writing, Doing(c, ImportOps), Apart(c),
           UNCHANGED <<catalog, snap>>
              \/ \E held \in SUBSET Content : Record(c, {}, {}, held)
    PROVE  Sound(c)'
  <1>1. /\ pc' = [pc EXCEPT ![c] = to] /\ UNCHANGED <<op, alone>>
        /\ pc'[c] = to
    BY DEF Working, Step, Goto, LibShape
  <1>2. Knows(c)'
    <2>1. CASE UNCHANGED <<catalog, snap>>
      BY <2>1 DEF Sound, Knows
    <2>2. CASE \E held \in SUBSET Content : Record(c, {}, {}, held)
      BY <2>2, ImportRecords DEF Sound, Knows
    <2> QED
      BY <2>1, <2>2
  <1>3. Tasked(c)' /\ Puts(c)' /\ Unlinks(c)'
    BY <1>1 DEF Tasked, Puts, Unlinks, Doing, ImportOps, Is, Writing
  <1>4. Alone(c)'
    BY <1>1 DEF Sound, Alone, Apart, Writing
  <1> QED
    BY <1>2, <1>3, <1>4 DEF Sound

LEMMA EndingSound ==
    ASSUME LibShape, NEW c \in Commands, LetGo(c)
    PROVE  Sound(c)'
  BY DEF LibShape, LetGo, Exit, Goto, Sound, Knows, Tasked, Puts, Unlinks, Alone

LEMMA ApartBacked ==
    ASSUME LibShape, Backed, NEW c \in Commands, Apart(c)
    PROVE  Backed'
  <1>1. Redacted(catalog) \subseteq Redacted(catalog)'
    BY RedactedGrows DEF Apart, Grown, Redacted
  <1> QED
    BY <1>1 DEF Backed, Apart

LEMMA KeptStays ==
    ASSUME LibShape, NEW c \in Commands, Leaves(c), NEW n, Kept(n),
           \A r \in staged[n] \cup waiting[n] \cup quarantine[n] :
              Landed(r, n)' \/ r \in (staged[n] \cup waiting[n] \cup quarantine[n])'
    PROVE  Kept(n)'
  <1> SUFFICES ASSUME NEW r \in File[n] PROVE Somewhere(r, n)'
    BY DEF Kept
  <1>1. Landed(r, n) \/ r \in staged[n] \cup waiting[n] \cup quarantine[n]
    BY DEF Kept, Somewhere, Landed
  <1>2. Landed(r, n)' \/ r \in (staged[n] \cup waiting[n] \cup quarantine[n])'
    BY <1>1, LandedStays
  <1> QED
    BY <1>2 DEF Somewhere, Landed

(* Of an import of which nothing is changed. *)
LEMMA StillKept ==
    ASSUME LibShape, NEW c \in Commands, Leaves(c), NEW n, Kept(n),
           UNCHANGED <<staged[n], waiting[n], quarantine[n]>>
    PROVE  Kept(n)'
  BY KeptStays

LEMMA StillRetained ==
    ASSUME LibShape, NEW c \in Commands, Leaves(c), Retained,
           UNCHANGED <<staged, waiting, quarantine, batches>>, gaveUp \subseteq gaveUp'
    PROVE  Retained'
  <1>1. ASSUME NEW n \in Imports \ gaveUp', batches'[n] # None
        PROVE  Kept(n)'
    <2>1. Kept(n)
      BY <1>1 DEF Retained, Kept
    <2> QED
      BY <2>1, StillKept
  <1> QED
    BY <1>1 DEF Retained, Kept

(* What there is to show of a step of the command that holds the lock.     *)
Keeps(c) == /\ Apart(c) /\ Sound(c)' /\ Placed(c)' /\ Sorts(c)' /\ Retained'
            /\ Files(staged)' /\ Files(waiting)' /\ Files(quarantine)'
            /\ (batches \in [Imports -> States])'
            /\ (rows \in [Content -> Imports \cup {None}])'
            /\ (gaveUp \subseteq Imports)'

LEMMA OthersIdle ==
    ASSUME ImportShape, NEW c \in Commands, lock = c, NEW d \in Commands \ {c}
    PROVE  pc[d] \in {"idle", "enforce", "opened"}
  BY DEF ImportShape, LibShape, Placed

LEMMA KeepsInv ==
    ASSUME ImportInv, NEW c \in Commands, lock = c, pc[c] # "idle", Keeps(c)
    PROVE  ImportInv'
  <1>1. Leaves(c) /\ LibShape
    BY ApartLeaves DEF Keeps, ImportInv, ImportShape
  <1>2. ASSUME NEW d \in Commands \ {c} PROVE Sound(d)' /\ Sorts(d)' /\ Placed(d)'
    <2>1. Sound(d)'
      BY <1>1, LeftSound DEF ImportInv
    <2>2. pc[d] \in {"idle", "enforce", "opened"} /\ pc'[d] = pc[d] /\ op'[d] = op[d]
      BY OthersIdle DEF ImportInv, Keeps, Apart
    <2>3. ~Busy(d)'
      BY <2>2 DEF Busy, Fetches, Fetching, Writing
    <2>4. Placed(d)'
      BY <2>2 DEF ImportInv, ImportShape, Placed, Locked, Writing, Promoting
    <2> QED
      BY <2>1, <2>3, <2>4, IdleSorts
  <1>3. Backed'
    BY <1>1, ApartBacked DEF Keeps, ImportInv
  <1>4. ImportShape'
    <2>1. LibShape' /\ work' = [d \in Commands |-> work'[d]] /\ UNCHANGED troubles
      BY DEF Keeps, Apart
    <2>2. \A d \in Commands : Placed(d)'
      BY <1>2 DEF Keeps
    <2> QED
      BY <2>1, <2>2 DEF Keeps, ImportInv, ImportShape
  <1> QED
    BY <1>2, <1>3, <1>4 DEF Keeps, ImportInv

(* Whoever is past `acquire_all` holds the lock.                           *)
LEMMA Holds ==
    ASSUME ImportShape, NEW c \in Commands, pc[c] \in Locked \cup Writing
    PROVE  lock = c
  BY DEF ImportShape, LibShape, Placed

LEMMA OnImport ==
    ASSUME ImportShape, NEW c \in Commands, Doing(c, ImportOps)
    PROVE  On(c) \in Imports /\ op[c] \in ImportTasks
  BY DEF ImportShape, Placed, Doing, On, ImportOps, ImportTasks, TextTasks

-----------------------------------------------------------------------------
(* Nothing to import, or not a staged import. *)
LEMMA RefusedKeeps ==
    ASSUME ImportInv, NEW c \in Commands, ImportRefused(c) \/ NotStaged(c),
           UNCHANGED troubles
    PROVE  Keeps(c)
  <1> USE DEF ImportInv, ImportShape
  <1>1. pc[c] = "locked" /\ LetGo(c) /\ UNCHANGED impvars
    BY DEF ImportRefused, NotStaged
  <1>2. lock = c
    BY <1>1, Holds DEF Locked
  <1>3. Apart(c) /\ ~Busy(c)'
    BY <1>1, <1>2, EndingApart DEF impvars
  <1>4. Sound(c)' /\ Sorts(c)'
    BY <1>1, <1>3, EndingSound, IdleSorts
  <1>5. Placed(c)'
    BY <1>1 DEF LetGo, Exit, Goto, Placed, LibShape, Locked, Writing, Promoting
  <1>6. Retained'
    BY <1>1, <1>3, ApartLeaves, StillRetained DEF impvars
  <1> QED
    BY <1>1, <1>3, <1>4, <1>5, <1>6 DEF Keeps, impvars, Files

(* The classes of what is in the file and not in the library.              *)
LEMMA IncomingClasses ==
    ASSUME ImportInv, NEW c \in Commands, pc[c] = "locked", Takes(c)
    PROVE  LET in  == Incoming(c, On(c))
               cls == WithText(Classes(snap[c], {}, Logged(in)), Texts(in))
           IN  /\ cls \in Sorted
               /\ cls.accepted \subseteq File[On(c)]
               /\ cls.waiting \subseteq File[On(c)]
               /\ cls.quarantined \subseteq File[On(c)]
               /\ \A r \in File[On(c)] :
                     \/ Landed(r, On(c))
                     \/ r \in cls.accepted \cup cls.waiting \cup cls.quarantined
  <1> DEFINE n   == On(c)
             in  == Incoming(c, n)
             C   == Classes(snap[c], {}, Logged(in))
             bad == {x \in Texts(in) : <<x, x>> \in Findings}
             cls == WithText(C, Texts(in))
  <1>1. n \in Imports /\ LibShape
    BY OnImport DEF ImportInv, ImportShape, Takes, Doing, ImportOps
  <1>2. File[n] \subseteq Content \cup Objects /\ IsFiniteSet(File[n])
    BY <1>1, ImportShapes
  <1>3. in \subseteq File[n] /\ in = Logged(in) \cup Texts(in)
    BY DEF Incoming, TakenIn, Logged, Texts
  <1>4. /\ C = [accepted |-> C.accepted, waiting |-> C.waiting,
                quarantined |-> C.quarantined]
        /\ Logged(in) = C.accepted \cup C.waiting \cup C.quarantined
    <2>1. IsFiniteSet(Logged(in))
      BY <1>2, <1>3, FS_Subset DEF Logged
    <2> DEFINE extra == PartsOf(snap[c]) \cup {}
               incoming == Logged(in)
    <2> HIDE DEF incoming, extra
    <2>2. LET k == ClassifyAll(snap[c].held, extra, incoming)
          IN  /\ k = [accepted |-> k.accepted, waiting |-> k.waiting,
                      quarantined |-> k.quarantined]
              /\ incoming = k.accepted \cup k.waiting \cup k.quarantined
      BY <2>1, ClassesShare DEF incoming
    <2> QED
      BY <2>2 DEF Classes, incoming, extra
  <1>5. /\ cls.accepted = C.accepted \cup (Texts(in) \ bad)
        /\ cls.waiting = C.waiting /\ cls.quarantined = C.quarantined \cup bad
    <2>1. ASSUME NEW a, NEW w, NEW q, NEW k, NEW x, NEW y,
                 k = [accepted |-> a, waiting |-> w, quarantined |-> q]
          PROVE  LET s == [k EXCEPT !.accepted = @ \cup x, !.quarantined = @ \cup y]
                 IN  s.accepted = a \cup x /\ s.waiting = w /\ s.quarantined = q \cup y
      BY <2>1
    <2>2. cls = [C EXCEPT !.accepted = @ \cup (Texts(in) \ bad),
                          !.quarantined = @ \cup bad]
      <3> HIDE DEF C, in
      <3> QED
        BY DEF WithText
    <2> HIDE DEF C, in, cls, bad
    <2> QED
      BY <1>4, <2>1, <2>2
  <1>6. cls.accepted \cup cls.waiting \cup cls.quarantined = in
    <2> HIDE DEF C, in, cls
    <2> QED
      BY <1>3, <1>4, <1>5
  <1>7. ASSUME NEW r \in File[n], r \notin in PROVE Landed(r, n)
    <2>1. /\ snap[c].held \subseteq catalog.held
          /\ Redacted(snap[c]) \subseteq Redacted(catalog)
      BY RedactedGrows DEF ImportInv, Sound, Knows
    <2> QED
      BY <1>7, <2>1 DEF Incoming, TakenIn, Landed, DoorRedacted
  <1>8. cls \in Sorted
    <2>1. C \in Sorted
      <3> HIDE DEF C, in
      <3>1. C.accepted \cup C.waiting \cup C.quarantined \subseteq Content \cup Objects
        BY <1>2, <1>3, <1>4
      <3> QED
        BY <1>4, <3>1 DEF Sorted
    <2>2. Texts(in) \ bad \in SUBSET (Content \cup Objects)
          /\ bad \in SUBSET (Content \cup Objects)
      BY DEF Texts
    <2> HIDE DEF C, in, bad
    <2>3. cls = [C EXCEPT !.accepted = @ \cup (Texts(in) \ bad),
                          !.quarantined = @ \cup bad]
      BY DEF WithText, bad
    <2> QED
      BY <2>1, <2>2, <2>3 DEF Sorted
  <1> HIDE DEF in, cls
  <1> QED
    BY <1>3, <1>6, <1>7, <1>8 DEF in, cls

LEMMA BeginImportKeeps ==
    ASSUME ImportInv, NEW c \in Commands, BeginImport(c), UNCHANGED troubles
    PROVE  Keeps(c)
  <1> DEFINE n   == On(c)
             in  == Incoming(c, n)
             cls == WithText(Classes(snap[c], {}, Logged(in)), Texts(in))
             now == op[c].do = "import"
             tables == [batches |-> [batches EXCEPT ![n] = IF now THEN "accepted"
                                                          ELSE "staged"],
                        rows |-> [r \in Content |-> IF r \in cls.waiting THEN n
                                                    ELSE rows[r]]]
             w   == [cls |-> cls, move |-> None, tables |-> tables]
             S   == IF now THEN Texts(cls.accepted) ELSE {}
  <1>1. /\ pc[c] = "locked" /\ Takes(c) /\ batches[n] = None
        /\ Working(c, "locked", "put")
        /\ todo' = [todo EXCEPT ![c] = S]
        /\ work' = [work EXCEPT ![c] = w]
        /\ UNCHANGED <<catalog, objects, snap, staged, waiting, quarantine,
                       batches, rows, gaveUp>>
    BY DEF BeginImport, Takes, MayImport, Working, Step
  <1> USE DEF ImportInv, ImportShape
  <1>2. lock = c /\ n \in Imports
    BY <1>1, Holds, OnImport DEF Locked, Takes, Doing, ImportOps
  <1>3. /\ cls \in Sorted
        /\ cls.accepted \subseteq File[n]
        /\ cls.waiting \subseteq File[n]
        /\ cls.quarantined \subseteq File[n]
        /\ \A r \in File[n] :
              Landed(r, n) \/ r \in cls.accepted \cup cls.waiting \cup cls.quarantined
    BY <1>1, IncomingClasses
  <1> HIDE DEF in, cls
  <1>4. S \in SUBSET Objects
    BY DEF Texts
  <1>5. tables \in Tables
    BY <1>2 DEF Tables, States
  <1>6. w \in Works
    BY <1>3, <1>5 DEF Works
  <1> HIDE DEF S, tables
  <1>7. Apart(c)
    <2> HIDE DEF w
    <2> QED
      BY <1>1, <1>2, <1>4, WorkingApart DEF Locked
  <1>8. Sound(c)'
    BY <1>1, <1>7, WorkingSound DEF Takes, Doing, ImportOps, Writing, Locked
  <1>9. /\ pc'[c] = "put" /\ op' = op /\ work'[c] = w /\ todo'[c] = S
    BY <1>1 DEF Working, Step, Goto, LibShape
  <1>10. Placed(c)'
    BY <1>9 DEF Placed, Locked, Writing, Promoting
  <1>11. Leaves(c) /\ Retained'
    BY <1>1, <1>7, ApartLeaves, StillRetained
  <1>12. Takes(c)' /\ On(c)' = n
    BY <1>1, <1>9 DEF Takes, Doing, On
  <1>13. Worked(c)'
    BY <1>3, <1>6, <1>9, <1>12 DEF Worked
  <1>14. Imported(c)'
    <2>1. \A k, r : Landed(r, k) => Landed(r, k)'
      BY <1>11, AllLanded
    <2>2. \A r \in File[n] :
              Landed(r, n)' \/ r \in cls.accepted \cup cls.waiting \cup cls.quarantined
      BY <1>3, <1>12, <2>1 DEF Landed
    <2> QED
      BY <1>1, <1>9, <1>12, <2>2 DEF Imported, Filing, Promoting, Landed
  <1>15. TextsPut(c)'
    BY <1>9, <1>12 DEF TextsPut, Takes, Doing, On, S, Texts
  <1>16. Unstaged(c)' /\ Moved(c)'
    BY <1>9, <1>12 DEF Unstaged, Moved, Takes, Doing
  <1>17. Tabled(c)'
    BY <1>1, <1>2, <1>9, <1>12 DEF Tabled, tables
  <1> QED
    BY <1>1, <1>7, <1>8, <1>10, <1>11, <1>13, <1>14, <1>15, <1>16, <1>17
       DEF Keeps, Sorts, Files

LEMMA ImportLogKeeps ==
    ASSUME ImportInv, NEW c \in Commands, ImportLog(c), UNCHANGED troubles
    PROVE  Keeps(c)
  <1> DEFINE cls == work[c].cls
             now == op[c].do = "import"
             to  == IF now THEN "waiting" ELSE "staging"
             H   == {On(c)} \cup IF now THEN Logged(cls.accepted) ELSE {}
  <1>1. /\ pc[c] = "put" /\ Takes(c) /\ todo[c] = {}
        /\ Working(c, "put", to) /\ Record(c, {}, {}, H)
        /\ UNCHANGED <<objects, todo, staged, waiting, quarantine, batches, rows,
                       work, gaveUp>>
    BY DEF ImportLog, Takes, Working, Step, impvars
  <1> USE DEF ImportInv, ImportShape
  <1>2. lock = c /\ On(c) \in Imports
    BY <1>1, Holds, OnImport DEF Locked, Takes, Doing, ImportOps
  <1>3. Fetches(c) /\ Classing(c) /\ Busy(c)
    BY <1>1 DEF Fetches, Classing, Busy, Takes, Doing, Fetching
  <1>4. work[c] \in Works /\ cls \in Sorted
    BY <1>3 DEF Sorts, Worked
  <1>5. H \in SUBSET Content
    BY <1>2, <1>4, ImportShapes DEF Sorted, Logged
  <1> HIDE DEF H
  <1>6. Apart(c)
    BY <1>1, <1>2, <1>5, WorkingApart DEF Locked, Writing
  <1>7. Sound(c)'
    BY <1>1, <1>5, <1>6, WorkingSound DEF Takes, Doing, ImportOps, Writing
  <1>8. pc'[c] = to /\ op' = op
    BY <1>1 DEF Working, Step, Goto, LibShape
  <1>9. Leaves(c) /\ Retained'
    BY <1>1, <1>6, ApartLeaves, StillRetained
  <1>10. Takes(c)' /\ (On(c) \in Imports)'
    BY <1>1, <1>2, <1>8 DEF Takes, Doing, On
  <1>11. Placed(c)'
    BY <1>1, <1>2, <1>6, <1>8, <1>10 DEF Placed, Locked, Writing, Promoting, Takes, Doing,
       Apart, Working
  <1>12. Worked(c)'
    BY <1>1, <1>3, <1>8 DEF Sorts, Worked, On
  <1>13. \A k, r : Landed(r, k) => Landed(r, k)'
    BY <1>9, AllLanded
  <1>14. now => \A r \in cls.accepted : Landed(r, On(c))'
    <2> SUFFICES ASSUME now, NEW r \in cls.accepted PROVE Landed(r, On(c))'
      OBVIOUS
    <2>1. CASE r \in Objects
      <3>1. Landed(r, On(c)) \/ r \in todo[c]
        BY <1>1, <2>1 DEF Sorts, TextsPut, Fetching, Doing, Texts, Takes
      <3> QED
        BY <1>1, <1>8, <1>13, <3>1 DEF Landed, On
    <2>2. CASE r \notin Objects
      <3>1. r \in H
        BY <2>2 DEF H, Logged
      <3>2. H \subseteq catalog'.held
        BY <1>1, <1>5, ImportRecords DEF Fetching
      <3> QED
        BY <3>1, <3>2 DEF Landed
    <2> QED
      BY <2>1, <2>2
  <1>15. Imported(c)'
    <2>1. batches[On(c)] = None /\ \A r \in File[On(c)] :
             Landed(r, On(c)) \/ r \in cls.accepted \cup cls.waiting \cup cls.quarantined
      BY <1>1 DEF Sorts, Imported, Fetching
    <2>2. \A r \in File[On(c)] :
             Landed(r, On(c))' \/ r \in cls.accepted \cup cls.waiting \cup cls.quarantined
      BY <1>8, <1>13, <2>1 DEF Landed, On
    <2> QED
      BY <1>1, <1>8, <1>14, <2>1, <2>2 DEF Imported, Filing, Promoting, Landed, On, Fetching
  <1>16. TextsPut(c)' /\ Unstaged(c)' /\ Moved(c)'
    BY <1>1, <1>8 DEF TextsPut, Unstaged, Moved, Takes, Doing, Fetching
  <1>17. Tabled(c)'
    BY <1>1, <1>3, <1>8, <1>10 DEF Sorts, Tabled, On, Takes, Doing
  <1> QED
    BY <1>1, <1>6, <1>7, <1>9, <1>11, <1>12, <1>15, <1>16, <1>17
       DEF Keeps, Sorts, Files

(* The staged, waiting and quarantined records of an import are written:   *)
(* of one that is not in the table.                                        *)
LEMMA FilingKeeps ==
    ASSUME ImportInv, NEW c \in Commands,
           WriteStaged(c) \/ WriteWaiting(c) \/ WriteQuarantine(c),
           UNCHANGED troubles
    PROVE  Keeps(c)
  <1> DEFINE cls == work[c].cls
             to  == IF pc[c] = "staging" THEN "waiting"
                    ELSE IF pc[c] = "waiting" THEN "apart"
                    ELSE IF op[c].do = "import" THEN "promote" ELSE "save"
  <1> USE DEF ImportInv, ImportShape
  <1>1. /\ pc[c] \in Filing /\ Working(c, pc[c], to)
        /\ UNCHANGED <<catalog, objects, snap, todo, batches, rows, work, gaveUp>>
        /\ pc[c] = "staging" =>
              /\ staged' = [staged EXCEPT ![On(c)] = cls.accepted]
              /\ UNCHANGED <<waiting, quarantine>>
        /\ pc[c] = "waiting" =>
              /\ waiting' = [waiting EXCEPT ![On(c)] = IF cls.waiting = {} THEN @
                                                       ELSE cls.waiting]
              /\ UNCHANGED <<staged, quarantine>>
        /\ pc[c] = "apart" =>
              /\ quarantine' = [quarantine EXCEPT
                                   ![On(c)] = IF cls.quarantined = {} THEN @
                                              ELSE cls.quarantined]
              /\ UNCHANGED <<staged, waiting>>
    BY DEF WriteStaged, WriteWaiting, WriteQuarantine, Working, Step, Filing
  <1>2. Takes(c) /\ (pc[c] = "staging" => op[c].do = "stage")
    BY <1>1 DEF Placed, Filing, Takes, Doing
  <1>3. lock = c /\ On(c) \in Imports
    BY <1>1, <1>2, Holds, OnImport DEF Writing, Filing, Takes, Doing, ImportOps
  <1>4. Classing(c) /\ Busy(c)
    BY <1>1, <1>2 DEF Classing, Busy, Filing, Writing
  <1>5. /\ work[c] \in Works /\ cls \in Sorted
        /\ cls.accepted \subseteq File[On(c)] /\ cls.waiting \subseteq File[On(c)]
        /\ cls.quarantined \subseteq File[On(c)]
    BY <1>4 DEF Sorts, Worked
  <1>6. Apart(c)
    BY <1>1, <1>3, WorkingApart DEF Filing, Writing
  <1>7. Sound(c)'
    BY <1>1, <1>2, <1>6, WorkingSound DEF Takes, Doing, ImportOps, Writing, Filing
  <1>8. pc'[c] = to /\ op' = op
    BY <1>1 DEF Working, Step, Goto, LibShape
  <1>9. Takes(c)' /\ On(c)' = On(c)
    BY <1>2, <1>8 DEF Takes, Doing, On
  <1>10. Placed(c)'
    BY <1>1, <1>2, <1>3, <1>6, <1>8, <1>9 DEF Placed, Locked, Writing, Promoting,
       Takes, Doing, Apart, Working, Filing, ImportOps
  <1>11. Files(staged)' /\ Files(waiting)' /\ Files(quarantine)'
    BY <1>1, <1>3, <1>5 DEF Files, Filing
  <1>12. Leaves(c)
    BY <1>6, ApartLeaves
  <1>13. batches[On(c)] = None /\ \A r \in File[On(c)] :
             Landed(r, On(c)) \/ r \in cls.accepted \cup cls.waiting \cup cls.quarantined
    BY <1>1, <1>2 DEF Sorts, Imported
  <1>14. Retained'
    <2>1. ASSUME NEW n \in Imports \ gaveUp', batches'[n] # None PROVE Kept(n)'
      <3>1. n # On(c) /\ Kept(n)
        BY <1>1, <1>13, <2>1 DEF Retained, Kept
      <3>2. UNCHANGED <<staged[n], waiting[n], quarantine[n]>>
        BY <1>1, <1>3, <3>1 DEF Files, Filing
      <3> QED
        BY <1>12, <3>1, <3>2, StillKept
    <2> QED
      BY <2>1 DEF Retained, Kept
  <1>15. Worked(c)'
    BY <1>1, <1>4, <1>8, <1>9 DEF Sorts, Worked, Filing
  <1>16. Imported(c)'
    <2>1. \A r \in File[On(c)] :
             Landed(r, On(c))' \/ r \in cls.accepted \cup cls.waiting \cup cls.quarantined
      BY <1>1, <1>9, <1>13 DEF Landed
    <2>2. pc[c] = "staging" => cls.accepted \subseteq staged'[On(c)]
      BY <1>1, <1>3 DEF Files
    <2>3. pc[c] \in {"waiting", "apart"} =>
             \A r \in cls.accepted : Landed(r, On(c))' \/ r \in staged'[On(c)]
      BY <1>1, <1>2, <1>9 DEF Sorts, Imported, Landed
    <2>4. pc[c] = "waiting" => cls.waiting \subseteq waiting'[On(c)]
      BY <1>1, <1>3 DEF Files
    <2>5. pc[c] = "apart" =>
             cls.waiting \subseteq waiting'[On(c)] /\ cls.quarantined \subseteq quarantine'[On(c)]
      BY <1>1, <1>2, <1>3 DEF Files, Sorts, Imported
    <2>6. pc[c] = "apart" => Kept(On(c))'
      BY <1>9, <2>1, <2>3, <2>5 DEF Kept, Somewhere, Landed
    <2> QED
      BY <1>1, <1>8, <1>9, <1>13, <2>1, <2>2, <2>3, <2>4, <2>6
         DEF Imported, Filing, Promoting, Fetching, Landed
  <1>17. TextsPut(c)' /\ Unstaged(c)' /\ Moved(c)'
    <2>1. /\ pc'[c] \in {"waiting", "apart", "promote", "save"}
          /\ op'[c] = op[c] /\ op[c].do \in {"import", "stage"}
      BY <1>1, <1>2, <1>8 DEF Takes, Doing, Filing
    <2>2. TextsPut(c)'
      BY <2>1 DEF TextsPut, Fetching
    <2>3. Unstaged(c)'
      BY <2>1 DEF Unstaged, Doing
    <2>4. Moved(c)'
      BY <2>1 DEF Moved
    <2> QED
      BY <2>2, <2>3, <2>4
  <1>18. Tabled(c)'
    BY <1>1, <1>4, <1>8, <1>9 DEF Sorts, Tabled, Filing
  <1> QED
    BY <1>1, <1>6, <1>7, <1>10, <1>11, <1>14, <1>15, <1>16, <1>17, <1>18
       DEF Keeps, Sorts

-----------------------------------------------------------------------------
(* accept and discard.                                                     *)
LEMMA BeginAcceptKeeps ==
    ASSUME ImportInv, NEW c \in Commands, BeginAccept(c), UNCHANGED troubles
    PROVE  Keeps(c)
  <1> DEFINE n      == On(c)
             cls    == [accepted |-> staged[n], waiting |-> {}, quarantined |-> {}]
             tables == [OnDisk EXCEPT !.batches[n] = "accepted"]
             w      == [cls |-> cls, move |-> None, tables |-> tables]
  <1>1. /\ pc[c] = "locked" /\ Doing(c, {"accept"}) /\ batches[n] = "staged"
        /\ Working(c, "locked", "put")
        /\ todo' = [todo EXCEPT ![c] = Texts(staged[n])]
        /\ work' = [work EXCEPT ![c] = w]
        /\ UNCHANGED <<catalog, objects, snap, staged, waiting, quarantine,
                       batches, rows, gaveUp>>
    BY DEF BeginAccept, Working, Step
  <1> USE DEF ImportInv, ImportShape
  <1>2. lock = c /\ n \in Imports
    BY <1>1, Holds, OnImport DEF Locked, Doing, ImportOps
  <1>3. /\ staged[n] \subseteq File[n]
        /\ staged[n] \in SUBSET (Content \cup Objects)
    BY <1>2, ImportShapes DEF Files
  <1>4. cls \in Sorted /\ Texts(staged[n]) \in SUBSET Objects
    BY <1>3 DEF Sorted, Texts
  <1>5. /\ tables \in Tables
        /\ tables.batches = [batches EXCEPT ![n] = "accepted"]
    BY <1>2 DEF Tables, States, OnDisk
  <1>6. w \in Works
    <2> HIDE DEF cls, tables
    <2> QED
      BY <1>4, <1>5 DEF Works
  <1> HIDE DEF tables
  <1>7. Apart(c)
    <2> HIDE DEF w
    <2> QED
      BY <1>1, <1>2, <1>4, WorkingApart DEF Locked
  <1>8. Sound(c)'
    BY <1>1, <1>7, WorkingSound DEF Doing, ImportOps, Writing, Locked
  <1>9. /\ pc'[c] = "put" /\ op' = op /\ work'[c] = w /\ todo'[c] = Texts(staged[n])
    BY <1>1 DEF Working, Step, Goto, LibShape
  <1>10. Placed(c)'
    BY <1>9 DEF Placed, Locked, Writing, Promoting
  <1>11. Retained'
    BY <1>1, <1>7, ApartLeaves, StillRetained
  <1>12. On(c)' = n /\ op'[c].do = "accept" /\ op'[c] # None
    BY <1>1, <1>9 DEF Doing, On
  <1>13. Worked(c)'
    BY <1>3, <1>4, <1>6, <1>9, <1>12 DEF Worked
  <1>14. Imported(c)' /\ Moved(c)'
    BY <1>9, <1>12 DEF Imported, Moved, Takes, Doing
  <1>15. TextsPut(c)' /\ Unstaged(c)'
    BY <1>1, <1>9, <1>12 DEF TextsPut, Unstaged, Doing, Fetching
  <1>16. Tabled(c)'
    BY <1>1, <1>2, <1>5, <1>9, NothingBegun DEF Tabled
  <1> QED
    BY <1>1, <1>7, <1>8, <1>10, <1>11, <1>13, <1>14, <1>15, <1>16
       DEF Keeps, Sorts, Files

LEMMA AcceptLogKeeps ==
    ASSUME ImportInv, NEW c \in Commands, AcceptLog(c), UNCHANGED troubles
    PROVE  Keeps(c)
  <1> DEFINE cls == work[c].cls
             H   == Logged(cls.accepted)
  <1>1. /\ pc[c] = "put" /\ Doing(c, {"accept"}) /\ todo[c] = {}
        /\ Working(c, "put", "unstage") /\ Record(c, {}, {}, H)
        /\ UNCHANGED <<objects, todo, staged, waiting, quarantine, batches, rows,
                       work, gaveUp>>
    BY DEF AcceptLog, Working, Step, impvars
  <1> USE DEF ImportInv, ImportShape
  <1>2. lock = c /\ On(c) \in Imports
    BY <1>1, Holds, OnImport DEF Locked, Doing, ImportOps
  <1>3. Fetches(c) /\ Classing(c) /\ Busy(c)
    BY <1>1 DEF Fetches, Classing, Busy, Doing, Fetching
  <1>4. work[c] \in Works /\ cls \in Sorted /\ cls.accepted = staged[On(c)]
    BY <1>1, <1>3 DEF Sorts, Worked, Unstaged, Fetching
  <1>5. H \in SUBSET Content
    BY <1>4 DEF Sorted, Logged
  <1>6. Apart(c)
    <2> HIDE DEF H
    <2> QED
      BY <1>1, <1>2, <1>5, WorkingApart DEF Locked, Writing
  <1>7. Sound(c)'
    <2> HIDE DEF H
    <2> QED
      BY <1>1, <1>5, <1>6, WorkingSound DEF Doing, ImportOps, Writing
  <1>8. /\ pc'[c] = "unstage" /\ op' = op /\ On(c)' = On(c)
        /\ op'[c].do = "accept" /\ op'[c] # None
    BY <1>1 DEF Working, Step, Goto, LibShape, Doing, On
  <1>9. Leaves(c) /\ Retained'
    BY <1>1, <1>6, ApartLeaves, StillRetained
  <1>10. Placed(c)'
    BY <1>1, <1>2, <1>8 DEF Placed, Locked, Writing, Promoting, Doing, ImportOps, Working
  <1>11. Worked(c)'
    BY <1>1, <1>3, <1>8 DEF Sorts, Worked, Classing, Fetches, Fetching, Filing
  <1>12. Imported(c)' /\ TextsPut(c)' /\ Moved(c)'
    BY <1>8 DEF Imported, TextsPut, Moved, Takes, Doing, Fetching
  <1>13. ASSUME NEW r \in staged[On(c)] PROVE Landed(r, On(c))'
    <2>1. CASE r \in Objects
      <3>1. Landed(r, On(c))
        BY <1>1, <1>4, <1>13, <2>1 DEF Sorts, TextsPut, Fetching, Doing, Texts
      <3>2. \A k, x : Landed(x, k) => Landed(x, k)'
        BY <1>9, AllLanded
      <3> QED
        BY <1>8, <3>1, <3>2 DEF Landed
    <2>2. CASE r \notin Objects
      <3>1. r \in H
        BY <1>4, <1>13, <2>2 DEF Logged
      <3>2. H \subseteq catalog'.held
        <4> HIDE DEF H
        <4> QED
          BY <1>1, <1>5, ImportRecords DEF Fetching
      <3> QED
        BY <3>1, <3>2 DEF Landed
    <2> QED
      BY <2>1, <2>2
  <1>14. Unstaged(c)'
    BY <1>1, <1>8, <1>13 DEF Unstaged, Doing, Fetching, Landed
  <1>15. Tabled(c)'
    BY <1>1, <1>3, <1>8 DEF Sorts, Tabled, Takes, Doing
  <1> QED
    BY <1>1, <1>6, <1>7, <1>9, <1>10, <1>11, <1>12, <1>14, <1>15
       DEF Keeps, Sorts, Files

LEMMA UnstageKeeps ==
    ASSUME ImportInv, NEW c \in Commands, Unstage(c), UNCHANGED troubles
    PROVE  Keeps(c)
  <1> DEFINE to == IF op[c].do = "accept" THEN "promote" ELSE "unwait"
  <1>1. /\ pc[c] = "unstage" /\ Working(c, "unstage", to)
        /\ staged' = [staged EXCEPT ![On(c)] = {}]
        /\ UNCHANGED <<catalog, objects, snap, todo, waiting, quarantine, batches,
                       rows, work, gaveUp>>
    BY DEF Unstage, Working, Step
  <1> USE DEF ImportInv, ImportShape
  <1>2. Doing(c, {"accept", "discard"})
    BY <1>1 DEF Placed
  <1>3. lock = c /\ On(c) \in Imports
    BY <1>1, <1>2, Holds, OnImport DEF Writing, Doing, ImportOps
  <1>4. Busy(c)
    BY <1>1 DEF Busy, Writing
  <1>5. Apart(c)
    BY <1>1, <1>3, WorkingApart DEF Writing
  <1>6. Sound(c)'
    BY <1>1, <1>2, <1>5, WorkingSound DEF Doing, ImportOps, Writing
  <1>7. pc'[c] = to /\ op' = op /\ On(c)' = On(c)
    BY <1>1 DEF Working, Step, Goto, LibShape, On
  <1>8. op'[c] = op[c] /\ op[c] # None /\ op[c].do \in {"accept", "discard"}
    BY <1>2, <1>7 DEF Doing
  <1>9. Placed(c)'
    BY <1>1, <1>2, <1>3, <1>7, <1>8 DEF Placed, Locked, Writing, Promoting, Doing,
       ImportOps, Working
  <1>10. Files(staged)' /\ Files(waiting)' /\ Files(quarantine)'
    BY <1>1, <1>3 DEF Files
  <1>11. Leaves(c)
    BY <1>5, ApartLeaves
  <1>12. Retained'
    <2>1. ASSUME NEW n \in Imports \ gaveUp', batches'[n] # None PROVE Kept(n)'
      <3>1. n \notin gaveUp /\ Kept(n)
        BY <1>1, <2>1 DEF Retained, Kept
      <3>2. CASE n # On(c)
        <4>1. UNCHANGED <<staged[n], waiting[n], quarantine[n]>>
          BY <1>1, <1>3, <3>2, <2>1 DEF Files
        <4> QED
          BY <1>11, <3>1, <4>1, StillKept
      <3>3. CASE n = On(c)
        <4>1. op[c].do = "accept"
          BY <1>1, <1>8, <3>1, <3>3 DEF Sorts, Unstaged, Doing
        <4>2. \A x \in staged[n] : Landed(x, n)
          BY <1>1, <1>8, <3>3, <4>1 DEF Sorts, Unstaged, Doing
        <4>3. \A k, x : Landed(x, k) => Landed(x, k)'
          BY <1>11, AllLanded
        <4>4. \A r \in staged[n] \cup waiting[n] \cup quarantine[n] :
                 Landed(r, n)' \/ r \in (staged[n] \cup waiting[n] \cup quarantine[n])'
          BY <1>1, <4>2, <4>3
        <4> QED
          BY <1>11, <3>1, <4>4, KeptStays
      <3> QED
        BY <3>2, <3>3
    <2> QED
      BY <2>1 DEF Retained, Kept
  <1>13. Worked(c)'
    BY <1>1, <1>4, <1>7 DEF Sorts, Worked, Classing, Fetches, Fetching, Filing
  <1>14. Imported(c)' /\ TextsPut(c)' /\ Moved(c)'
    <2>1. pc'[c] \in {"promote", "unwait"}
      BY <1>7
    <2> QED
      BY <1>8, <2>1 DEF Imported, TextsPut, Moved, Takes, Doing, Fetching
  <1>15. Unstaged(c)'
    <2>1. pc'[c] \in {"promote", "unwait"}
      BY <1>7
    <2>2. op[c].do = "discard" => On(c) \in gaveUp
      BY <1>1, <1>8 DEF Sorts, Unstaged, Doing
    <2> QED
      BY <1>1, <1>7, <1>8, <2>1, <2>2 DEF Unstaged, Doing, Fetching
  <1>16. Tabled(c)'
    BY <1>1, <1>4, <1>7, <1>8 DEF Sorts, Tabled, Takes, Doing
  <1> QED
    BY <1>1, <1>5, <1>6, <1>9, <1>10, <1>12, <1>13, <1>14, <1>15, <1>16
       DEF Keeps, Sorts

LEMMA BeginDiscardKeeps ==
    ASSUME ImportInv, NEW c \in Commands, BeginDiscard(c), UNCHANGED troubles
    PROVE  Keeps(c)
  <1> DEFINE n      == On(c)
             tables == [batches |-> [batches EXCEPT ![n] = "discarded"],
                        rows |-> [r \in Content |-> IF rows[r] = n THEN None
                                                    ELSE rows[r]]]
             w      == [cls |-> None, move |-> None, tables |-> tables]
  <1>1. /\ pc[c] = "locked" /\ Doing(c, {"discard"}) /\ batches[n] = "staged"
        /\ Working(c, "locked", "unstage")
        /\ gaveUp' = gaveUp \cup {n}
        /\ work' = [work EXCEPT ![c] = w]
        /\ UNCHANGED <<catalog, objects, snap, todo, staged, waiting, quarantine,
                       batches, rows>>
    BY DEF BeginDiscard, Working, Step
  <1> USE DEF ImportInv, ImportShape
  <1>2. lock = c /\ n \in Imports
    BY <1>1, Holds, OnImport DEF Locked, Doing, ImportOps
  <1>3. tables \in Tables
    BY <1>2 DEF Tables, States
  <1>4. w \in Works
    <2> HIDE DEF tables
    <2> QED
      BY <1>3 DEF Works
  <1> HIDE DEF tables
  <1>5. Apart(c)
    <2> HIDE DEF w
    <2> QED
      BY <1>1, <1>2, WorkingApart DEF Locked, Writing
  <1>6. Sound(c)'
    BY <1>1, <1>5, WorkingSound DEF Doing, ImportOps, Writing, Locked
  <1>7. /\ pc'[c] = "unstage" /\ op' = op /\ work'[c] = w /\ On(c)' = n
        /\ op'[c].do = "discard" /\ op'[c] # None
    BY <1>1 DEF Working, Step, Goto, LibShape, Doing, On
  <1>8. Placed(c)'
    BY <1>1, <1>2, <1>7 DEF Placed, Locked, Writing, Promoting, Doing, ImportOps, Working
  <1>9. Retained'
    BY <1>1, <1>5, ApartLeaves, StillRetained
  <1>10. Worked(c)'
    BY <1>4, <1>7 DEF Worked, Classing, Fetches, Fetching, Filing
  <1>11. Imported(c)' /\ TextsPut(c)' /\ Moved(c)' /\ Unstaged(c)'
    BY <1>1, <1>7 DEF Imported, TextsPut, Moved, Unstaged, Takes, Doing, Fetching
  <1>12. Tabled(c)'
    BY <1>1, <1>2, <1>7, NothingBegun DEF Tabled, tables
  <1> QED
    BY <1>1, <1>2, <1>5, <1>6, <1>8, <1>9, <1>10, <1>11, <1>12 DEF Keeps, Sorts, Files

LEMMA UnwaitKeeps ==
    ASSUME ImportInv, NEW c \in Commands, Unwait(c), UNCHANGED troubles
    PROVE  Keeps(c)
  <1>1. /\ pc[c] = "unwait" /\ Working(c, "unwait", "save")
        /\ waiting' = [waiting EXCEPT ![On(c)] = {}]
        /\ UNCHANGED <<catalog, objects, snap, todo, staged, quarantine, batches,
                       rows, work, gaveUp>>
    BY DEF Unwait, Working, Step
  <1> USE DEF ImportInv, ImportShape
  <1>2. Doing(c, {"discard"}) /\ On(c) \in gaveUp
    BY <1>1 DEF Placed, Sorts, Unstaged
  <1>3. lock = c /\ On(c) \in Imports /\ Busy(c)
    BY <1>1, <1>2, Holds, OnImport DEF Writing, Doing, ImportOps, Busy
  <1>4. Apart(c)
    BY <1>1, <1>3, WorkingApart DEF Writing
  <1>5. Sound(c)'
    BY <1>1, <1>2, <1>4, WorkingSound DEF Doing, ImportOps, Writing
  <1>6. /\ pc'[c] = "save" /\ op' = op /\ On(c)' = On(c)
        /\ op'[c].do = "discard" /\ op'[c] # None
    BY <1>1, <1>2 DEF Working, Step, Goto, LibShape, Doing, On
  <1>7. Placed(c)'
    BY <1>1, <1>2, <1>3, <1>6 DEF Placed, Locked, Writing, Promoting, Doing,
       ImportOps, Working
  <1>8. Files(staged)' /\ Files(waiting)' /\ Files(quarantine)'
    BY <1>1, <1>3 DEF Files
  <1>9. Retained'
    <2>1. ASSUME NEW n \in Imports \ gaveUp', batches'[n] # None PROVE Kept(n)'
      <3>1. n # On(c) /\ Kept(n)
        BY <1>1, <1>2, <2>1 DEF Retained, Kept
      <3>2. UNCHANGED <<staged[n], waiting[n], quarantine[n]>>
        BY <1>1, <1>3, <3>1, <2>1 DEF Files
      <3>3. Leaves(c)
        BY <1>4, ApartLeaves
      <3> QED
        BY <3>1, <3>2, <3>3, StillKept
    <2> QED
      BY <2>1 DEF Retained, Kept
  <1>10. Worked(c)'
    BY <1>1, <1>3, <1>6 DEF Sorts, Worked, Classing, Fetches, Fetching, Filing
  <1>11. Imported(c)' /\ TextsPut(c)' /\ Moved(c)' /\ Unstaged(c)'
    BY <1>6 DEF Imported, TextsPut, Moved, Unstaged, Takes, Doing, Fetching
  <1>12. Tabled(c)'
    BY <1>1, <1>3, <1>6 DEF Sorts, Tabled, Takes, Doing
  <1> QED
    BY <1>1, <1>4, <1>5, <1>7, <1>8, <1>9, <1>10, <1>11, <1>12 DEF Keeps, Sorts

-----------------------------------------------------------------------------
(* promote.                                                                *)
LEMMA MoveMoves ==
    ASSUME ImportInv, NEW c \in Commands, pc[c] = "promote", NEW n \in Imports
    PROVE  LET m == Move(c, n)
           IN  /\ m \in Moves /\ m.of = n
               /\ m.accepted \subseteq m.gone /\ m.bad \subseteq m.gone
               /\ m.gone \subseteq waiting[n]
               /\ m.gone \subseteq m.accepted \cup m.bad \cup catalog.held
               /\ \A r \in m.gone : work[c].tables.rows[r] = n
  <1> DEFINE t     == work[c].tables
             mine  == {r \in Logged(waiting[n]) : t.rows[r] = n}
             held  == mine \cap snap[c].held
             in    == mine \ held
             extra == IF t.batches[n] = "staged"
                      THEN Provided(Logged(staged[n])) ELSE {}
             cls   == Classes(snap[c], extra, in)
  <1>1. mine \subseteq waiting[n] /\ mine \subseteq Content
    <2>1. waiting[n] \subseteq Content \cup Objects
      BY ImportShapes DEF ImportInv, ImportShape, Files
    <2> QED
      BY <2>1 DEF Logged
  <1>2. IsFiniteSet(in)
    <2>1. in \subseteq File[n] /\ IsFiniteSet(File[n])
      BY <1>1, ImportShapes DEF ImportInv, ImportShape, Files
    <2> QED
      BY <2>1, FS_Subset
  <1>3. held \subseteq catalog.held
    BY DEF ImportInv, Sound, Knows
  <1>4. in = cls.accepted \cup cls.waiting \cup cls.quarantined
    <2> DEFINE more == PartsOf(snap[c]) \cup extra
    <2>1. cls = ClassifyAll(snap[c].held, more, in)
      BY DEF Classes
    <2> HIDE DEF in, more, cls
    <2> QED
      BY <1>2, <2>1, ClassesShare
  <1>5. Move(c, n) = [of |-> n, accepted |-> cls.accepted, bad |-> cls.quarantined,
                      gone |-> cls.accepted \cup cls.quarantined \cup held]
    BY DEF Move
  <1>6. \A r \in mine : work[c].tables.rows[r] = n
    OBVIOUS
  <1>7. in \subseteq mine /\ held \subseteq mine
    OBVIOUS
  <1> HIDE DEF cls, in, held, mine
  <1> QED
    BY <1>1, <1>3, <1>4, <1>5, <1>6, <1>7 DEF Moves

LEMMA PromoteKeeps ==
    ASSUME ImportInv, NEW c \in Commands, Promote(c), UNCHANGED troubles
    PROVE  Keeps(c)
  <1>1. PICK n \in Imports :
           LET m   == Move(c, n)
               now == work[c].tables.batches[n] = "accepted"
           IN /\ pc[c] = "promote" /\ Movable(c, n) /\ Working(c, "promote", "moved")
              /\ Record(c, {}, {}, IF now THEN m.accepted ELSE {})
              /\ staged' = [staged EXCEPT ![n] = IF now THEN @ ELSE @ \cup m.accepted]
              /\ work' = [work EXCEPT ![c].move = m]
              /\ UNCHANGED <<objects, todo, waiting, quarantine, batches, rows, gaveUp>>
    BY DEF Promote
  <1> DEFINE m   == Move(c, n)
             now == work[c].tables.batches[n] = "accepted"
             H   == IF now THEN m.accepted ELSE {}
             w   == [work[c] EXCEPT !.move = m]
  <1>2. /\ pc[c] = "promote" /\ m.gone # {} /\ Working(c, "promote", "moved")
        /\ Record(c, {}, {}, H)
        /\ staged' = [staged EXCEPT ![n] = IF now THEN @ ELSE @ \cup m.accepted]
        /\ work' = [work EXCEPT ![c] = w]
        /\ UNCHANGED <<objects, todo, waiting, quarantine, batches, rows, gaveUp>>
    BY <1>1 DEF Movable
  <1>3. /\ m \in Moves /\ m.of = n
        /\ m.accepted \subseteq m.gone /\ m.bad \subseteq m.gone
        /\ m.gone \subseteq waiting[n]
        /\ m.gone \subseteq m.accepted \cup m.bad \cup catalog.held
        /\ \A r \in m.gone : work[c].tables.rows[r] = n
    BY <1>2, MoveMoves
  <1> HIDE DEF m, now
  <1> USE DEF ImportInv, ImportShape
  <1>4. Doing(c, {"import", "accept"})
    BY <1>2 DEF Placed, Promoting
  <1>5. lock = c /\ On(c) \in Imports /\ Busy(c)
    BY <1>2, <1>4, Holds, OnImport DEF Writing, Doing, ImportOps, Busy
  <1>6. H \in SUBSET Content
    BY <1>3 DEF Moves
  <1>7. work[c] \in Works
    BY <1>5 DEF Sorts, Worked
  <1>8. w \in Works /\ w.move = m /\ w.tables = work[c].tables
    BY <1>3, <1>7 DEF Works
  <1> HIDE DEF H, w
  <1>9. Apart(c)
    BY <1>2, <1>5, <1>6, WorkingApart DEF Writing
  <1>10. Sound(c)'
    BY <1>2, <1>4, <1>6, <1>9, WorkingSound DEF Doing, ImportOps, Writing
  <1>11. /\ pc'[c] = "moved" /\ op' = op /\ On(c)' = On(c) /\ work'[c] = w
    BY <1>2 DEF Working, Step, Goto, LibShape, On
  <1>12. Placed(c)'
    BY <1>2, <1>4, <1>5, <1>11 DEF Placed, Locked, Writing, Promoting, Doing,
       ImportOps, Working
  <1>13. /\ staged'[n] = IF now THEN staged[n] ELSE staged[n] \cup m.accepted
         /\ \A k \in Imports \ {n} : staged'[k] = staged[k]
         /\ staged' = [k \in Imports |-> staged'[k]]
    BY <1>2 DEF Files
  <1>14. Files(staged)' /\ Files(waiting)' /\ Files(quarantine)'
    BY <1>2, <1>3, <1>13 DEF Files
  <1>15. Leaves(c)
    BY <1>9, ApartLeaves
  <1>16. ASSUME NEW k \in Imports, Kept(k) PROVE Kept(k)'
    BY <1>2, <1>13, <1>15, <1>16, KeptStays
  <1>17. Retained'
    <2>1. ASSUME NEW k \in Imports \ gaveUp', batches'[k] # None PROVE Kept(k)'
      BY <1>2, <1>16, <2>1 DEF Retained, Kept
    <2> QED
      BY <2>1 DEF Retained, Kept
  <1>18. Worked(c)'
    BY <1>2, <1>3, <1>8, <1>11 DEF Worked, Classing, Fetches, Fetching, Filing
  <1>19. Imported(c)'
    <2>1. Takes(c) => Kept(On(c)) /\ batches[On(c)] = None
      BY <1>2 DEF Sorts, Imported, Promoting
    <2>2. Takes(c) => Kept(On(c))'
      BY <1>5, <1>11, <1>16, <2>1 DEF Kept, Somewhere
    <2>3. Takes(c)' <=> Takes(c)
      BY <1>11 DEF Takes, Doing
    <2> QED
      BY <1>2, <1>11, <2>1, <2>2, <2>3 DEF Imported, Filing, Fetching, Kept, Somewhere
  <1>20. TextsPut(c)' /\ Unstaged(c)'
    BY <1>11 DEF TextsPut, Unstaged, Fetching
  <1>21. Moved(c)'
    <2>1. H \subseteq catalog'.held /\ catalog.held \subseteq catalog'.held
      BY <1>2, <1>6, ImportRecords DEF Grown
    <2>2. m.accepted \subseteq catalog'.held \cup staged'[n]
      BY <1>13, <2>1 DEF H
    <2>3. m.gone \ m.bad \subseteq catalog'.held \cup staged'[n]
      BY <1>3, <2>1, <2>2
    <2> QED
      BY <1>3, <1>8, <1>11, <2>3 DEF Moved
  <1>22. Tabled(c)'
    BY <1>2, <1>5, <1>8, <1>11 DEF Sorts, Tabled, Takes, Doing
  <1> QED
    BY <1>2, <1>9, <1>10, <1>12, <1>14, <1>17, <1>18, <1>19, <1>20, <1>21, <1>22
       DEF Keeps, Sorts

(* What promote has moved is set apart, and then taken out of where it     *)
(* waited.                                                                 *)
LEMMA SetApartKeeps ==
    ASSUME ImportInv, NEW c \in Commands, SetApart(c), UNCHANGED troubles
    PROVE  Keeps(c)
  <1> DEFINE m == work[c].move
  <1>1. /\ pc[c] = "moved" /\ Working(c, "moved", "shorten")
        /\ quarantine' = [quarantine EXCEPT ![m.of] = @ \cup m.bad]
        /\ UNCHANGED <<catalog, objects, snap, todo, staged, waiting, batches,
                       rows, work, gaveUp>>
    BY DEF SetApart, Working, Step
  <1> USE DEF ImportInv, ImportShape
  <1>2. Doing(c, {"import", "accept"})
    BY <1>1 DEF Placed, Promoting
  <1>3. lock = c /\ On(c) \in Imports /\ Busy(c)
    BY <1>1, <1>2, Holds, OnImport DEF Writing, Doing, ImportOps, Busy
  <1>4. /\ m \in Moves /\ m.gone \subseteq waiting[m.of] /\ m.bad \subseteq m.gone
        /\ m.gone \ m.bad \subseteq catalog.held \cup staged[m.of]
    BY <1>1 DEF Sorts, Worked, Moved
  <1>5. m.of \in Imports
    BY <1>4 DEF Moves
  <1> HIDE DEF m
  <1>6. Apart(c)
    BY <1>1, <1>3, WorkingApart DEF Writing
  <1>7. Sound(c)'
    BY <1>1, <1>2, <1>6, WorkingSound DEF Doing, ImportOps, Writing
  <1>8. /\ pc'[c] = "shorten" /\ op' = op /\ On(c)' = On(c) /\ m' = m
    BY <1>1 DEF Working, Step, Goto, LibShape, On, m
  <1>9. Placed(c)'
    BY <1>1, <1>2, <1>3, <1>8 DEF Placed, Locked, Writing, Promoting, Doing,
       ImportOps, Working
  <1>10. /\ quarantine'[m.of] = quarantine[m.of] \cup m.bad
         /\ \A k \in Imports \ {m.of} : quarantine'[k] = quarantine[k]
         /\ quarantine' = [k \in Imports |-> quarantine'[k]]
    BY <1>1, <1>5 DEF Files
  <1>11. Files(staged)' /\ Files(waiting)' /\ Files(quarantine)'
    BY <1>1, <1>4, <1>5, <1>10 DEF Files
  <1>12. Leaves(c)
    BY <1>6, ApartLeaves
  <1>13. ASSUME NEW k \in Imports, Kept(k) PROVE Kept(k)'
    BY <1>1, <1>10, <1>12, <1>13, KeptStays
  <1>14. Retained'
    <2>1. ASSUME NEW k \in Imports \ gaveUp', batches'[k] # None PROVE Kept(k)'
      BY <1>1, <1>13, <2>1 DEF Retained, Kept
    <2> QED
      BY <2>1 DEF Retained, Kept
  <1>15. Worked(c)'
    BY <1>1, <1>3, <1>8 DEF Sorts, Worked, Classing, Fetches, Fetching, Filing, Busy,
       Writing, m
  <1>16. Imported(c)'
    <2>1. Takes(c) => Kept(On(c)) /\ batches[On(c)] = None
      BY <1>1 DEF Sorts, Imported, Promoting
    <2>2. Takes(c) => Kept(On(c))'
      BY <1>3, <1>8, <1>13, <2>1 DEF Kept, Somewhere
    <2>3. Takes(c)' <=> Takes(c)
      BY <1>8 DEF Takes, Doing
    <2> QED
      BY <1>1, <1>8, <2>1, <2>2, <2>3 DEF Imported, Filing, Fetching, Kept, Somewhere
  <1>17. TextsPut(c)' /\ Unstaged(c)'
    BY <1>8 DEF TextsPut, Unstaged, Fetching
  <1>18. Moved(c)'
    BY <1>1, <1>4, <1>8, <1>10 DEF Moved, m
  <1>19. Tabled(c)'
    BY <1>1, <1>3, <1>8 DEF Sorts, Tabled, Takes, Doing
  <1> QED
    BY <1>1, <1>6, <1>7, <1>9, <1>11, <1>14, <1>15, <1>16, <1>17, <1>18, <1>19
       DEF Keeps, Sorts

LEMMA ShortenKeeps ==
    ASSUME ImportInv, NEW c \in Commands, Shorten(c), UNCHANGED troubles
    PROVE  Keeps(c)
  <1> DEFINE m == work[c].move
             w == [work[c] EXCEPT !.move = None,
                                  !.tables.rows = [r \in Content |->
                                      IF r \in m.gone THEN None ELSE @[r]]]
  <1>1. /\ pc[c] = "shorten" /\ Working(c, "shorten", "promote")
        /\ waiting' = [waiting EXCEPT ![m.of] = @ \ m.gone]
        /\ work' = [work EXCEPT ![c] = w]
        /\ UNCHANGED <<catalog, objects, snap, todo, staged, quarantine, batches,
                       rows, gaveUp>>
    BY DEF Shorten, Working, Step
  <1> USE DEF ImportInv, ImportShape
  <1>2. Doing(c, {"import", "accept"})
    BY <1>1 DEF Placed, Promoting
  <1>3. lock = c /\ On(c) \in Imports /\ Busy(c)
    BY <1>1, <1>2, Holds, OnImport DEF Writing, Doing, ImportOps, Busy
  <1>4. /\ work[c] \in Works /\ m \in Moves
        /\ m.gone \subseteq catalog.held \cup staged[m.of] \cup quarantine[m.of]
    BY <1>1, <1>3 DEF Sorts, Worked, Moved
  <1>5. m.of \in Imports
    BY <1>4 DEF Moves
  <1> HIDE DEF m
  <1>6. w \in Works /\ w.tables.batches = work[c].tables.batches
    BY <1>4 DEF Works, Tables
  <1> HIDE DEF w
  <1>7. Apart(c)
    BY <1>1, <1>3, WorkingApart DEF Writing
  <1>8. Sound(c)'
    BY <1>1, <1>2, <1>7, WorkingSound DEF Doing, ImportOps, Writing
  <1>9. /\ pc'[c] = "promote" /\ op' = op /\ On(c)' = On(c) /\ work'[c] = w
    BY <1>1 DEF Working, Step, Goto, LibShape, On
  <1>10. Placed(c)'
    BY <1>1, <1>2, <1>3, <1>9 DEF Placed, Locked, Writing, Promoting, Doing,
       ImportOps, Working
  <1>11. /\ waiting'[m.of] = waiting[m.of] \ m.gone
         /\ \A k \in Imports \ {m.of} : waiting'[k] = waiting[k]
         /\ waiting' = [k \in Imports |-> waiting'[k]]
    BY <1>1, <1>5 DEF Files
  <1>12. Files(staged)' /\ Files(waiting)' /\ Files(quarantine)'
    BY <1>1, <1>5, <1>11 DEF Files
  <1>13. Leaves(c)
    BY <1>7, ApartLeaves
  <1>14. ASSUME NEW k \in Imports, Kept(k) PROVE Kept(k)'
    <2>1. \A r \in staged[k] \cup waiting[k] \cup quarantine[k] :
             Landed(r, k)' \/ r \in (staged[k] \cup waiting[k] \cup quarantine[k])'
      <3>1. CASE k = m.of
        BY <1>1, <1>4, <1>11, <3>1 DEF Landed
      <3>2. CASE k # m.of
        BY <1>1, <1>11, <3>2
      <3> QED
        BY <3>1, <3>2
    <2> QED
      BY <1>13, <1>14, <2>1, KeptStays
  <1>15. Retained'
    <2>1. ASSUME NEW k \in Imports \ gaveUp', batches'[k] # None PROVE Kept(k)'
      BY <1>1, <1>14, <2>1 DEF Retained, Kept
    <2> QED
      BY <2>1 DEF Retained, Kept
  <1>16. Worked(c)'
    BY <1>6, <1>9 DEF Worked, Classing, Fetches, Fetching, Filing
  <1>17. Imported(c)'
    <2>1. Takes(c) => Kept(On(c)) /\ batches[On(c)] = None
      BY <1>1 DEF Sorts, Imported, Promoting
    <2>2. Takes(c) => Kept(On(c))'
      BY <1>3, <1>9, <1>14, <2>1 DEF Kept, Somewhere
    <2>3. Takes(c)' <=> Takes(c)
      BY <1>9 DEF Takes, Doing
    <2> QED
      BY <1>1, <1>9, <2>1, <2>2, <2>3 DEF Imported, Filing, Fetching, Kept, Somewhere
  <1>18. TextsPut(c)' /\ Unstaged(c)' /\ Moved(c)'
    BY <1>9 DEF TextsPut, Unstaged, Moved, Fetching
  <1>19. Tabled(c)'
    BY <1>1, <1>3, <1>6, <1>9 DEF Sorts, Tabled, Takes, Doing
  <1> QED
    BY <1>1, <1>7, <1>8, <1>10, <1>12, <1>15, <1>16, <1>17, <1>18, <1>19
       DEF Keeps, Sorts

LEMMA PromotedKeeps ==
    ASSUME ImportInv, NEW c \in Commands, Promoted(c), UNCHANGED troubles
    PROVE  Keeps(c)
  <1>1. /\ pc[c] = "promote" /\ Working(c, "promote", "save")
        /\ UNCHANGED <<catalog, objects, snap, todo, staged, waiting, quarantine,
                       batches, rows, work, gaveUp>>
    BY DEF Promoted, impvars
  <1> USE DEF ImportInv, ImportShape
  <1>2. Doing(c, {"import", "accept"})
    BY <1>1 DEF Placed, Promoting
  <1>3. lock = c /\ On(c) \in Imports /\ Busy(c)
    BY <1>1, <1>2, Holds, OnImport DEF Writing, Doing, ImportOps, Busy
  <1>4. Apart(c)
    BY <1>1, <1>3, WorkingApart DEF Writing
  <1>5. Sound(c)'
    BY <1>1, <1>2, <1>4, WorkingSound DEF Doing, ImportOps, Writing
  <1>6. /\ pc'[c] = "save" /\ op' = op /\ On(c)' = On(c)
    BY <1>1 DEF Working, Step, Goto, LibShape, On
  <1>7. Placed(c)'
    BY <1>1, <1>2, <1>3, <1>6 DEF Placed, Locked, Writing, Promoting, Doing,
       ImportOps, Working
  <1>8. Leaves(c) /\ Retained'
    BY <1>1, <1>4, ApartLeaves, StillRetained
  <1>9. Worked(c)'
    BY <1>1, <1>3, <1>6 DEF Sorts, Worked, Classing, Fetches, Fetching, Filing
  <1>10. Imported(c)'
    <2>1. Takes(c) => Kept(On(c)) /\ batches[On(c)] = None
      BY <1>1 DEF Sorts, Imported, Promoting
    <2>2. Takes(c) => Kept(On(c))'
      <3>1. UNCHANGED <<staged[On(c)], waiting[On(c)], quarantine[On(c)]>>
        BY <1>1, <1>6
      <3>2. Takes(c) => \A r \in File[On(c)] : Landed(r, On(c)) \/
                 r \in staged[On(c)] \cup waiting[On(c)] \cup quarantine[On(c)]
        BY <2>1 DEF Kept, Somewhere, Landed
      <3>3. \A k, r : Landed(r, k) => Landed(r, k)'
        BY <1>8, AllLanded
      <3> QED
        BY <1>1, <1>6, <3>2, <3>3 DEF Kept, Somewhere, Landed
    <2>3. Takes(c)' <=> Takes(c)
      BY <1>6 DEF Takes, Doing
    <2> QED
      BY <1>1, <1>6, <2>1, <2>2, <2>3 DEF Imported, Filing, Fetching, Promoting, Kept, Somewhere
  <1>11. TextsPut(c)' /\ Unstaged(c)' /\ Moved(c)'
    <2>1. ~Doing(c, {"discard"})'
      BY <1>2, <1>6 DEF Doing
    <2> QED
      BY <1>6, <2>1 DEF TextsPut, Unstaged, Moved, Fetching
  <1>12. Tabled(c)'
    BY <1>1, <1>3, <1>6 DEF Sorts, Tabled, Takes, Doing
  <1> QED
    BY <1>1, <1>4, <1>5, <1>7, <1>8, <1>9, <1>10, <1>11, <1>12 DEF Keeps, Sorts, Files

-----------------------------------------------------------------------------
(* The tables: the import is in the batch table only when its records are  *)
(* all somewhere.                                                          *)
LEMMA SaveBatchesKeeps ==
    ASSUME ImportInv, NEW c \in Commands, SaveBatches(c), UNCHANGED troubles
    PROVE  Keeps(c)
  <1>1. /\ pc[c] = "save" /\ Working(c, "save", "rows")
        /\ batches' = work[c].tables.batches
        /\ UNCHANGED <<catalog, objects, snap, todo, staged, waiting, quarantine,
                       rows, work, gaveUp>>
    BY DEF SaveBatches, Working, Step
  <1> USE DEF ImportInv, ImportShape
  <1>2. Doing(c, ImportOps)
    BY <1>1 DEF Placed
  <1>3. lock = c /\ On(c) \in Imports /\ Busy(c)
    BY <1>1, <1>2, Holds, OnImport DEF Writing, Busy
  <1>4. Apart(c)
    BY <1>1, <1>3, WorkingApart DEF Writing
  <1>5. Sound(c)'
    BY <1>1, <1>2, <1>4, WorkingSound DEF Writing
  <1>6. /\ pc'[c] = "rows" /\ op' = op /\ On(c)' = On(c)
    BY <1>1 DEF Working, Step, Goto, LibShape, On
  <1>7. Placed(c)'
    BY <1>1, <1>2, <1>3, <1>6 DEF Placed, Locked, Writing, Promoting, Doing,
       ImportOps, Working
  <1>8. work[c] \in Works /\ batches' \in [Imports -> States]
    BY <1>1, <1>3 DEF Sorts, Worked, Works, Tables
  <1>9. Retained'
    <2>1. ASSUME NEW n \in Imports \ gaveUp', batches'[n] # None PROVE Kept(n)'
      <3>1. batches[n] # None \/ (n = On(c) /\ Takes(c))
        BY <1>1, <1>3, <2>1 DEF Sorts, Tabled
      <3>2. Kept(n)
        <4>1. CASE batches[n] # None
          BY <1>1, <2>1, <4>1 DEF Retained, Kept
        <4>2. CASE n = On(c) /\ Takes(c)
          BY <1>1, <4>2 DEF Sorts, Imported
        <4> QED
          BY <3>1, <4>1, <4>2
      <3>3. UNCHANGED <<staged[n], waiting[n], quarantine[n]>>
        BY <1>1
      <3>4. Leaves(c)
        BY <1>4, ApartLeaves
      <3> QED
        BY <3>2, <3>3, <3>4, StillKept
    <2> QED
      BY <2>1 DEF Retained, Kept
  <1>10. Worked(c)'
    BY <1>1, <1>6, <1>8 DEF Worked, Classing, Fetches, Fetching, Filing
  <1>11. Imported(c)' /\ TextsPut(c)' /\ Unstaged(c)' /\ Moved(c)' /\ Tabled(c)'
    BY <1>6 DEF Imported, TextsPut, Unstaged, Moved, Tabled, Fetching, Filing, Promoting
  <1> QED
    BY <1>1, <1>4, <1>5, <1>7, <1>8, <1>9, <1>10, <1>11 DEF Keeps, Sorts, Files

LEMMA SaveRowsKeeps ==
    ASSUME ImportInv, NEW c \in Commands, SaveRows(c), UNCHANGED troubles
    PROVE  Keeps(c)
  <1>1. /\ pc[c] = "rows" /\ Working(c, "rows", "done")
        /\ rows' = work[c].tables.rows
        /\ work' = [work EXCEPT ![c] = None]
        /\ UNCHANGED <<catalog, objects, snap, todo, staged, waiting, quarantine,
                       batches, gaveUp>>
    BY DEF SaveRows, Working, Step
  <1> USE DEF ImportInv, ImportShape
  <1>2. Doing(c, ImportOps)
    BY <1>1 DEF Placed
  <1>3. lock = c /\ Busy(c)
    BY <1>1, Holds DEF Writing, Busy
  <1>4. Apart(c)
    BY <1>1, <1>3, WorkingApart DEF Locked, Writing
  <1>5. Sound(c)'
    BY <1>1, <1>2, <1>4, WorkingSound DEF Writing
  <1>6. pc'[c] = "done" /\ op' = op
    BY <1>1 DEF Working, Step, Goto, LibShape
  <1>7. Placed(c)'
    BY <1>1, <1>6 DEF Placed, Locked, Writing, Promoting, Working
  <1>8. work[c] \in Works /\ rows' \in [Content -> Imports \cup {None}]
    BY <1>1, <1>3 DEF Sorts, Worked, Works, Tables
  <1>9. Retained'
    BY <1>1, <1>4, ApartLeaves, StillRetained
  <1>10. Sorts(c)'
    BY <1>6, IdleSorts DEF Busy, Fetches, Fetching, Writing
  <1> QED
    BY <1>1, <1>4, <1>5, <1>7, <1>8, <1>9, <1>10 DEF Keeps, Files

-----------------------------------------------------------------------------
(* A step of the library, and whoever comes or is killed.                  *)

(* What becomes of an import a step is not about.                          *)
LEMMA SortsStay ==
    ASSUME NEW d \in Commands, Sorts(d),
           \A n, r : Landed(r, n) => Landed(r, n)',
           catalog.held \subseteq catalog'.held,
           op'[d] = op[d], work'[d] = work[d],
           \/ pc'[d] = pc[d]
           \/ {pc[d], pc'[d]} \subseteq Fetching,
           \A x \in todo[d] : x \in todo'[d] \cup objects',
           UNCHANGED <<staged, waiting, quarantine, batches>>, gaveUp \subseteq gaveUp'
    PROVE  Sorts(d)'
  <1>1. On(d)' = On(d)
    BY DEF On
  <1>2. /\ Takes(d)' <=> Takes(d)
        /\ Fetches(d)' <=> Fetches(d)
        /\ Classing(d)' <=> Classing(d)
        /\ Busy(d)' <=> Busy(d)
    BY DEF Takes, Fetches, Classing, Busy, Doing, Fetching, Filing, Writing
  <1>3. pc'[d] \in Fetching <=> pc[d] \in Fetching
    OBVIOUS
  <1>4. pc'[d] \notin Fetching => pc'[d] = pc[d]
    OBVIOUS
  <1>5. \A x : Landed(x, On(d)) => Landed(x, On(d))'
    <2>1. \A x : Landed(x, On(d)) => x \in catalog'.held \cup objects' \/
                 (x \in Objects /\ PartOf(x) \in DoorRedacted(catalog', On(d)))
      BY DEF Landed, DoorRedacted, Redacted
    <2> QED
      BY <1>1, <2>1 DEF Landed, DoorRedacted, Redacted
  <1>6. Worked(d)'
    BY <1>1, <1>2, <1>4 DEF Sorts, Worked, Fetching
  <1>7. Imported(d)'
    <2>1. Kept(On(d)) => Kept(On(d))'
      BY <1>1, <1>5 DEF Kept, Somewhere, Landed
    <2>2. pc'[d] \in Fetching \cup Filing <=> pc[d] \in Fetching \cup Filing
      BY <1>3, <1>4
    <2> QED
      BY <1>1, <1>2, <1>3, <1>4, <1>5, <2>1, <2>2
         DEF Sorts, Imported, Fetching, Filing, Promoting
  <1>8. TextsPut(d)'
    <2>1. Doing(d, {"import", "accept"})' <=> Doing(d, {"import", "accept"})
      BY DEF Doing
    <2>2. \A x : x \in objects' => Landed(x, On(d))'
      BY DEF Landed
    <2> QED
      BY <1>3, <1>5, <2>1, <2>2 DEF Sorts, TextsPut
  <1>9. Unstaged(d)'
    BY <1>1, <1>3, <1>4, <1>5 DEF Sorts, Unstaged, Doing, Fetching
  <1>10. Moved(d)'
    <2>1. ASSUME NEW r, r \in catalog.held PROVE r \in catalog'.held
      BY <2>1
    <2> QED
      BY <1>4, <2>1 DEF Sorts, Moved, Fetching
  <1>11. Tabled(d)'
    BY <1>1, <1>2, <1>4 DEF Sorts, Tabled, Fetching
  <1> QED
    BY <1>6, <1>7, <1>8, <1>9, <1>10, <1>11 DEF Sorts

LEMMA PlacedStays ==
    ASSUME NEW d \in Commands, Placed(d), pc'[d] = pc[d], op'[d] = op[d],
           (lock' = d) <=> (lock = d)
    PROVE  Placed(d)'
  BY DEF Placed, Doing, Takes

(* Of the steps of the library, only those that put text are an import's.  *)
LEMMA LibStepSorts ==
    ASSUME ImportInv, NEW c \in Commands, LibStep(c), UNCHANGED impvars
    PROVE  Sorts(c)'
  <1> USE DEF ImportInv, ImportShape
  <1>1. Leaves(c) /\ Sound(c) /\ Sorts(c)
    BY StepLeaves DEF Sound
  <1>2. /\ \A n, r : Landed(r, n) => Landed(r, n)'
        /\ catalog.held \subseteq catalog'.held
    BY <1>1, AllLanded DEF Leaves, Grown
  <1>3. /\ pc'[c] \in {"idle", "enforce", "opened"} \cup Locked
        /\ op'[c] = IF pc'[c] = "idle" THEN None ELSE op[c]
    BY <1>1, StepShape DEF Sound
  <1>4. CASE PutHeld(c) \/ PutTemp(c) \/ PutRename(c)
    <2>1. /\ {pc[c], pc'[c]} \subseteq Fetching /\ op'[c] = op[c]
          /\ \A x \in todo[c] : x \in todo'[c] \cup objects'
      <3>1. CASE PutHeld(c)
        BY <3>1 DEF PutHeld, LibShape, Fetching
      <3>2. CASE PutTemp(c)
        BY <3>2 DEF PutTemp, Step, Goto, LibShape, Fetching
      <3>3. CASE PutRename(c)
        BY <3>3 DEF PutRename, Step, Goto, LibShape, Fetching
      <3> QED
        BY <1>4, <3>1, <3>2, <3>3
    <2> QED
      BY <1>1, <1>2, <2>1, SortsStay DEF impvars
  <1>5. CASE ~(PutHeld(c) \/ PutTemp(c) \/ PutRename(c))
    <2>1. pc'[c] \in Fetching => BeginAdd(c)
      BY <1>5 DEF LibStep, Unlink, Enforced, Looked, Acquire, AcquireRefused, Finish,
         BeginAdd, AppendRefused, Unchanged, AddManifest, Redact, RedactDone, Step,
         Goto, LetGo, Exit, Fetching, LibShape
    <2>2. BeginAdd(c) => ~Fetches(c)'
      BY <1>3 DEF BeginAdd, Is, Fetches, Doing
    <2>3. ~Busy(c)'
      BY <1>3, <2>1, <2>2 DEF Busy, Fetches, Locked, Writing
    <2> QED
      BY <2>3, IdleSorts
  <1> QED
    BY <1>4, <1>5

LEMMA LibStepKeeps ==
    ASSUME ImportInv, NEW c \in Commands, LibStep(c), UNCHANGED <<impvars, troubles>>
    PROVE  ImportInv'
  <1> USE DEF ImportInv, ImportShape
  <1>1. Leaves(c) /\ Tasked(c)
    BY StepLeaves DEF Sound
  <1>2. Backed' /\ \A d \in Commands : Sound(d)'
    BY StepSound
  <1>3. /\ LibShape'
        /\ pc'[c] \in {"idle", "enforce", "opened"} \cup Locked
        /\ op'[c] = IF pc'[c] = "idle" THEN None ELSE op[c]
    BY <1>1, StepShape
  <1>4. Placed(c)'
    BY <1>3 DEF Placed, Locked, Writing, Promoting
  <1>5. /\ \A n, r : Landed(r, n) => Landed(r, n)'
        /\ catalog.held \subseteq catalog'.held
    BY <1>1, AllLanded DEF Leaves, Grown
  <1>6. ASSUME NEW d \in Commands \ {c} PROVE Placed(d)' /\ Sorts(d)'
    <2>1. /\ pc'[d] = pc[d] /\ op'[d] = op[d] /\ todo'[d] = todo[d]
          /\ (lock' = d) <=> (lock = d)
      BY <1>1 DEF Leaves
    <2>2. Placed(d)'
      BY <2>1, PlacedStays
    <2>3. Sorts(d)'
      BY <1>5, <2>1, SortsStay DEF impvars
    <2> QED
      BY <2>2, <2>3
  <1>7. Sorts(c)'
    BY LibStepSorts DEF impvars
  <1>8. Retained'
    BY <1>1, StillRetained DEF impvars
  <1>9. ImportShape'
    BY <1>3, <1>4, <1>6 DEF impvars, Files
  <1> QED
    BY <1>2, <1>6, <1>7, <1>8, <1>9

LEMMA OpenLeaves ==
    ASSUME LibShape, NEW c \in Commands, NEW task, Open(c, task)
    PROVE  Leaves(c)
  BY DEF LibShape, Leaves, Grown, Open, Step, Goto

LEMMA StartKeeps ==
    ASSUME ImportInv, NEW c \in Commands, NEW task \in TextTasks \cup ImportTasks,
           Start(c, task)
    PROVE  ImportInv'
  <1> USE DEF ImportInv, ImportShape
  <1>1. /\ Open(c, task) /\ UNCHANGED impvars
        /\ troubles' \in 0 .. MaxTroubles
    BY ImportShapes DEF Start, Trouble
  <1>2. /\ task # None
        /\ task.do \in {"look", "add", "append", "redact"} => task \in TextTasks
    BY NothingIsThere, NothingBegun DEF ImportTasks
  <1>3. LibShape'
    BY <1>1, <1>2, OpenShape
  <1>4. Backed' /\ \A d \in Commands : Sound(d)'
    BY <1>1, OpenSound
  <1>5. Leaves(c)
    BY <1>1, OpenLeaves
  <1>6. /\ \A n, r : Landed(r, n) => Landed(r, n)'
        /\ catalog.held \subseteq catalog'.held
    BY <1>5, AllLanded DEF Leaves, Grown
  <1>7. pc'[c] = "enforce" /\ op'[c] = task
    BY <1>1 DEF Open, Step, Goto, LibShape
  <1>8. Placed(c)' /\ Sorts(c)'
    <2>1. ~Busy(c)'
      BY <1>7 DEF Busy, Fetches, Fetching, Writing
    <2> QED
      BY <1>7, <2>1, IdleSorts DEF Placed, Locked, Writing, Promoting
  <1>9. ASSUME NEW d \in Commands \ {c} PROVE Placed(d)' /\ Sorts(d)'
    <2>1. /\ pc'[d] = pc[d] /\ op'[d] = op[d] /\ todo'[d] = todo[d]
          /\ (lock' = d) <=> (lock = d)
      BY <1>5 DEF Leaves
    <2>2. Placed(d)'
      BY <2>1, PlacedStays
    <2>3. Sorts(d)'
      BY <1>1, <1>6, <2>1, SortsStay DEF impvars
    <2> QED
      BY <2>2, <2>3
  <1>10. Retained'
    BY <1>1, <1>5, StillRetained DEF impvars
  <1>11. ImportShape'
    BY <1>1, <1>3, <1>8, <1>9 DEF impvars, Files
  <1> QED
    BY <1>4, <1>8, <1>9, <1>10, <1>11

(* What may be in the logs of what a killed command was appending. *)
LEMMA BatchRecords ==
    ASSUME ImportInv, NEW c \in Commands
    PROVE  Batch(c) \subseteq Content
  <1> USE DEF ImportInv, ImportShape
  <1>1. CASE pc[c] = "put" /\ todo[c] = {} /\ Doing(c, {"import", "stage", "accept"})
    <2>1. Classing(c) /\ On(c) \in Imports
      BY <1>1, OnImport DEF Classing, Fetches, Fetching, Doing, ImportOps
    <2>2. Logged(work[c].cls.accepted) \subseteq Content
      BY <2>1 DEF Sorts, Worked, Sorted, Logged
    <2> QED
      BY <1>1, <2>1, <2>2, ImportShapes DEF Batch, Doing
  <1>2. CASE pc[c] = "promote"
    <2>1. ASSUME NEW n \in Imports PROVE Move(c, n).accepted \subseteq Content
      BY <1>2, MoveMoves DEF Moves
    <2> QED
      BY <1>2, <2>1 DEF Batch
  <1>3. CASE /\ ~(pc[c] = "put" /\ todo[c] = {} /\ Doing(c, {"import", "stage", "accept"}))
             /\ pc[c] # "promote"
    BY <1>3 DEF Batch, Doing
  <1> QED
    BY <1>1, <1>2, <1>3

LEMMA CrashKeeps ==
    ASSUME ImportInv, NEW c \in Commands, Crash(c)
    PROVE  ImportInv'
  <1> USE DEF ImportInv, ImportShape
  <1>1. /\ Die(c) /\ troubles' \in 0 .. MaxTroubles
        /\ work' = [work EXCEPT ![c] = None]
        /\ UNCHANGED <<objects, staged, waiting, quarantine, batches, rows, gaveUp>>
    BY ImportShapes DEF Crash, Trouble
  <1>2. PICK some \in SUBSET Batch(c) : catalog' = [catalog EXCEPT !.held = @ \cup some]
    BY DEF Crash
  <1>3. /\ catalog' \in Catalogs /\ catalog'.versions = catalog.versions /\ Grown
    BY <1>2, BatchRecords DEF LibShape, Catalogs, Grown
  <1>4. LibShape'
    BY <1>1, <1>3, DieShape
  <1>5. Backed' /\ \A d \in Commands : Sound(d)'
    BY <1>1, <1>3, DieSound
  <1>6. Leaves(c)
    BY <1>1, <1>3, DieLeaves
  <1>7. /\ \A n, r : Landed(r, n) => Landed(r, n)'
        /\ catalog.held \subseteq catalog'.held
    BY <1>6, AllLanded DEF Leaves, Grown
  <1>8. pc'[c] = "idle" /\ op'[c] = None
    BY <1>1 DEF Die, Exit, Goto, LibShape
  <1>9. Placed(c)' /\ Sorts(c)'
    <2>1. ~Busy(c)'
      BY <1>8 DEF Busy, Fetches, Fetching, Writing
    <2> QED
      BY <1>8, <2>1, IdleSorts DEF Placed, Locked, Writing, Promoting
  <1>10. ASSUME NEW d \in Commands \ {c} PROVE Placed(d)' /\ Sorts(d)'
    <2>1. /\ pc'[d] = pc[d] /\ op'[d] = op[d] /\ todo'[d] = todo[d]
          /\ (lock' = d) <=> (lock = d)
      BY <1>6 DEF Leaves
    <2>2. Placed(d)'
      BY <2>1, PlacedStays
    <2>3. work'[d] = work[d]
      BY <1>1
    <2>4. Sorts(d)'
      BY <1>1, <1>7, <2>1, <2>3, SortsStay
    <2> QED
      BY <2>2, <2>4
  <1>11. Retained'
    BY <1>1, <1>6, StillRetained
  <1>12. ImportShape'
    <2>1. work' = [d \in Commands |-> work'[d]]
      BY <1>1
    <2> QED
      BY <1>1, <1>4, <1>9, <1>10, <2>1 DEF Files
  <1> QED
    BY <1>5, <1>9, <1>10, <1>11, <1>12

LEMMA BreakKeeps ==
    ASSUME ImportInv, BreakLock, UNCHANGED <<impvars, troubles>>
    PROVE  ImportInv'
  <1> USE DEF ImportInv, ImportShape
  <1>1. LibShape' /\ Backed' /\ \A d \in Commands : Sound(d)'
    BY BreakSound
  <1>2. /\ UNCHANGED <<catalog, objects, pc, op, todo>>
        /\ \A d \in Commands : (lock' = d) <=> (lock = d)
    BY Shapes DEF BreakLock
  <1>3. \A n, r : Landed(r, n) => Landed(r, n)'
    BY <1>2 DEF Landed, DoorRedacted, Redacted
  <1>4. ASSUME NEW d \in Commands PROVE Placed(d)' /\ Sorts(d)'
    BY <1>2, <1>3, PlacedStays, SortsStay DEF impvars
  <1>5. Retained'
    BY <1>2 DEF Retained, Somewhere, DoorRedacted, Redacted, impvars
  <1>6. ImportShape'
    BY <1>1, <1>4 DEF impvars, Files
  <1> QED
    BY <1>1, <1>4, <1>5, <1>6

LEMMA StutterKeeps ==
    ASSUME ImportInv, UNCHANGED vars
    PROVE  ImportInv'
  <1> USE DEF ImportInv, ImportShape
  <1>1. UNCHANGED <<libvars, impvars, troubles>>
    BY DEF vars
  <1>2. LibShape'
    BY <1>1 DEF libvars, LibShape
  <1>3. Backed' /\ \A d \in Commands : Sound(d)'
    BY <1>1 DEF libvars, Backed, Sound, Knows, Tasked, Unlinks, Puts, Alone, Target, Heads,
       PartOf, On, Is, Redacted, Bad, NamedOf, Named, Added
  <1>4. \A n, r : Landed(r, n) => Landed(r, n)'
    BY <1>1 DEF libvars, Landed, DoorRedacted, Redacted
  <1>5. ASSUME NEW d \in Commands PROVE Placed(d)' /\ Sorts(d)'
    BY <1>1, <1>4, PlacedStays, SortsStay DEF impvars, libvars
  <1>6. Retained'
    BY <1>1 DEF Retained, Somewhere, DoorRedacted, Redacted, impvars, libvars
  <1>7. ImportShape'
    BY <1>1, <1>2, <1>5 DEF impvars, Files
  <1> QED
    BY <1>3, <1>5, <1>6, <1>7

(* Nothing has been imported.                                              *)
LEMMA InitImport == Init => ImportInv
  <1> SUFFICES ASSUME Init PROVE ImportInv
    OBVIOUS
  <1>1. LibTypeOK /\ Backed /\ \A c \in Commands : Sound(c)
    BY InitInv DEF Init, Inv
  <1>2. LibShape
    BY <1>1, TypesShape
  <1>3. \A c \in Commands : pc[c] = "idle" /\ op[c] = None
    BY DEF Init, LibInit
  <1>4. ImportShape
    BY <1>2, <1>3, ImportShapes DEF Init, ImportShape, Files, States, Placed, Writing,
       Promoting
  <1>5. Retained
    BY DEF Init, Retained
  <1>6. ASSUME NEW c \in Commands PROVE Sorts(c)
    BY <1>3 DEF Sorts, Worked, Imported, TextsPut, Unstaged, Moved, Tabled, Busy,
       Fetches, Takes, Classing, Writing, Fetching, Filing, Promoting, Doing
  <1> QED
    BY <1>1, <1>4, <1>5, <1>6 DEF ImportInv

LEMMA ImportStepKeeps ==
    ASSUME ImportInv, NEW c \in Commands, ImportStep(c), UNCHANGED troubles
    PROVE  ImportInv'
  <1>1. Keeps(c)
    BY RefusedKeeps, BeginImportKeeps, ImportLogKeeps, FilingKeeps, BeginAcceptKeeps,
       AcceptLogKeeps, UnstageKeeps, BeginDiscardKeeps, UnwaitKeeps, PromoteKeeps,
       SetApartKeeps, ShortenKeeps, PromotedKeeps, SaveBatchesKeeps, SaveRowsKeeps
       DEF ImportStep
  <1>2. pc[c] \in Locked \cup Writing
    BY DEF ImportStep, ImportRefused, BeginImport, ImportLog, WriteStaged, WriteWaiting,
       WriteQuarantine, NotStaged, BeginAccept, AcceptLog, Unstage, BeginDiscard,
       Unwait, Promote, SetApart, Shorten, Promoted, SaveBatches, SaveRows, Working,
       Step, Locked, Writing
  <1>3. lock = c /\ pc[c] # "idle"
    BY <1>2, Holds DEF ImportInv, Locked, Writing
  <1> QED
    BY <1>1, <1>3, KeepsInv

LEMMA NextImport ==
    ASSUME ImportInv, [Next]_vars
    PROVE  ImportInv'
  <1>1. CASE UNCHANGED vars
    BY <1>1, StutterKeeps
  <1>2. ASSUME NEW c \in Commands, Run(c) PROVE ImportInv'
    BY <1>2, LibStepKeeps, ImportStepKeeps DEF Run
  <1>3. ASSUME NEW c \in Commands, Crash(c) PROVE ImportInv'
    BY <1>3, CrashKeeps
  <1>4. ASSUME NEW c \in Commands, NEW task \in TextTasks \cup ImportTasks,
               Start(c, task)
        PROVE  ImportInv'
    BY <1>4, StartKeeps
  <1>5. CASE BreakLock /\ UNCHANGED <<impvars, troubles>>
    BY <1>5, BreakKeeps
  <1> QED
    BY <1>1, <1>2, <1>3, <1>4, <1>5 DEF Next

-----------------------------------------------------------------------------
(* Theorems of the specification. *)

THEOREM ImportAlways == Spec => []ImportInv
  <1>1. Init => ImportInv
    BY InitImport
  <1>2. ImportInv /\ [Next]_vars => ImportInv'
    BY NextImport
  <1> QED
    BY <1>1, <1>2, PTL DEF Spec

(* Every variable keeps its type, an import's files hold records of its    *)
(* own file's kind, and whoever writes holds the library lock and has the  *)
(* tables it read under it (access.rs `LibraryWrite`, tables.rs).          *)
THEOREM ImportTypes == Spec => []ImportTypeOK
  <1>1. ASSUME ImportInv PROVE ImportTypeOK
    <2> USE <1>1 DEF ImportInv, ImportShape
    <2>1. ASSUME NEW f, Files(f)
          PROVE  f \in [Imports -> SUBSET ((Content \ Imports) \cup Objects)]
      BY <2>1, ImportShapes DEF Files
    <2>2. OnDisk \in Tables
      BY DEF OnDisk, Tables
    <2>3. ASSUME NEW c \in Commands
          PROVE  /\ op[c] \in {None} \cup TextTasks \cup ImportTasks
                 /\ pc[c] \in {"idle", "enforce", "opened"} \cup Locked \cup Writing
                 /\ (op[c] = None) <=> (pc[c] = "idle")
                 /\ (lock = c) <=> (pc[c] \in Locked \cup Writing)
                 /\ pc[c] \in Writing => work[c] # None /\ work[c].tables \in Tables
      <3>1. pc[c] \in Writing => work[c] \in Works
        BY DEF Sorts, Worked, Busy
      <3>2. pc[c] \in Writing => work[c] # None /\ work[c].tables \in Tables
        BY <3>1, NothingBegun DEF Works
      <3> QED
        BY <3>2 DEF LibShape, Placed
    <2> QED
      BY <1>1, <2>1, <2>2, <2>3 DEF ImportTypeOK, LibShape
  <1> QED
    BY <1>1, ImportAlways, PTL

(* Of a file that was imported, no record is dropped: it is in the         *)
(* library, staged, waiting or set apart, whoever is killed in the middle  *)
(* of an import, an accept or a promotion (import/mod.rs `import`,         *)
(* `accept`, `promote`).                                                   *)
THEOREM NothingDropped == Spec => []Retained
  <1>1. ImportInv => Retained
    BY DEF ImportInv
  <1> QED
    BY <1>1, ImportAlways, PTL

(* Each round of promoting but the last leaves fewer records waiting, so   *)
(* that the loop ends (import/mod.rs `promote`).                           *)
THEOREM PromotingEnds == Spec => RoundsShrink
  <1>1. ASSUME ImportInv, [Next]_vars, NEW c \in Commands, pc[c] = "shorten",
               pc'[c] = "promote"
        PROVE  Left(c)' \subseteq Left(c) /\ Left(c)' # Left(c)
    <2> USE <1>1 DEF ImportInv, ImportShape
    <2>1. ASSUME NEW d \in Commands \ {c} PROVE pc[d] \in {"idle", "enforce", "opened"}
      BY <1>1, Holds, OthersIdle DEF Writing
    <2>2. Shorten(c)
      <3>1. ASSUME NEW d \in Commands, Leaves(d) PROVE d = c
        BY <1>1, <3>1 DEF Leaves
      <3>2. ASSUME NEW d \in Commands, LibStep(d) PROVE FALSE
        <4>1. d = c
          BY <3>1, <3>2, StepLeaves DEF Sound
        <4>2. pc[d] \in {"enforce", "opened"} \cup Locked
          BY <3>2, StepShape DEF Sound
        <4> QED
          BY <1>1, <4>1, <4>2 DEF Locked
      <3>3. ASSUME NEW d \in Commands, Crash(d) PROVE FALSE
        BY <1>1, <3>3 DEF Crash, Die, Exit, Goto, LibShape
      <3>4. ASSUME NEW d \in Commands, NEW task, Start(d, task) PROVE FALSE
        BY <1>1, <3>4 DEF Start, Open, Step, Goto, LibShape
      <3>5. ASSUME NEW d \in Commands, ImportStep(d) PROVE d = c
        <4>1. pc[d] \in Locked \cup Writing
          BY <3>5 DEF ImportStep, ImportRefused, BeginImport, ImportLog, WriteStaged,
             WriteWaiting, WriteQuarantine, NotStaged, BeginAccept, AcceptLog, Unstage,
             BeginDiscard, Unwait, Promote, SetApart, Shorten, Promoted, SaveBatches,
             SaveRows, Working, Step, Locked, Writing
        <4> QED
          BY <2>1, <4>1 DEF Locked, Writing
      <3>6. ImportStep(c) => Shorten(c)
        BY <1>1 DEF ImportStep, ImportRefused, BeginImport, ImportLog, WriteStaged,
           WriteWaiting, WriteQuarantine, NotStaged, BeginAccept, AcceptLog, Unstage,
           BeginDiscard, Unwait, Promote, SetApart, Shorten, Promoted, SaveBatches,
           SaveRows, Working, Step
      <3>7. ~UNCHANGED pc
        BY <1>1
      <3> QED
        BY <1>1, <3>2, <3>3, <3>4, <3>5, <3>6, <3>7
           DEF Next, Run, BreakLock, vars, libvars
    <2> DEFINE m == work[c].move
               t == work[c].tables.rows
    <2>3. /\ work[c] \in Works /\ m \in Moves /\ m.gone # {}
          /\ \A r \in m.gone : t[r] = m.of
      BY <1>1 DEF Sorts, Worked, Busy, Writing
    <2>4. /\ m.gone \subseteq Content /\ m.of \in Imports
          /\ t \in [Content -> Imports \cup {None}]
      BY <2>3 DEF Moves, Works, Tables
    <2>5. (work[c].tables.rows)' = [r \in Content |-> IF r \in m.gone THEN None ELSE t[r]]
      BY <2>2, <2>3 DEF Shorten, Works, Tables
    <2> HIDE DEF m, t
    <2>6. Left(c)' = Left(c) \ m.gone
      BY <2>5 DEF Left, t
    <2>7. m.gone \subseteq Left(c)
      BY <2>3, <2>4, NothingBegun DEF Left, t
    <2> QED
      BY <2>3, <2>6, <2>7
  <1>2. ASSUME ImportInv, [Next]_vars
        PROVE  \A c \in Commands : pc[c] = "shorten" /\ pc'[c] = "promote" =>
                  Left(c)' \subseteq Left(c) /\ Left(c)' # Left(c)
    BY <1>1, <1>2
  <1> QED
    BY <1>2, ImportAlways, PTL DEF RoundsShrink, Spec

(* Imports come and go beside adds, appends and redactions, and the        *)
(* library stays what it is without them: whoever opens it alone holds     *)
(* nothing it has redacted, and what a manifest names is held (library.rs  *)
(* `enforce_z`, `add_with`).                                               *)
THEOREM ImportsKeepLibrary == Spec => [](RuleZ /\ Backed)
  <1>1. ImportInv => RuleZ /\ Backed
    BY DEF ImportInv, Sound, Alone, Unlinks, RuleZ, Bad
  <1> QED
    BY <1>1, ImportAlways, PTL
-----------------------------------------------------------------------------
(* What waits after a round waits after the next.                          *)
LEMMA WaitsGrow ==
    ASSUME NEW live, NEW held, NEW m \in Nat, NEW w, WaitRounds(live, held, m, w)
    PROVE  \A n \in 1..m : w[n - 1] \subseteq w[n]
  <1> DEFINE S == {n \in 0..m : n = 0 \/ w[n - 1] \subseteq w[n]}
  <1>1. ASSUME NEW n \in 0..m, n \in S, n < m PROVE n + 1 \in S
    <2>1. /\ n + 1 \in 1..m /\ n + 1 \in 0..m /\ (n + 1) - 1 = n
          /\ n = 0 \/ n \in 1..m
      BY <1>1
    <2>2. w[n] \subseteq w[n + 1]
      <3>1. CASE n = 0
        BY <3>1 DEF WaitRounds
      <3>2. CASE n # 0
        <4>1. n \in 1..m /\ w[n - 1] \subseteq w[n]
          BY <1>1, <2>1, <3>2
        <4>2. held \ Provided(w[n]) \subseteq held \ Provided(w[n - 1])
          BY <4>1 DEF Provided
        <4>3. \A r \in live : r \in w[n] <=> ~(Names[r] \subseteq held \ Provided(w[n - 1]))
          BY <4>1 DEF WaitRounds
        <4>4. \A r \in live : r \in w[n + 1] <=> ~(Names[r] \subseteq held \ Provided(w[n]))
          BY <2>1 DEF WaitRounds
        <4>5. w[n] \subseteq live
          BY DEF WaitRounds
        <4> QED
          BY <4>2, <4>3, <4>4, <4>5
      <3> QED
        BY <3>1, <3>2
    <2> QED
      BY <2>1, <2>2
  <1>2. 0..m \subseteq S
    <2>1. 0 \in S
      OBVIOUS
    <2> HIDE DEF S
    <2> QED
      BY <1>1, <2>1, RoundByRound
  <1>3. \A n \in 1..m : n \in S /\ n # 0
    <2> HIDE DEF S
    <2> QED
      BY <1>2
  <1> QED
    BY <1>3

(* What waits lacks something that is not provided but by what waits.      *)
LEMMA WaitsLack ==
    ASSUME NEW base, NEW live, IsFiniteSet(live), NEW r \in Waits(base, live)
    PROVE  ~(Names[r] \subseteq base \ Provided(Waits(base, live)))
  <1> DEFINE m == Cardinality(live)
             held == base \cup Provided(live)
  <1>1. m \in Nat
    BY FS_CardinalityType
  <1>2. PICK w : WaitRounds(live, held, m, w) /\ Waits(base, live) = w[m]
    BY WaitsRounds
  <1> HIDE DEF m
  <1>3. m # 0 /\ m \in 1..m /\ r \in live
    <2>1. m \in 0..m
      BY <1>1
    <2> QED
      BY <1>1, <1>2, <2>1 DEF WaitRounds
  <1>4. w[m - 1] \subseteq w[m]
    <2>1. \A n \in 1..m : w[n - 1] \subseteq w[n]
      <3> HIDE DEF held
      <3> QED
        BY <1>1, <1>2, WaitsGrow
    <2> QED
      BY <1>3, <2>1
  <1>5. ~(Names[r] \subseteq held \ Provided(w[m - 1]))
    BY <1>2, <1>3 DEF WaitRounds
  <1>6. base \ Provided(w[m]) \subseteq held \ Provided(w[m - 1])
    BY <1>4 DEF Provided
  <1> QED
    BY <1>2, <1>5, <1>6

(* The same of what a classification leaves waiting.                       *)
LEMMA ClassesLack ==
    ASSUME NEW library, NEW extra, NEW incoming, IsFiniteSet(incoming),
           NEW r \in ClassifyAll(library, extra, incoming).waiting
    PROVE  ~(Names[r] \subseteq Provided(library)
                 \ Provided(ClassifyAll(library, extra, incoming).waiting))
  <1> DEFINE cls  == ClassifyAll(library, extra, incoming)
             base == Provided(library) \cup extra
  <1>1. cls.waiting = Waits(base, incoming \ cls.quarantined)
    BY DEF ClassifyAll
  <1>2. IsFiniteSet(incoming \ cls.quarantined)
    BY FS_Subset
  <1> HIDE DEF cls
  <1>3. ~(Names[r] \subseteq base \ Provided(Waits(base, incoming \ cls.quarantined)))
    <2>1. r \in Waits(base, incoming \ cls.quarantined)
      BY <1>1 DEF cls
    <2> QED
      BY <1>2, <2>1, WaitsLack
  <1> QED
    BY <1>1, <1>3 DEF cls

-----------------------------------------------------------------------------
(***************************************************************************)
(* What waits.  The rows on disk, and those of the command at work, are of *)
(* imports that are not given up and of records in their waiting files;    *)
(* and what each record lacks is not held, but between the append of what  *)
(* an import or an accept brings and the end of promoting.                 *)
(***************************************************************************)
Lacks(held, r, f) == ~(Names[r] \subseteq Provided(held \ Imports)
                                             \ Provided(Logged(f) \ held))

Settled == \A r \in Content, n \in Imports : rows[r] = n =>
               /\ batches[n] \notin {None, "discarded"} /\ r \in Logged(waiting[n])
               /\ Lacks(catalog.held, r, waiting[n])

(* The waiting file of an import as the command is about to leave it.      *)
Aside(c, n) == IF n = On(c) /\ Takes(c) /\ pc[c] \in Fetching \cup {"staging", "waiting"}
               THEN work[c].cls.waiting ELSE waiting[n]

Arriving(c) == /\ Doing(c, {"import", "accept"})
               /\ pc[c] \in {"waiting", "apart", "unstage"} \cup Promoting

Rowed(c) == \A r \in Content, n \in Imports : work[c].tables.rows[r] = n =>
               /\ work[c].tables.batches[n] \notin {None, "discarded"}
               /\ r \in Logged(Aside(c, n))
               /\ Arriving(c) \/ Lacks(catalog.held, r, Aside(c, n))

Settling(c) ==
    Busy(c) => /\ Rowed(c)
               /\ pc[c] = "rows" => batches = work[c].tables.batches
               /\ pc[c] \in {"unstage", "unwait"} /\ Doing(c, {"discard"}) =>
                     \A r \in Content : work[c].tables.rows[r] # On(c)

Knowing(c) == pc[c] # "idle" => alone[c] /\ snap[c].held = catalog.held

WaitInv == troubles = 0 =>
             /\ \A c \in Commands : Knowing(c) /\ Settling(c)
             /\ (\A c \in Commands : ~Busy(c)) => Settled

LEMMA SettledWaits == ImportInv /\ WaitInv => WaitsForMissing
  <1> SUFFICES ASSUME ImportInv, WaitInv, Clean, NEW r \in Content, rows[r] # None
               PROVE  Lacks(catalog.held, r, waiting[rows[r]])
    BY DEF WaitsForMissing, Lacks
  <1>1. \A c \in Commands : ~Busy(c)
    BY DEF Clean, Quiet, Busy, Fetches, Fetching, Writing
  <1> QED
    BY <1>1 DEF WaitInv, Settled, Clean, ImportInv, ImportShape

(* One command is at work. *)
LEMMA OneAtWork ==
    ASSUME ImportInv, NEW c \in Commands, pc[c] # "idle", Knowing(c)
    PROVE  \A d \in Commands \ {c} : pc[d] = "idle"
  BY DEF ImportInv, Sound, Alone, Knowing

(* What there is to show of a step of the command at work.                 *)
LEMMA OneWaits ==
    ASSUME ImportInv, ImportInv', NEW c \in Commands, pc[c] # "idle", Knowing(c),
           \A d \in Commands \ {c} : pc'[d] = pc[d],
           Knowing(c)', Settling(c)', Busy(c)' \/ Settled'
    PROVE  WaitInv'
  <1>1. ASSUME NEW d \in Commands \ {c} PROVE Knowing(d)' /\ Settling(d)' /\ ~Busy(d)'
    <2>1. pc'[d] = "idle"
      BY OneAtWork
    <2> QED
      BY <2>1 DEF Knowing, Settling, Busy, Fetches, Fetching, Writing
  <1> QED
    BY <1>1 DEF WaitInv

-----------------------------------------------------------------------------
LEMMA LibStepWaits ==
    ASSUME ImportInv, ImportInv', WaitInv, troubles = 0, NEW c \in Commands, LibStep(c),
           UNCHANGED impvars, UNCHANGED troubles
    PROVE  WaitInv'
  <1> USE DEF ImportInv, ImportShape
  <1>1. pc[c] # "idle" /\ pc' = [pc EXCEPT ![c] = pc'[c]]
    BY DEF LibStep, Unlink, Enforced, Looked, Acquire, AcquireRefused, Finish, BeginAdd,
       AppendRefused, PutHeld, PutTemp, PutRename, Unchanged, Adding, AddManifest, Redact,
       RedactDone, Step, Goto, Exit, LetGo, LibShape
  <1>2. catalog'.held = catalog.held
    BY DEF LibStep, Unlink, Enforced, Looked, Acquire, AcquireRefused, Finish, BeginAdd,
       AppendRefused, PutHeld, PutTemp, PutRename, Unchanged, AddManifest, Redact,
       RedactDone, Record, LetGo
  <1>3. Knowing(c)'
    <2>1. CASE AddManifest(c) \/ Redact(c)
      BY <1>1, <2>1 DEF AddManifest, Redact, Record, Knowing, WaitInv, LibShape
    <2>2. CASE UNCHANGED <<snap, alone, catalog>>
      BY <1>1, <2>2 DEF Knowing, WaitInv
    <2>3. CASE pc'[c] = "idle"
      BY <2>3 DEF Knowing
    <2> QED
      BY <2>1, <2>2, <2>3 DEF LibStep, Unlink, Enforced, Looked, Acquire, AcquireRefused,
         Finish, BeginAdd, AppendRefused, PutHeld, PutTemp, PutRename, Unchanged,
         RedactDone, LetGo, Exit, Goto, LibShape
  <1>5. CASE Busy(c)
    <2>1. PutHeld(c) \/ PutTemp(c) \/ PutRename(c)
      BY <1>5 DEF LibStep, Unlink, Enforced, Looked, Acquire, AcquireRefused, Finish,
         BeginAdd, AppendRefused, Unchanged, Adding, AddManifest, Redact, RedactDone,
         Step, Busy, Fetches, Fetching, Writing, Doing, Is
    <2>2. /\ pc[c] \in Fetching /\ pc'[c] \in Fetching /\ UNCHANGED <<op, catalog>>
          /\ Fetches(c)
      BY <1>5, <2>1 DEF PutHeld, PutTemp, PutRename, Step, Goto, Fetching, LibShape,
         Busy, Writing
    <2>3. Busy(c)'
      BY <2>2 DEF Busy, Fetches, Doing
    <2>4. \A n : Aside(c, n)' = Aside(c, n)
      BY <2>2 DEF Aside, Takes, Doing, On, impvars
    <2>5. Rowed(c)'
      BY <1>2, <1>5, <2>2, <2>4 DEF WaitInv, Settling, Rowed, Logged, Arriving, impvars,
         Fetching, Promoting
    <2>6. Settling(c)'
      BY <2>2, <2>5 DEF Settling, Fetching
    <2> QED
      BY <1>1, <1>3, <2>3, <2>6, OneWaits DEF WaitInv, LibShape
  <1>6. CASE ~Busy(c)
    <2>1. ~Busy(c)'
      BY <1>6 DEF LibStep, Unlink, Enforced, Looked, Acquire, AcquireRefused, Finish,
         BeginAdd, AppendRefused, PutHeld, PutTemp, PutRename, Unchanged, AddManifest,
         Redact, RedactDone, Step, Goto, Exit, LetGo, LibShape, Busy, Fetches, Fetching,
         Writing, Doing, Is
    <2>2. Settled
      <3>1. \A d \in Commands : ~Busy(d)
        BY <1>1, <1>6, OneAtWork DEF WaitInv, Busy, Fetches, Fetching, Writing
      <3> QED
        BY <3>1 DEF WaitInv
    <2>3. Settled'
      BY <1>2, <2>2 DEF Settled, Logged, impvars
    <2>4. Settling(c)'
      BY <2>1 DEF Settling
    <2> QED
      BY <1>1, <1>3, <2>3, <2>4, OneWaits DEF WaitInv, LibShape
  <1> QED
    BY <1>5, <1>6

LEMMA StartWaits ==
    ASSUME ImportInv, WaitInv, troubles = 0, troubles' = 0, NEW c \in Commands,
           NEW task \in TextTasks \cup ImportTasks, Start(c, task)
    PROVE  WaitInv'
  <1> USE DEF ImportInv, ImportShape
  <1>1. Open(c, task) /\ UNCHANGED impvars /\ Live = {}
    BY DEF Start, Trouble
  <1>2. /\ \A d \in Commands : pc[d] = "idle" /\ pc'[d] = IF d = c THEN "enforce" ELSE "idle"
        /\ alone'[c] = TRUE /\ snap'[c] = catalog /\ UNCHANGED catalog
    BY <1>1 DEF Open, Step, Goto, Live, LibShape
  <1>3. \A d \in Commands : ~Busy(d) /\ ~Busy(d)'
    BY <1>2 DEF Busy, Fetches, Fetching, Writing
  <1>4. Settled'
    <2>1. Settled
      BY <1>3 DEF WaitInv
    <2> QED
      BY <1>1, <1>2, <2>1 DEF Settled, Logged, impvars
  <1>5. \A d \in Commands : Knowing(d)' /\ Settling(d)'
    BY <1>2, <1>3 DEF Knowing, Settling
  <1> QED
    BY <1>4, <1>5 DEF WaitInv

LEMMA RestWaits ==
    ASSUME WaitInv, UNCHANGED <<catalog, pc, op, snap, alone, impvars, troubles>>
    PROVE  WaitInv'
  <1>1. \A d \in Commands : (Busy(d)' <=> Busy(d)) /\ (Takes(d)' <=> Takes(d))
                         /\ (Arriving(d)' <=> Arriving(d)) /\ On(d)' = On(d)
    BY DEF Busy, Fetches, Takes, Arriving, Doing, On
  <1>2. \A d \in Commands : \A n : Aside(d, n)' = Aside(d, n)
    BY <1>1 DEF Aside, impvars
  <1>4. \A d \in Commands : Rowed(d) => Rowed(d)'
    BY <1>1, <1>2 DEF Rowed, Logged, impvars
  <1>5. Settled => Settled'
    BY DEF Settled, Logged, impvars
  <1>6. \A d \in Commands : Settling(d) => Settling(d)'
    BY <1>1, <1>4 DEF Settling, impvars, Doing
  <1>7. \A d \in Commands : Knowing(d) => Knowing(d)'
    BY DEF Knowing
  <1> QED
    BY <1>1, <1>5, <1>6, <1>7 DEF WaitInv

-----------------------------------------------------------------------------
(* The command at work knows what is held. *)
LEMMA KnowingStays ==
    ASSUME ImportInv, NEW c \in Commands, Knowing(c), pc[c] # "idle",
           \/ pc'[c] = "idle"
           \/ /\ UNCHANGED alone
              /\ UNCHANGED <<catalog, snap>>
                 \/ \E held \in SUBSET Content : Record(c, {}, {}, held)
    PROVE  Knowing(c)'
  <1>1. CASE \E held \in SUBSET Content : Record(c, {}, {}, held) /\ UNCHANGED alone
    <2>1. PICK held \in SUBSET Content : Record(c, {}, {}, held) /\ UNCHANGED alone
      BY <1>1
    <2>2. /\ snap'[c].held = snap[c].held \cup held
          /\ catalog'.held = catalog.held \cup held
      BY <2>1, ImportRecords DEF ImportInv, ImportShape
    <2> QED
      BY <2>1, <2>2 DEF Knowing
  <1> QED
    BY <1>1 DEF Knowing

LEMMA SettledNow ==
    ASSUME ImportInv, WaitInv, troubles = 0, NEW c \in Commands, pc[c] # "idle", ~Busy(c)
    PROVE  Settled
  <1>1. \A d \in Commands : ~Busy(d)
    BY OneAtWork DEF WaitInv, Busy, Fetches, Fetching, Writing
  <1> QED
    BY <1>1 DEF WaitInv

(* Nothing is added to the rows, nor taken from what waits.                *)
LEMMA RowedStays ==
    ASSUME NEW c \in Commands, Rowed(c),
           work'[c].tables = work[c].tables,
           \A n \in Imports : Aside(c, n) # {} => Aside(c, n)' = Aside(c, n),
           Arriving(c)' \/ (~Arriving(c) /\ catalog'.held = catalog.held)
    PROVE  Rowed(c)'
  BY DEF Rowed, Logged

LEMMA RefusedWaits ==
    ASSUME ImportInv, ImportInv', WaitInv, troubles = 0, NEW c \in Commands,
           ImportRefused(c) \/ NotStaged(c), UNCHANGED troubles
    PROVE  WaitInv'
  <1> USE DEF ImportInv, ImportShape
  <1>1. /\ pc[c] = "locked" /\ pc' = [pc EXCEPT ![c] = "idle"]
        /\ UNCHANGED <<catalog, impvars>> /\ Knowing(c)
    BY DEF ImportRefused, NotStaged, LetGo, Exit, Goto, WaitInv
  <1>2. ~Busy(c) /\ ~Busy(c)' /\ pc'[c] = "idle"
    BY <1>1 DEF Busy, Fetches, Fetching, Writing, LibShape
  <1>3. Settled'
    <2>1. Settled
      BY <1>1, <1>2, SettledNow
    <2> QED
      BY <1>1, <2>1 DEF Settled, Logged, impvars
  <1>4. Knowing(c)' /\ Settling(c)'
    BY <1>2 DEF Knowing, Settling
  <1> QED
    BY <1>1, <1>3, <1>4, OneWaits DEF LibShape

LEMMA BeginImportWaits ==
    ASSUME ImportInv, ImportInv', WaitInv, troubles = 0, NEW c \in Commands,
           BeginImport(c), UNCHANGED troubles
    PROVE  WaitInv'
  <1> USE DEF ImportInv, ImportShape
  <1> DEFINE n   == On(c)
             in  == Incoming(c, n)
             k   == Classes(snap[c], {}, Logged(in))
             cls == WithText(k, Texts(in))
             bat == [batches EXCEPT ![n] = IF op[c].do = "import" THEN "accepted"
                                           ELSE "staged"]
             row == [r \in Content |-> IF r \in cls.waiting THEN n ELSE rows[r]]
             t   == [batches |-> bat, rows |-> row]
             w   == [cls |-> cls, move |-> None, tables |-> t]
  <1>1. /\ pc[c] = "locked" /\ Takes(c) /\ batches[n] = None
        /\ pc' = [pc EXCEPT ![c] = "put"] /\ UNCHANGED <<op, alone>>
        /\ work' = [work EXCEPT ![c] = w]
        /\ UNCHANGED <<catalog, snap, staged, waiting, batches, rows>>
    BY DEF BeginImport, Takes, MayImport, Working, Step, Goto
  <1>2. n \in Imports
    BY <1>1, OnImport DEF Takes, Doing, ImportOps
  <1>3. Knowing(c) /\ ~Busy(c) /\ Settled /\ pc[c] # "idle"
    BY <1>1, SettledNow DEF WaitInv, Busy, Fetches, Fetching, Writing
  <1>4. in \subseteq File[n] /\ in \cap catalog.held = {}
    BY <1>1, <1>3 DEF Incoming, TakenIn, Knowing
  <1>5. IsFiniteSet(Logged(in))
    <2>1. IsFiniteSet(File[n])
      BY <1>2, ImportShapes
    <2> QED
      BY <1>4, <2>1, FS_Subset DEF Logged
  <1>6. cls.waiting = k.waiting
    BY DEF WithText, Classes, ClassifyAll
  <1>7. k.waiting \subseteq Logged(in)
    <2> DEFINE extra == PartsOf(snap[c]) \cup {}
               incoming == Logged(in)
    <2> HIDE DEF incoming, extra
    <2>1. LET j == ClassifyAll(snap[c].held, extra, incoming)
          IN  incoming = j.accepted \cup j.waiting \cup j.quarantined
      BY <1>5, ClassesShare DEF incoming
    <2> QED
      BY <2>1 DEF Classes, incoming, extra
  <1>8. \A r \in k.waiting : ~(Names[r] \subseteq Provided(catalog.held) \ Provided(k.waiting))
    <2> DEFINE extra == PartsOf(snap[c]) \cup {}
               incoming == Logged(in)
    <2>1. snap[c].held = catalog.held
      BY <1>1, <1>3 DEF Knowing
    <2>2. k = ClassifyAll(catalog.held, extra, incoming)
      BY <2>1 DEF Classes
    <2>3. IsFiniteSet(incoming)
      BY <1>5
    <2> HIDE DEF incoming, extra, k
    <2> QED
      BY <2>2, <2>3, ClassesLack
  <1> HIDE DEF in, k, cls
  <1>9. \A r \in cls.waiting : Lacks(catalog.held, r, cls.waiting)
    <2>1. cls.waiting \subseteq Logged(cls.waiting) \ catalog.held
      BY <1>4, <1>6, <1>7 DEF Logged
    <2>2. /\ Provided(cls.waiting) \subseteq Provided(Logged(cls.waiting) \ catalog.held)
          /\ Provided(catalog.held \ Imports) \subseteq Provided(catalog.held)
      BY <2>1 DEF Provided
    <2> QED
      BY <1>6, <1>8, <2>2 DEF Lacks
  <1>10. pc'[c] = "put" /\ work'[c] = w /\ Takes(c)' /\ On(c)' = n
    <2> HIDE DEF w
    <2> QED
      BY <1>1 DEF LibShape, Takes, Doing, On
  <1>11. \A m \in Imports : Aside(c, m)' = IF m = n THEN cls.waiting ELSE waiting[m]
    BY <1>1, <1>10 DEF Aside, Fetching
  <1>12. Rowed(c)'
    <2> SUFFICES ASSUME NEW r \in Content, NEW m \in Imports, row[r] = m
                 PROVE  /\ bat[m] \notin {None, "discarded"}
                        /\ r \in Logged(Aside(c, m)')
                        /\ Lacks(catalog.held, r, Aside(c, m)')
      BY <1>1, <1>10 DEF Rowed, Logged
    <2>1. CASE r \in cls.waiting
      <3>1. m = n /\ bat[n] \in {"accepted", "staged"}
        BY <1>2, <2>1
      <3>2. bat[n] \notin {None, "discarded"}
        BY <3>1, NothingBegun
      <3>3. r \in Logged(cls.waiting)
        BY <1>6, <1>7, <2>1 DEF Logged
      <3> QED
        BY <1>9, <1>11, <2>1, <3>1, <3>2, <3>3
    <2>2. CASE r \notin cls.waiting
      <3>1. rows[r] = m /\ m # n
        BY <1>1, <1>3, <2>2 DEF Settled
      <3>2. Aside(c, m)' = waiting[m] /\ bat[m] = batches[m]
        BY <1>11, <3>1
      <3> QED
        BY <1>3, <3>1, <3>2 DEF Settled
    <2> QED
      BY <2>1, <2>2
  <1>13. Busy(c)' /\ Settling(c)'
    BY <1>10, <1>12 DEF Busy, Fetches, Fetching, Takes, Doing, Settling
  <1>14. Knowing(c)'
    BY <1>1, <1>3, KnowingStays
  <1> QED
    BY <1>1, <1>3, <1>13, <1>14, OneWaits DEF LibShape

LEMMA ImportLogWaits ==
    ASSUME ImportInv, ImportInv', WaitInv, troubles = 0, NEW c \in Commands,
           ImportLog(c), UNCHANGED troubles
    PROVE  WaitInv'
  <1> USE DEF ImportInv, ImportShape
  <1> DEFINE cls == work[c].cls
             H   == {On(c)} \cup IF op[c].do = "import" THEN Logged(cls.accepted) ELSE {}
  <1>1. /\ pc[c] = "put" /\ Takes(c)
        /\ pc' = [pc EXCEPT ![c] = IF op[c].do = "import" THEN "waiting" ELSE "staging"]
        /\ UNCHANGED <<op, alone, staged, waiting, batches, rows, work>>
        /\ Record(c, {}, {}, H)
    BY DEF ImportLog, Takes, Working, Step, Goto, impvars
  <1>2. On(c) \in Imports
    BY <1>1, OnImport DEF Takes, Doing, ImportOps
  <1>3. Fetches(c) /\ Classing(c) /\ Busy(c) /\ Knowing(c)
    BY <1>1 DEF Fetches, Classing, Busy, Takes, Doing, Fetching, WaitInv
  <1>4. work[c].tables \in Tables /\ H \in SUBSET Content
    BY <1>2, <1>3, ImportShapes DEF Sorts, Worked, Works, Sorted, Logged
  <1>5. /\ pc'[c] = IF op[c].do = "import" THEN "waiting" ELSE "staging"
        /\ Takes(c)' /\ On(c)' = On(c)
    BY <1>1 DEF LibShape, Takes, Doing, On
  <1>6. \A m : Aside(c, m)' = Aside(c, m)
    BY <1>1, <1>5 DEF Aside, Fetching
  <1>7. Rowed(c)'
    <2>1. Rowed(c)
      BY <1>3 DEF WaitInv, Settling
    <2>2. CASE op[c].do = "import"
      <3>1. Arriving(c)'
        BY <1>1, <1>5, <2>2 DEF Arriving, Doing, Takes
      <3> QED
        BY <1>1, <1>4, <1>6, <2>1, <3>1, RowedStays
    <2>3. CASE op[c].do # "import"
      <3>1. ~Arriving(c)
        BY <1>1 DEF Arriving, Promoting
      <3>2. catalog'.held = catalog.held \cup {On(c)}
        <4>1. H = {On(c)} /\ pc[c] # "idle"
          BY <1>1, <2>3
        <4> HIDE DEF H
        <4>2. catalog'.held = catalog.held \cup H
          BY <1>1, <1>4, <4>1, ImportRecords
        <4> QED
          BY <4>1, <4>2
      <3>3. \A m \in Imports : Aside(c, m) \subseteq (Content \ Imports) \cup Objects
        <4>1. \A m \in Imports : Aside(c, m) \subseteq File[m]
          BY <1>2, <1>3 DEF Aside, Sorts, Worked, Files
        <4> QED
          BY <4>1, ImportShapes
      <3>4. \A m \in Imports : Logged(Aside(c, m)) \ catalog'.held
                                 = Logged(Aside(c, m)) \ catalog.held
        BY <1>2, <3>2, <3>3 DEF Logged
      <3>5. catalog'.held \ Imports = catalog.held \ Imports
        BY <1>2, <3>2
      <3>6. \A r \in Content, m \in Imports : Lacks(catalog.held, r, Aside(c, m))
                               => Lacks(catalog'.held, r, Aside(c, m))
        BY <3>4, <3>5 DEF Lacks
      <3> QED
        BY <1>1, <1>6, <2>1, <3>1, <3>6 DEF Rowed, Logged
    <2> QED
      BY <2>2, <2>3
  <1>8. Busy(c)' /\ Settling(c)'
    BY <1>5, <1>7 DEF Busy, Writing, Settling
  <1>9. Knowing(c)'
    BY <1>1, <1>3, <1>4, KnowingStays
  <1> QED
    BY <1>1, <1>3, <1>8, <1>9, OneWaits DEF LibShape

LEMMA FilingWaits ==
    ASSUME ImportInv, ImportInv', WaitInv, troubles = 0, NEW c \in Commands,
           WriteStaged(c) \/ WriteWaiting(c) \/ WriteQuarantine(c), UNCHANGED troubles
    PROVE  WaitInv'
  <1> USE DEF ImportInv, ImportShape
  <1>1. /\ pc[c] \in Filing /\ pc' = [pc EXCEPT ![c] = pc'[c]]
        /\ pc'[c] \in {"waiting", "apart", "promote", "save"}
        /\ UNCHANGED <<op, alone, catalog, snap, work, batches, rows>>
    BY DEF WriteStaged, WriteWaiting, WriteQuarantine, Filing, Working, Step, Goto, LibShape
  <1>2. Takes(c) /\ Takes(c)' /\ On(c)' = On(c)
    BY <1>1 DEF Placed, Filing, Takes, Doing, On
  <1>3. Busy(c) /\ Busy(c)' /\ Knowing(c)
    BY <1>1 DEF Busy, Writing, Filing, WaitInv
  <1>4. \A m \in Imports : Aside(c, m) # {} => Aside(c, m)' = Aside(c, m)
    <2>1. CASE WriteStaged(c)
      BY <1>1, <1>2, <2>1 DEF WriteStaged, Working, Step, Goto, Aside, LibShape
    <2>2. CASE WriteWaiting(c)
      <3>1. pc[c] = "waiting" /\ pc'[c] = "apart"
        BY <2>2 DEF WriteWaiting, Working, Step, Goto, LibShape
      <3>2. waiting' = [waiting EXCEPT ![On(c)] = IF work[c].cls.waiting = {} THEN @
                                                  ELSE work[c].cls.waiting]
        BY <2>2 DEF WriteWaiting
      <3>3. \A m \in Imports : Aside(c, m) = IF m = On(c) THEN work[c].cls.waiting
                                             ELSE waiting[m]
        BY <1>2, <3>1 DEF Aside
      <3>4. \A m \in Imports : Aside(c, m)' = waiting'[m]
        BY <3>1 DEF Aside, Fetching
      <3> QED
        BY <3>2, <3>3, <3>4 DEF Files
    <2>3. CASE WriteQuarantine(c)
      BY <1>1, <1>2, <2>3 DEF WriteQuarantine, Working, Step, Goto, Aside, LibShape,
         Fetching
    <2> QED
      BY <2>1, <2>2, <2>3
  <1>5. Arriving(c)' \/ ~Arriving(c)
    <2>1. Doing(c, {"import"}) => pc[c] # "staging" /\ pc'[c] # "save"
      BY <1>1 DEF WriteStaged, WriteWaiting, WriteQuarantine, Working, Step, Goto,
         LibShape, Doing, Placed
    <2>2. Arriving(c) => Doing(c, {"import"}) /\ Doing(c, {"import"})'
      BY <1>1, <1>2 DEF Arriving, Takes, Doing
    <2> QED
      BY <1>1, <2>1, <2>2 DEF Arriving, Doing, Promoting
  <1>6. Rowed(c)'
    BY <1>1, <1>3, <1>4, <1>5, RowedStays DEF WaitInv, Settling
  <1>7. Settling(c)'
    BY <1>1, <1>6 DEF Settling
  <1>8. Knowing(c)'
    BY <1>1, <1>3, KnowingStays DEF Filing
  <1> QED
    BY <1>1, <1>3, <1>7, <1>8, OneWaits DEF LibShape, Filing

LEMMA BeginAcceptWaits ==
    ASSUME ImportInv, ImportInv', WaitInv, troubles = 0, NEW c \in Commands,
           BeginAccept(c), UNCHANGED troubles
    PROVE  WaitInv'
  <1> USE DEF ImportInv, ImportShape
  <1> DEFINE t == [OnDisk EXCEPT !.batches[On(c)] = "accepted"]
             w == [cls |-> [accepted |-> staged[On(c)], waiting |-> {}, quarantined |-> {}],
                   move |-> None, tables |-> t]
  <1>1. /\ pc[c] = "locked" /\ Doing(c, {"accept"})
        /\ pc' = [pc EXCEPT ![c] = "put"] /\ UNCHANGED <<op, alone>>
        /\ work' = [work EXCEPT ![c] = w]
        /\ UNCHANGED <<catalog, snap, waiting, batches, rows>>
    BY DEF BeginAccept, Working, Step, Goto
  <1>2. Knowing(c) /\ ~Busy(c) /\ Settled
    BY <1>1, SettledNow DEF WaitInv, Busy, Fetches, Fetching, Writing
  <1>3. /\ t.rows = rows
        /\ \A m \in Imports : t.batches[m] = IF m = On(c) THEN "accepted" ELSE batches[m]
    BY DEF OnDisk
  <1> HIDE DEF t
  <1>4. pc'[c] = "put" /\ work'[c].tables = t /\ Doing(c, {"accept"})'
    BY <1>1 DEF LibShape, Doing
  <1>5. \A m \in Imports : Aside(c, m)' = waiting[m]
    BY <1>1, <1>4 DEF Aside, Takes, Doing
  <1>6. Rowed(c)'
    BY <1>1, <1>2, <1>3, <1>4, <1>5, NothingBegun DEF Rowed, Settled, Logged
  <1>7. Busy(c)' /\ Settling(c)'
    BY <1>4, <1>6 DEF Busy, Fetches, Fetching, Doing, Settling
  <1>8. Knowing(c)'
    BY <1>1, <1>2, KnowingStays
  <1> QED
    BY <1>1, <1>2, <1>7, <1>8, OneWaits DEF LibShape

LEMMA AcceptLogWaits ==
    ASSUME ImportInv, ImportInv', WaitInv, troubles = 0, NEW c \in Commands,
           AcceptLog(c), UNCHANGED troubles
    PROVE  WaitInv'
  <1> USE DEF ImportInv, ImportShape
  <1> DEFINE H == Logged(work[c].cls.accepted)
  <1>1. /\ pc[c] = "put" /\ Doing(c, {"accept"})
        /\ pc' = [pc EXCEPT ![c] = "unstage"]
        /\ UNCHANGED <<op, alone, waiting, batches, rows, work>>
        /\ Record(c, {}, {}, H)
    BY DEF AcceptLog, Working, Step, Goto, impvars
  <1>2. Fetches(c) /\ Classing(c) /\ Busy(c) /\ Knowing(c)
    BY <1>1 DEF Fetches, Classing, Busy, Doing, Fetching, WaitInv
  <1>3. H \in SUBSET Content
    BY <1>2 DEF Sorts, Worked, Sorted, Logged
  <1>4. pc'[c] = "unstage" /\ Doing(c, {"accept"})' /\ On(c)' = On(c)
    BY <1>1 DEF LibShape, Doing, On
  <1>5. \A m \in Imports : Aside(c, m)' = Aside(c, m)
    BY <1>1, <1>4 DEF Aside, Fetching, Takes, Doing
  <1>6. Rowed(c)'
    <2>1. Arriving(c)'
      BY <1>4 DEF Arriving, Doing
    <2> QED
      BY <1>1, <1>2, <1>5, <2>1, RowedStays DEF WaitInv, Settling
  <1>7. Busy(c)' /\ Settling(c)'
    BY <1>4, <1>6 DEF Busy, Writing, Settling, Doing
  <1>8. Knowing(c)'
    <2> HIDE DEF H
    <2> QED
      BY <1>1, <1>2, <1>3, KnowingStays
  <1> QED
    BY <1>1, <1>2, <1>7, <1>8, OneWaits DEF LibShape

LEMMA UnstageWaits ==
    ASSUME ImportInv, ImportInv', WaitInv, troubles = 0, NEW c \in Commands,
           Unstage(c), UNCHANGED troubles
    PROVE  WaitInv'
  <1> USE DEF ImportInv, ImportShape
  <1>1. /\ pc[c] = "unstage"
        /\ pc' = [pc EXCEPT ![c] = IF op[c].do = "accept" THEN "promote" ELSE "unwait"]
        /\ UNCHANGED <<op, alone, catalog, snap, waiting, batches, rows, work>>
    BY DEF Unstage, Working, Step, Goto
  <1>2. Busy(c) /\ Knowing(c) /\ Doing(c, {"accept", "discard"})
    BY <1>1 DEF Busy, Writing, WaitInv, Placed
  <1>3. /\ pc'[c] = IF op[c].do = "accept" THEN "promote" ELSE "unwait"
        /\ On(c)' = On(c) /\ ~Takes(c)' /\ ~Takes(c)
    BY <1>1, <1>2 DEF LibShape, Doing, On, Takes
  <1>4. \A m \in Imports : Aside(c, m)' = Aside(c, m)
    BY <1>1, <1>3 DEF Aside
  <1>5. Rowed(c)'
    <2>1. Arriving(c)' \/ ~Arriving(c)
      BY <1>1, <1>2, <1>3 DEF Arriving, Doing, Promoting
    <2> QED
      BY <1>1, <1>2, <1>4, <2>1, RowedStays DEF WaitInv, Settling
  <1>6. Busy(c)' /\ Settling(c)'
    BY <1>1, <1>2, <1>3, <1>5 DEF Busy, Writing, Settling, Doing, WaitInv
  <1>7. Knowing(c)'
    BY <1>1, <1>2, KnowingStays
  <1> QED
    BY <1>1, <1>2, <1>6, <1>7, OneWaits DEF LibShape

LEMMA BeginDiscardWaits ==
    ASSUME ImportInv, ImportInv', WaitInv, troubles = 0, NEW c \in Commands,
           BeginDiscard(c), UNCHANGED troubles
    PROVE  WaitInv'
  <1> USE DEF ImportInv, ImportShape
  <1> DEFINE bat == [batches EXCEPT ![On(c)] = "discarded"]
             row == [r \in Content |-> IF rows[r] = On(c) THEN None ELSE rows[r]]
             t   == [batches |-> bat, rows |-> row]
             w   == [cls |-> None, move |-> None, tables |-> t]
  <1>1. /\ pc[c] = "locked" /\ Doing(c, {"discard"})
        /\ pc' = [pc EXCEPT ![c] = "unstage"] /\ UNCHANGED <<op, alone>>
        /\ work' = [work EXCEPT ![c] = w]
        /\ UNCHANGED <<catalog, snap, waiting, batches, rows>>
    BY DEF BeginDiscard, Working, Step, Goto
  <1>2. Knowing(c) /\ ~Busy(c) /\ Settled
    BY <1>1, SettledNow DEF WaitInv, Busy, Fetches, Fetching, Writing
  <1>3. On(c) \in Imports /\ On(c) # None
    BY <1>1, OnImport, NothingBegun DEF Doing, ImportOps
  <1>4. pc'[c] = "unstage" /\ work'[c] = w /\ Doing(c, {"discard"})' /\ On(c)' = On(c)
    <2> HIDE DEF w
    <2> QED
      BY <1>1 DEF LibShape, Doing, On
  <1>5. \A m \in Imports : Aside(c, m)' = waiting[m]
    BY <1>1, <1>4 DEF Aside, Takes, Doing
  <1>6. \A r \in Content : row[r] # On(c)
    BY <1>3
  <1>7. \A r \in Content, m \in Imports : row[r] = m =>
           m # On(c) /\ rows[r] = m /\ bat[m] = batches[m]
    <2>1. \A m \in Imports \ {On(c)} : bat[m] = batches[m]
      OBVIOUS
    <2>2. \A r \in Content : row[r] # None => row[r] = rows[r]
      OBVIOUS
    <2> HIDE DEF row, bat
    <2> QED
      BY <1>6, <2>1, <2>2, NothingBegun
  <1> HIDE DEF row, bat
  <1>8. work'[c].tables.rows = row /\ work'[c].tables.batches = bat
    BY <1>4
  <1>9. Rowed(c)'
    BY <1>1, <1>2, <1>5, <1>7, <1>8 DEF Rowed, Settled, Logged
  <1>10. Busy(c)' /\ Settling(c)'
    BY <1>4, <1>6, <1>8, <1>9 DEF Busy, Writing, Settling
  <1>11. Knowing(c)'
    BY <1>1, <1>2, KnowingStays
  <1> QED
    BY <1>1, <1>2, <1>10, <1>11, OneWaits DEF LibShape

LEMMA UnwaitWaits ==
    ASSUME ImportInv, ImportInv', WaitInv, troubles = 0, NEW c \in Commands,
           Unwait(c), UNCHANGED troubles
    PROVE  WaitInv'
  <1> USE DEF ImportInv, ImportShape
  <1>1. /\ pc[c] = "unwait" /\ pc' = [pc EXCEPT ![c] = "save"]
        /\ waiting' = [waiting EXCEPT ![On(c)] = {}]
        /\ UNCHANGED <<op, alone, catalog, snap, batches, rows, work>>
    BY DEF Unwait, Working, Step, Goto
  <1>2. Busy(c) /\ Knowing(c) /\ Doing(c, {"discard"})
    BY <1>1 DEF Busy, Writing, WaitInv, Placed
  <1>3. pc'[c] = "save" /\ On(c)' = On(c)
    BY <1>1 DEF LibShape, On
  <1>4. \A m \in Imports : m # On(c) => Aside(c, m)' = Aside(c, m)
    BY <1>1, <1>3 DEF Aside, Files
  <1>5. \A r \in Content : work[c].tables.rows[r] # On(c)
    BY <1>1, <1>2 DEF WaitInv, Settling
  <1>6. ~Arriving(c)
    BY <1>1 DEF Arriving, Promoting
  <1>7. Rowed(c)'
    BY <1>1, <1>2, <1>4, <1>5, <1>6 DEF WaitInv, Settling, Rowed, Logged
  <1>8. Busy(c)' /\ Settling(c)'
    BY <1>3, <1>7 DEF Busy, Writing, Settling
  <1>9. Knowing(c)'
    BY <1>1, <1>2, KnowingStays
  <1> QED
    BY <1>1, <1>2, <1>8, <1>9, OneWaits DEF LibShape

LEMMA PromoteWaits ==
    ASSUME ImportInv, ImportInv', WaitInv, troubles = 0, NEW c \in Commands,
           Promote(c) \/ SetApart(c), UNCHANGED troubles
    PROVE  WaitInv'
  <1> USE DEF ImportInv, ImportShape
  <1>1. /\ pc[c] \in {"promote", "moved"} /\ pc'[c] \in {"moved", "shorten"}
        /\ pc' = [pc EXCEPT ![c] = pc'[c]]
        /\ UNCHANGED <<op, alone, waiting, batches, rows>>
    BY DEF Promote, SetApart, Working, Step, Goto, LibShape
  <1>2. Busy(c) /\ Knowing(c) /\ Doing(c, {"import", "accept"}) /\ work[c] \in Works
    BY <1>1 DEF Busy, Writing, WaitInv, Placed, Promoting, Sorts, Worked
  <1>3. work'[c].tables = work[c].tables
    BY <1>2 DEF Promote, SetApart, Works
  <1>4. \A m \in Imports : Aside(c, m)' = Aside(c, m)
    BY <1>1 DEF Aside, Fetching
  <1>5. Rowed(c)'
    <2>1. Arriving(c)'
      BY <1>1, <1>2 DEF Arriving, Doing, Promoting
    <2> QED
      BY <1>2, <1>3, <1>4, <2>1, RowedStays DEF WaitInv, Settling
  <1>6. Busy(c)' /\ Settling(c)'
    BY <1>1, <1>5 DEF Busy, Writing, Settling
  <1>7. Knowing(c)'
    <2>1. CASE SetApart(c)
      BY <1>1, <1>2, <2>1, KnowingStays DEF SetApart
    <2>2. CASE Promote(c)
      <3>1. PICK n \in Imports :
               /\ pc[c] = "promote"
               /\ Record(c, {}, {}, IF work[c].tables.batches[n] = "accepted"
                                    THEN Move(c, n).accepted ELSE {})
        BY <2>2 DEF Promote
      <3>2. Move(c, n).accepted \subseteq Content
        BY <3>1, MoveMoves DEF Moves
      <3> QED
        BY <1>1, <1>2, <3>1, <3>2, KnowingStays
    <2> QED
      BY <2>1, <2>2
  <1> QED
    BY <1>1, <1>2, <1>6, <1>7, OneWaits DEF LibShape

LEMMA ShortenWaits ==
    ASSUME ImportInv, ImportInv', WaitInv, troubles = 0, NEW c \in Commands,
           Shorten(c), UNCHANGED troubles
    PROVE  WaitInv'
  <1> USE DEF ImportInv, ImportShape
  <1> DEFINE m   == work[c].move
             t   == work[c].tables
             row == [r \in Content |-> IF r \in m.gone THEN None ELSE t.rows[r]]
  <1>1. /\ pc[c] = "shorten" /\ pc' = [pc EXCEPT ![c] = "promote"]
        /\ waiting' = [waiting EXCEPT ![m.of] = @ \ m.gone]
        /\ UNCHANGED <<op, alone, catalog, snap, batches, rows>>
    BY DEF Shorten, Working, Step, Goto
  <1>2. /\ Busy(c) /\ Knowing(c) /\ Doing(c, {"import", "accept"}) /\ work[c] \in Works
        /\ m \in Moves
    BY <1>1 DEF Busy, Writing, WaitInv, Placed, Promoting, Sorts, Worked
  <1>3. work'[c].tables.batches = t.batches /\ work'[c].tables.rows = row
    BY <1>2 DEF Shorten, Works, Tables
  <1>4. pc'[c] = "promote" /\ Doing(c, {"import", "accept"})'
    BY <1>1, <1>2 DEF LibShape, Doing
  <1>5. \A n \in Imports : Aside(c, n) = waiting[n] /\ Aside(c, n)' = waiting'[n]
    BY <1>1, <1>4 DEF Aside, Fetching
  <1>6. \A r \in Content, n \in Imports : row[r] = n => t.rows[r] = n /\ r \notin m.gone
    BY NothingBegun
  <1>7. \A n \in Imports : waiting'[n] = IF n = m.of THEN waiting[n] \ m.gone ELSE waiting[n]
    BY <1>1 DEF Files
  <1>8. Rowed(c)
    BY <1>2 DEF WaitInv, Settling
  <1> HIDE DEF row, m, t
  <1>9. Rowed(c)'
    <2>1. Arriving(c)'
      BY <1>4 DEF Arriving, Promoting
    <2>2. ASSUME NEW r \in Content, NEW n \in Imports, row[r] = n
          PROVE  t.batches[n] \notin {None, "discarded"} /\ r \in Logged(waiting'[n])
      <3>1. t.rows[r] = n /\ r \notin m.gone
        BY <1>6, <2>2
      <3>2. t.batches[n] \notin {None, "discarded"} /\ r \in Logged(waiting[n])
        BY <1>5, <1>8, <3>1 DEF Rowed, t
      <3> QED
        BY <1>7, <3>1, <3>2 DEF Logged
    <2> QED
      BY <1>3, <1>5, <2>1, <2>2 DEF Rowed, Logged
  <1>10. Busy(c)' /\ Settling(c)'
    BY <1>4, <1>9 DEF Busy, Writing, Settling
  <1>11. Knowing(c)'
    BY <1>1, <1>2, KnowingStays
  <1> QED
    BY <1>1, <1>2, <1>10, <1>11, OneWaits DEF LibShape

(* What no round of promoting moves lacks something. *)
LEMMA PromotedWaits ==
    ASSUME ImportInv, ImportInv', WaitInv, troubles = 0, NEW c \in Commands,
           Promoted(c), UNCHANGED troubles
    PROVE  WaitInv'
  <1> USE DEF ImportInv, ImportShape
  <1>1. /\ pc[c] = "promote" /\ pc' = [pc EXCEPT ![c] = "save"]
        /\ \A n \in Imports : ~Movable(c, n)
        /\ UNCHANGED <<op, alone, catalog, snap, waiting, batches, rows, work>>
    BY DEF Promoted, Working, Step, Goto, impvars
  <1>2. Busy(c) /\ Knowing(c) /\ Rowed(c)
    BY <1>1 DEF Busy, Writing, WaitInv, Settling
  <1>3. pc'[c] = "save"
    BY <1>1 DEF LibShape
  <1>4. \A n \in Imports : Aside(c, n) = waiting[n] /\ Aside(c, n)' = waiting[n]
    BY <1>1, <1>3 DEF Aside, Fetching
  <1>5. ASSUME NEW n \in Imports, work[c].tables.batches[n] \notin {None, "discarded"},
               NEW r \in Content, work[c].tables.rows[r] = n,
               r \in Logged(waiting[n])
        PROVE  Lacks(catalog.held, r, waiting[n])
    <2> DEFINE t     == work[c].tables
               mine  == {p \in Logged(waiting[n]) : t.rows[p] = n}
               held  == mine \cap snap[c].held
               in    == mine \ held
               extra == PartsOf(snap[c]) \cup
                           IF t.batches[n] = "staged" THEN Provided(Logged(staged[n])) ELSE {}
               cls   == ClassifyAll(catalog.held, extra, in)
    <2>1. snap[c].held = catalog.held
      BY <1>1, <1>2 DEF Knowing
    <2>2. Move(c, n).gone = cls.accepted \cup cls.quarantined \cup held
      BY <2>1 DEF Move, Classes
    <2>3. Move(c, n).gone = {}
      BY <1>1, <1>5 DEF Movable
    <2>4. r \in mine
      BY <1>5
    <2>5. IsFiniteSet(in)
      <3>1. in \subseteq File[n] /\ IsFiniteSet(File[n])
        BY ImportShapes DEF Files, Logged
      <3> QED
        BY <3>1, FS_Subset
    <2>6. mine \subseteq Logged(waiting[n]) /\ held = mine \cap catalog.held
      BY <2>1
    <2> HIDE DEF extra, cls, mine
    <2>7. held = {} /\ cls.accepted = {} /\ cls.quarantined = {}
      BY <2>2, <2>3
    <2> HIDE DEF held
    <2>8. in = cls.accepted \cup cls.waiting \cup cls.quarantined
      <3> HIDE DEF in
      <3>1. LET k == ClassifyAll(catalog.held, extra, in)
            IN  in = k.accepted \cup k.waiting \cup k.quarantined
        BY <2>5, ClassesShare
      <3> QED
        BY <3>1 DEF cls
    <2>9. cls.waiting = mine
      BY <2>7, <2>8
    <2>10. ~(Names[r] \subseteq Provided(catalog.held) \ Provided(mine))
      <3> HIDE DEF in
      <3>1. r \in cls.waiting
        BY <2>4, <2>9
      <3>2. ~(Names[r] \subseteq Provided(catalog.held) \ Provided(cls.waiting))
        BY <2>5, <3>1, ClassesLack DEF cls
      <3> QED
        BY <2>9, <3>2
    <2>11. mine \subseteq Logged(waiting[n]) \ catalog.held
      BY <2>6, <2>7
    <2>12. /\ Provided(mine) \subseteq Provided(Logged(waiting[n]) \ catalog.held)
           /\ Provided(catalog.held \ Imports) \subseteq Provided(catalog.held)
      BY <2>11 DEF Provided
    <2> QED
      BY <2>10, <2>12 DEF Lacks
  <1>6. Rowed(c)'
    BY <1>1, <1>2, <1>4, <1>5 DEF Rowed, Logged
  <1>7. Busy(c)' /\ Settling(c)'
    BY <1>3, <1>6 DEF Busy, Writing, Settling
  <1>8. Knowing(c)'
    BY <1>1, <1>2, KnowingStays
  <1> QED
    BY <1>1, <1>2, <1>7, <1>8, OneWaits DEF LibShape

LEMMA SaveBatchesWaits ==
    ASSUME ImportInv, ImportInv', WaitInv, troubles = 0, NEW c \in Commands,
           SaveBatches(c), UNCHANGED troubles
    PROVE  WaitInv'
  <1> USE DEF ImportInv, ImportShape
  <1>1. /\ pc[c] = "save" /\ pc' = [pc EXCEPT ![c] = "rows"]
        /\ batches' = work[c].tables.batches
        /\ UNCHANGED <<op, alone, catalog, snap, waiting, rows, work>>
    BY DEF SaveBatches, Working, Step, Goto
  <1>2. Busy(c) /\ Knowing(c) /\ Rowed(c) /\ ~Arriving(c)
    BY <1>1 DEF Busy, Writing, WaitInv, Settling, Arriving, Promoting
  <1>3. pc'[c] = "rows"
    BY <1>1 DEF LibShape
  <1>4. \A n \in Imports : Aside(c, n)' = Aside(c, n)
    BY <1>1, <1>3 DEF Aside, Fetching
  <1>5. Rowed(c)'
    BY <1>1, <1>2, <1>4, RowedStays
  <1>6. Busy(c)' /\ Settling(c)'
    BY <1>1, <1>3, <1>5 DEF Busy, Writing, Settling
  <1>7. Knowing(c)'
    BY <1>1, <1>2, KnowingStays
  <1> QED
    BY <1>1, <1>2, <1>6, <1>7, OneWaits DEF LibShape

LEMMA SaveRowsWaits ==
    ASSUME ImportInv, ImportInv', WaitInv, troubles = 0, NEW c \in Commands,
           SaveRows(c), UNCHANGED troubles
    PROVE  WaitInv'
  <1> USE DEF ImportInv, ImportShape
  <1>1. /\ pc[c] = "rows" /\ pc' = [pc EXCEPT ![c] = "done"]
        /\ rows' = work[c].tables.rows
        /\ UNCHANGED <<op, alone, catalog, snap, waiting, batches>>
    BY DEF SaveRows, Working, Step, Goto
  <1>2. /\ Busy(c) /\ Knowing(c) /\ Rowed(c) /\ ~Arriving(c)
        /\ batches = work[c].tables.batches
    BY <1>1 DEF Busy, Writing, WaitInv, Settling, Arriving, Promoting
  <1>3. pc'[c] = "done"
    BY <1>1 DEF LibShape
  <1>4. \A n \in Imports : Aside(c, n) = waiting[n]
    BY <1>1 DEF Aside, Fetching
  <1>5. Settled'
    BY <1>1, <1>2, <1>4 DEF Settled, Rowed, Logged
  <1>6. Settling(c)'
    BY <1>3 DEF Busy, Writing, Fetches, Fetching, Settling
  <1>7. Knowing(c)'
    BY <1>1, <1>2, KnowingStays
  <1> QED
    BY <1>1, <1>2, <1>5, <1>6, <1>7, OneWaits DEF LibShape

LEMMA NextWaits ==
    ASSUME ImportInv, ImportInv', WaitInv, [Next]_vars
    PROVE  WaitInv'
  <1> SUFFICES ASSUME troubles' = 0 PROVE WaitInv'
    BY DEF WaitInv
  <1>1. troubles = 0 \/ Trouble
    BY DEF Next, Run, Crash, Start, vars
  <1>2. ~Trouble /\ troubles = 0
    BY <1>1 DEF Trouble, ImportInv, ImportShape
  <1>3. ASSUME NEW c \in Commands, Run(c) PROVE WaitInv'
    <2>1. UNCHANGED troubles
      BY <1>3 DEF Run
    <2>2. CASE LibStep(c) /\ UNCHANGED impvars
      BY <1>2, <2>1, <2>2, LibStepWaits
    <2>3. CASE ImportStep(c)
      BY <1>2, <2>1, <2>3, RefusedWaits, BeginImportWaits, ImportLogWaits, FilingWaits,
         BeginAcceptWaits, AcceptLogWaits, UnstageWaits, BeginDiscardWaits, UnwaitWaits,
         PromoteWaits, ShortenWaits, PromotedWaits, SaveBatchesWaits, SaveRowsWaits
         DEF ImportStep
    <2> QED
      BY <1>3, <2>2, <2>3 DEF Run
  <1>4. ASSUME NEW c \in Commands, Crash(c) PROVE FALSE
    BY <1>2, <1>4 DEF Crash
  <1>5. ASSUME NEW c \in Commands, NEW task \in TextTasks \cup ImportTasks, Start(c, task)
        PROVE  WaitInv'
    BY <1>2, <1>5, StartWaits
  <1>6. CASE BreakLock /\ UNCHANGED <<impvars, troubles>>
    BY <1>6, RestWaits DEF BreakLock
  <1>7. CASE UNCHANGED vars
    BY <1>7, RestWaits DEF vars, libvars
  <1> QED
    BY <1>3, <1>4, <1>5, <1>6, <1>7 DEF Next

LEMMA InitWaits == Init => WaitInv
  <1> SUFFICES ASSUME Init PROVE WaitInv
    OBVIOUS
  <1>1. \A c \in Commands : pc[c] = "idle"
    BY DEF Init, LibInit
  <1>2. Settled
    BY NothingBegun DEF Init, Settled
  <1> QED
    BY <1>1, <1>2 DEF WaitInv, Knowing, Settling, Busy, Fetches, Fetching, Writing

(* What waits when no command is at work and none was killed waits for     *)
(* something the library does not hold: promoting misses nothing           *)
(* (import/mod.rs `promote`, classify.rs:8).                               *)
THEOREM NothingWaitsInVain == Spec => []WaitsForMissing
  <1>1. Init => WaitInv
    BY InitWaits
  <1>2. ImportInv /\ ImportInv' /\ WaitInv /\ [Next]_vars => WaitInv'
    BY NextWaits
  <1>3. ImportInv /\ WaitInv => WaitsForMissing
    BY SettledWaits
  <1> QED
    BY <1>1, <1>2, <1>3, ImportAlways, PTL DEF Spec

-----------------------------------------------------------------------------
(* Rounds that only grow are over after as many as there are records.      *)
LEMMA RoundsSettle ==
    ASSUME NEW X, IsFiniteSet(X), NEW g \in [SUBSET X -> SUBSET X],
           NEW w \in [0..Cardinality(X) -> SUBSET X],
           \A n \in 1..Cardinality(X) : w[n] = g[w[n - 1]],
           \A n \in 0..Cardinality(X) : w[n] \subseteq g[w[n]]
    PROVE  g[w[Cardinality(X)]] = w[Cardinality(X)]
  <1> DEFINE m == Cardinality(X)
             S == {n \in 0..m : g[w[n]] = w[n] \/ Cardinality(w[n]) >= n}
  <1>1. m \in Nat
    BY FS_CardinalityType
  <1>2. \A n \in 0..m : IsFiniteSet(w[n]) /\ Cardinality(w[n]) \in Nat
    <2> SUFFICES ASSUME NEW n \in 0..m PROVE IsFiniteSet(w[n]) /\ Cardinality(w[n]) \in Nat
      OBVIOUS
    <2>1. w[n] \subseteq X
      OBVIOUS
    <2>2. IsFiniteSet(w[n])
      BY <2>1, FS_Subset
    <2> QED
      BY <2>2, FS_CardinalityType
  <1>3. 0 \in S
    BY <1>1, <1>2
  <1>4. ASSUME NEW n \in 0..m, n \in S, n < m PROVE n + 1 \in S
    <2>1. n + 1 \in 1..m /\ n + 1 \in 0..m /\ (n + 1) - 1 = n
      BY <1>1, <1>4
    <2>2. w[n + 1] = g[w[n]]
      BY <2>1
    <2>3. CASE g[w[n]] = w[n]
      BY <2>1, <2>2, <2>3
    <2>4. CASE g[w[n]] # w[n] /\ Cardinality(w[n]) >= n
      <3>1. w[n] \subseteq w[n + 1] /\ w[n] # w[n + 1]
        BY <2>2, <2>4
      <3>2. Cardinality(w[n]) < Cardinality(w[n + 1])
        <4> DEFINE a == w[n]
                   b == w[n + 1]
        <4>1. /\ IsFiniteSet(b) /\ a \in SUBSET b /\ a # b
              /\ Cardinality(a) \in Nat /\ Cardinality(b) \in Nat
          BY <1>2, <1>4, <2>1, <3>1
        <4> HIDE DEF a, b
        <4>2. Cardinality(a) <= Cardinality(b) /\ Cardinality(a) # Cardinality(b)
          BY <4>1, FS_Subset
        <4>3. Cardinality(a) < Cardinality(b)
          BY <4>1, <4>2
        <4> QED
          BY <4>3 DEF a, b
      <3>3. Cardinality(w[n + 1]) >= n + 1
        BY <1>2, <1>4, <2>1, <2>4, <3>2
      <3> QED
        BY <2>1, <3>3
    <2> QED
      BY <1>4, <2>3, <2>4
  <1>5. m \in S
    <2>1. 0..m \subseteq S
      <3> HIDE DEF S
      <3> QED
        BY <1>1, <1>3, <1>4, RoundByRound
    <2> QED
      BY <1>1, <2>1
  <1>6. CASE Cardinality(w[m]) >= m
    <2>1. m \in 0..m /\ w[m] \subseteq X
      BY <1>1
    <2>2. w[m] = X
      <3>1. w[m] # X => Cardinality(w[m]) < m
        BY <2>1, FS_Subset, FS_CardinalityType
      <3> QED
        BY <1>1, <1>2, <1>6, <2>1, <3>1
    <2>3. w[m] \subseteq g[w[m]] /\ g[w[m]] \subseteq X
      BY <2>1
    <2> QED
      BY <2>2, <2>3
  <1> QED
    BY <1>5, <1>6

(* What waits lacks something that is not provided but by what waits, and  *)
(* what does not wait lacks nothing.                                       *)
LEMMA WaitsSettle ==
    ASSUME NEW base, NEW live, IsFiniteSet(live)
    PROVE  \A r \in live :
              r \in Waits(base, live)
                 <=> ~(Names[r] \subseteq (base \cup Provided(live))
                                             \ Provided(Waits(base, live)))
  <1> DEFINE m    == Cardinality(live)
             held == base \cup Provided(live)
             G(S) == {r \in live : ~(Names[r] \subseteq held \ Provided(S))}
             g    == [S \in SUBSET live |-> G(S)]
  <1>1. m \in Nat
    BY FS_CardinalityType
  <1>2. PICK w : WaitRounds(live, held, m, w) /\ Waits(base, live) = w[m]
    BY WaitsRounds
  <1>3. w \in [0..m -> SUBSET live] /\ w[0] = {}
    BY <1>2 DEF WaitRounds
  <1>4. g \in [SUBSET live -> SUBSET live] /\ \A S \in SUBSET live : g[S] = G(S)
    OBVIOUS
  <1>5. \A n \in 1..m : n \in 0..m /\ n - 1 \in 0..m /\ w[n] \subseteq live /\ w[n - 1] \subseteq live
    <2> HIDE DEF m
    <2>1. \A n \in 1..m : n \in 0..m /\ n - 1 \in 0..m
      BY <1>1
    <2> QED
      BY <1>3, <2>1
  <1>6. \A n \in 1..m : w[n] = G(w[n - 1])
    <2> SUFFICES ASSUME NEW n \in 1..m PROVE w[n] = G(w[n - 1])
      OBVIOUS
    <2>1. \A r \in live : r \in w[n] <=> ~(Names[r] \subseteq held \ Provided(w[n - 1]))
      BY <1>2 DEF WaitRounds
    <2> HIDE DEF held, m
    <2> QED
      BY <1>5, <2>1
  <1>7. \A n \in 1..m : w[n - 1] \subseteq w[n]
    <2> HIDE DEF held, m
    <2> QED
      BY <1>1, <1>2, WaitsGrow
  <1>8. \A n \in 0..m : w[n] \subseteq G(w[n])
    <2> SUFFICES ASSUME NEW n \in 0..m, NEW r \in w[n] PROVE r \in G(w[n])
      OBVIOUS
    <2>1. n # 0 /\ n \in 1..m
      <3> HIDE DEF m
      <3> QED
        BY <1>1, <1>3
    <2>2. r \in live /\ ~(Names[r] \subseteq held \ Provided(w[n - 1]))
      BY <1>6, <2>1
    <2>3. w[n - 1] \subseteq w[n]
      BY <1>7, <2>1
    <2>4. held \ Provided(w[n]) \subseteq held \ Provided(w[n - 1])
      BY <2>3 DEF Provided
    <2> HIDE DEF held
    <2> QED
      BY <2>2, <2>4
  <1>9. G(w[m]) = w[m]
    <2> HIDE DEF G
    <2>1. \A n \in 0..m : w[n] \in SUBSET live
      BY <1>3
    <2>2. /\ \A n \in 1..m : w[n] = g[w[n - 1]]
          /\ \A n \in 0..m : w[n] \subseteq g[w[n]]
      BY <1>4, <1>5, <1>6, <1>8, <2>1
    <2> HIDE DEF g
    <2>3. g[w[m]] = w[m]
      BY <1>3, <1>4, <2>2, RoundsSettle
    <2>4. m \in 0..m
      BY <1>1
    <2> QED
      BY <1>4, <2>1, <2>3, <2>4
  <1> QED
    <2> HIDE DEF held, m
    <2> QED
      BY <1>2, <1>9 DEF held

(* Nothing is left to quarantine. *)
LEMMA QuarantineSettles ==
    ASSUME NEW library, NEW extra, NEW incoming, IsFiniteSet(incoming)
    PROVE  LET q == ClassifyAll(library, extra, incoming).quarantined
           IN  /\ q \subseteq incoming
               /\ Gone(library, Provided(library) \cup extra, incoming \ q) = {}
  <1> DEFINE m    == Cardinality(incoming)
             base == Provided(library) \cup extra
             G(S) == S \cup Gone(library, base, incoming \ S)
             g    == [S \in SUBSET incoming |-> G(S)]
             last == ClassifyAll(library, extra, incoming).quarantined
  <1>1. m \in Nat /\ m \in 0..m
    BY FS_CardinalityType
  <1>2. PICK q : Quarantines(library, extra, incoming, q)
    BY QuarantineRounds
  <1>3. /\ q \in [0..m -> SUBSET incoming]
        /\ \A n \in 1..m : q[n] = G(q[n - 1])
        /\ last = q[m]
    BY <1>2 DEF Quarantines
  <1>4. \A S \in SUBSET incoming : G(S) \in SUBSET incoming
    BY GoneLive
  <1>5. g \in [SUBSET incoming -> SUBSET incoming] /\ \A S \in SUBSET incoming : g[S] = G(S)
    BY <1>4
  <1>6. \A S \in SUBSET incoming : S \subseteq G(S)
    OBVIOUS
  <1>7. \A n \in 1..m : n - 1 \in 0..m
    <2> HIDE DEF m
    <2> QED
      BY <1>1
  <1> HIDE DEF G, last
  <1>8. /\ \A n \in 1..m : q[n] = g[q[n - 1]]
        /\ \A n \in 0..m : q[n] \subseteq g[q[n]]
    BY <1>3, <1>5, <1>6, <1>7
  <1> HIDE DEF g
  <1>9. g[q[m]] = q[m]
    BY <1>3, <1>5, <1>8, RoundsSettle
  <1>10. last \subseteq incoming /\ G(last) = last
    BY <1>1, <1>3, <1>5, <1>9
  <1>11. Gone(library, base, incoming \ last) \subseteq last
    BY <1>10 DEF G
  <1>12. Gone(library, base, incoming \ last) \subseteq incoming \ last
    BY GoneLive
  <1> QED
    BY <1>10, <1>11, <1>12 DEF last

(* What each round quarantines is all there is in quarantine.              *)
LEMMA QuarantinesOnly ==
    ASSUME NEW library, NEW extra, NEW incoming, IsFiniteSet(incoming), NEW good,
           \A S \in SUBSET incoming :
              Gone(library, Provided(library) \cup extra, incoming \ S) \subseteq good
    PROVE  ClassifyAll(library, extra, incoming).quarantined \subseteq good
  <1> DEFINE m == Cardinality(incoming)
             last == ClassifyAll(library, extra, incoming).quarantined
  <1>1. m \in Nat /\ m \in 0..m
    BY FS_CardinalityType
  <1>2. PICK q : Quarantines(library, extra, incoming, q)
    BY QuarantineRounds
  <1> DEFINE S == {n \in 0..m : q[n] \subseteq good}
  <1>3. /\ q \in [0..m -> SUBSET incoming] /\ q[0] = {}
        /\ \A n \in 1..m : q[n] = q[n - 1] \cup Gone(library, Provided(library) \cup extra,
                                                    incoming \ q[n - 1])
        /\ last = q[m]
    BY <1>2 DEF Quarantines
  <1> HIDE DEF m, last
  <1>4. ASSUME NEW n \in 0..m, n \in S, n < m PROVE n + 1 \in S
    <2>1. n + 1 \in 1..m /\ n + 1 \in 0..m /\ (n + 1) - 1 = n /\ q[n] \in SUBSET incoming
      BY <1>1, <1>3, <1>4
    <2>2. q[n + 1] = q[n] \cup Gone(library, Provided(library) \cup extra, incoming \ q[n])
      BY <1>3, <2>1
    <2> QED
      BY <1>4, <2>1, <2>2
  <1>5. 0 \in S
    BY <1>1, <1>3
  <1>6. m \in S
    <2>1. 0..m \subseteq S
      <3> HIDE DEF S
      <3> QED
        BY <1>1, <1>4, <1>5, RoundByRound
    <2> QED
      BY <1>1, <2>1
  <1> QED
    BY <1>3, <1>6 DEF last

-----------------------------------------------------------------------------
(***************************************************************************)
(* What a classification comes to, of independent records.  D is what the  *)
(* records that come in may rest on: what is in the library, and what is   *)
(* staged beside them.                                                     *)
(***************************************************************************)
Settles(r, D) == r \notin Faulty /\ Names[r] \subseteq Provided(D)
Closed(D)     == \A r \in D : Settles(r, D)

Fails(r, D) == IF r \in Units THEN r \in Faulty /\ Names[r] \subseteq Provided(D)
               ELSE Names[r] \cap Faulty # {}

Before(D, library, base, incoming) ==
    /\ D \subseteq Records /\ Closed(D)
    /\ incoming \subseteq Records /\ IsFiniteSet(incoming)
    /\ library \subseteq Content
    /\ \A r \in Records : Names[r] \cap base = Names[r] \cap Provided(D)
    /\ \A u \in incoming \cap Units, v \in D \ library : <<u, v>> \notin Findings

Reach(u) == {v \in Records : RestsOn(u, v)}

LEMMA RecordsContent == Records \subseteq Content
  BY ImportShapes DEF Records, Logged

(* An id has one provider.                                                 *)
LEMMA Provider ==
    ASSUME Independent, NEW S, S \subseteq Content, NEW p \in Content,
           NEW x \in Provides[p], x \in Provided(S)
    PROVE  p \in S
  BY DEF Independent, OneProvider, Provided

LEMMA OwnId ==
    ASSUME Independent, NEW u \in Records \cap Units, NEW S, S \subseteq Content,
           u \in Provided(S)
    PROVE  u \in S
  BY RecordsContent, Provider DEF Independent, OwnFindings

LEMMA ReachClosed ==
    ASSUME NEW u \in Records
    PROVE  /\ u \in Reach(u)
           /\ \A r \in Reach(u), p \in Records :
                 Provides[p] \cap Names[r] # {} => p \in Reach(u)
  BY DEF Reach, RestsOn

LEMMA ReachWithin ==
    ASSUME NEW S \in SUBSET Records, NEW u \in S,
           \A r \in S, p \in Records : Provides[p] \cap Names[r] # {} => p \in S
    PROVE  Reach(u) \subseteq S
  BY DEF Reach, RestsOn

(* What does not wait rests on what does not, or on what is there.         *)
LEMMA ReadyRests ==
    ASSUME Independent, NEW D, NEW library, NEW base, NEW incoming,
           Before(D, library, base, incoming), NEW live \in SUBSET incoming
    PROVE  LET ready == live \ Waits(base, live)
           IN  \A r \in D \cup ready :
                  /\ Names[r] \subseteq Provided(D \cup ready)
                  /\ \A p \in Records : Provides[p] \cap Names[r] # {} => p \in D \cup ready
  <1> DEFINE W == Waits(base, live)
             ready == live \ W
  <1>1. IsFiniteSet(live) /\ live \subseteq Records /\ D \subseteq Records
    BY FS_Subset DEF Before
  <1>2. \A r \in live : r \in W <=> ~(Names[r] \subseteq (base \cup Provided(live)) \ Provided(W))
    BY <1>1, WaitsSettle
  <1> HIDE DEF W
  <1>3. ASSUME NEW r \in ready PROVE Names[r] \subseteq Provided(D \cup ready)
    <2> SUFFICES ASSUME NEW x \in Names[r] PROVE x \in Provided(D \cup ready)
      OBVIOUS
    <2>1. x \in base \cup Provided(live) /\ x \notin Provided(W)
      BY <1>2, <1>3
    <2>2. CASE x \in base
      <3>1. x \in Provided(D)
        BY <1>1, <1>3, <2>2 DEF Before
      <3> QED
        BY <3>1 DEF Provided
    <2>3. CASE x \in Provided(live)
      BY <2>1, <2>3 DEF Provided
    <2> QED
      BY <2>1, <2>2, <2>3
  <1>4. \A r \in D : Names[r] \subseteq Provided(D \cup ready)
    BY DEF Before, Closed, Settles, Provided
  <1>5. \A r \in D \cup ready : Names[r] \subseteq Provided(D \cup ready)
    BY <1>3, <1>4
  <1>6. D \cup ready \subseteq Content /\ Records \subseteq Content
    BY <1>1, RecordsContent
  <1> HIDE DEF ready
  <1>7. ASSUME NEW r \in D \cup ready, NEW p \in Records, Provides[p] \cap Names[r] # {}
        PROVE  p \in D \cup ready
    <2>1. PICK x \in Provides[p] : x \in Names[r]
      BY <1>7
    <2>2. x \in Provided(D \cup ready)
      BY <1>5, <2>1
    <2> QED
      BY <1>6, <2>1, <2>2, Provider
  <1> QED
    BY <1>5, <1>7 DEF ready, W

(* The check blames the faulty ones, and those alone.                      *)
LEMMA BlamesFaulty ==
    ASSUME Independent, NEW D, NEW library, NEW base, NEW incoming,
           Before(D, library, base, incoming), NEW live \in SUBSET incoming
    PROVE  LET ready == live \ Waits(base, live)
           IN  Blamed(library \cup ready, ready) = Faulty \cap ready
  <1> DEFINE ready == live \ Waits(base, live)
  <1>1. /\ ready \subseteq incoming /\ ready \subseteq Records /\ D \subseteq Records
        /\ library \cup ready \subseteq Content
    BY RecordsContent DEF Before
  <1>2. \A r \in D \cup ready, p \in Records :
           Provides[p] \cap Names[r] # {} => p \in D \cup ready
    BY ReadyRests
  <1> HIDE DEF ready
  <1>3. Blamed(library \cup ready, ready) \subseteq Faulty \cap ready
    BY <1>1 DEF Blamed, Faulty, Independent, OwnFindings
  <1>4. ASSUME NEW u \in Faulty \cap ready PROVE u \in Blamed(library \cup ready, ready)
    <2>1. PICK v \in Content : <<u, v>> \in Findings
      BY DEF Faulty
    <2>2. u \in Records \cap Units /\ u \in incoming
      BY <1>1 DEF Faulty
    <2>3. u # v => v \in D \cup ready
      <3>1. u # v => RestsOn(u, v)
        BY <2>1, <2>2 DEF Independent, OwnFindings
      <3>2. D \cup ready \in SUBSET Records /\ u \in D \cup ready
        BY <1>1
      <3> QED
        BY <1>2, <3>1, <3>2 DEF RestsOn
    <2>4. v \in library \cup ready
      BY <2>1, <2>2, <2>3 DEF Before
    <2> QED
      BY <2>1, <2>2, <2>4 DEF Blamed
  <1> QED
    BY <1>3, <1>4 DEF ready

(* The units that may be quarantined: faulty, and resting on nothing       *)
(* faulty, nor on what neither is there nor came with them.                *)
Fallen(D, incoming) ==
    {u \in incoming \cap Units :
        /\ u \in Faulty /\ Reach(u) \cap Faulty \subseteq {u}
        /\ Reach(u) \subseteq D \cup incoming
        /\ \A r \in Reach(u) : Names[r] \subseteq Provided(D \cup incoming)}

Dragged(incoming) == {r \in incoming \ Units : Names[r] \cap Faulty # {}}

LEMMA GoneFallen ==
    ASSUME Independent, NEW D, NEW library, NEW base, NEW incoming,
           Before(D, library, base, incoming), NEW live \in SUBSET incoming
    PROVE  /\ Gone(library, base, live) \subseteq Fallen(D, incoming) \cup Dragged(incoming)
           /\ Gone(library, base, live) = {} => (live \ Waits(base, live)) \cap Faulty = {}
  <1> DEFINE ready  == live \ Waits(base, live)
             blamed == Blamed(library \cup ready, ready)
             bad    == Minimal(blamed)
  <1>1. ready \subseteq incoming /\ incoming \subseteq Records /\ D \subseteq Records
    BY DEF Before
  <1>2. \A r \in D \cup ready :
           /\ Names[r] \subseteq Provided(D \cup ready)
           /\ \A p \in Records : Provides[p] \cap Names[r] # {} => p \in D \cup ready
    BY ReadyRests
  <1>3. blamed = Faulty \cap ready
    BY BlamesFaulty
  <1>4. Gone(library, base, live)
            = bad \cup {r \in live \cap Direct : Names[r] \cap bad \cap Units # {}}
    BY DEF Gone
  <1> HIDE DEF ready
  <1>5. bad # {} \/ blamed = {}
    <2> HIDE DEF blamed
    <2> QED
      BY DEF Minimal
  <1>6. bad \subseteq blamed
    <2> HIDE DEF blamed
    <2> QED
      BY DEF Minimal
  <1>7. \A u \in bad : Names[u] \cap (blamed \ {u}) = {}
    <2>1. CASE blamed = {}
      BY <1>6, <2>1
    <2>2. CASE blamed # {}
      <3>1. blamed \in SUBSET Records /\ blamed \subseteq Units
        BY <1>1, <1>3 DEF Faulty
      <3>2. PICK r \in blamed : Names[r] \cap Provided(blamed) = {}
        <4> HIDE DEF blamed
        <4> QED
          BY <2>2, <3>1 DEF Independent, NoCircle
      <3>3. blamed \subseteq Provided(blamed)
        <4>1. \A u \in blamed : u \in Provides[u]
          BY <3>1 DEF Independent, OwnFindings
        <4> HIDE DEF blamed
        <4> QED
          BY <4>1 DEF Provided
      <3>4. Names[r] \cap (blamed \ {r}) = {}
        BY <3>2, <3>3
      <3>5. blamed \cap Units = blamed
        BY <3>1
      <3> HIDE DEF blamed
      <3> QED
        BY <3>2, <3>4, <3>5 DEF Minimal
    <2> QED
      BY <2>1, <2>2
  <1> HIDE DEF bad
  <1>8. ASSUME NEW u \in bad PROVE u \in Fallen(D, incoming)
    <2>1. u \in Faulty /\ u \in ready /\ u \in incoming \cap Units /\ u \in Records
      BY <1>1, <1>3, <1>6, <1>8 DEF Faulty
    <2>2. Reach(u) \subseteq D \cup ready
      <3>1. D \cup ready \in SUBSET Records /\ u \in D \cup ready
        BY <1>1, <2>1
      <3> HIDE DEF blamed
      <3> QED
        BY <1>2, <3>1, ReachWithin
    <2>3. Reach(u) \cap Faulty \subseteq {u}
      <3> SUFFICES ASSUME NEW v \in Reach(u) \cap Faulty, v # u PROVE FALSE
        OBVIOUS
      <3>1. PICK w \in Names[u] \cap Faulty : w # u
        BY <2>1 DEF Reach, Independent, OwnFindings
      <3>2. w \in Records \cap Units /\ w \in Provided(D \cup ready)
        BY <1>2, <2>1, <3>1 DEF Faulty
      <3>3. w \in D \cup ready
        <4>1. D \cup ready \subseteq Content
          BY <1>1, RecordsContent
        <4> QED
          BY <3>2, <4>1, OwnId
      <3>4. w \notin D
        BY <3>1 DEF Before, Closed, Settles
      <3> QED
        BY <1>3, <1>7, <1>8, <3>1, <3>3, <3>4
    <2>4. \A r \in Reach(u) : Names[r] \subseteq Provided(D \cup incoming)
      BY <1>1, <1>2, <2>2 DEF Provided
    <2> QED
      BY <1>1, <2>1, <2>2, <2>3, <2>4 DEF Fallen
  <1>9. ASSUME NEW r \in live \cap Direct, Names[r] \cap bad # {} PROVE r \in Dragged(incoming)
    <2>1. r \in incoming /\ r \in Records /\ r \notin Units
      BY <1>1 DEF Independent, OwnFindings
    <2>2. bad \subseteq Faulty
      BY <1>3, <1>6
    <2> QED
      BY <1>9, <2>1, <2>2 DEF Dragged
  <1>10. Gone(library, base, live) = {} => ready \cap Faulty = {}
    BY <1>3, <1>4, <1>5
  <1> QED
    BY <1>4, <1>8, <1>9, <1>10 DEF ready

(* What waits is not there yet. *)
LEMMA WaitsAway ==
    ASSUME Independent, NEW D, NEW library, NEW base, NEW incoming,
           Before(D, library, base, incoming), NEW live \in SUBSET incoming
    PROVE  D \cap Waits(base, live) = {}
  <1> DEFINE W == Waits(base, live)
             S == D \cap W
  <1>1. IsFiniteSet(live) /\ live \subseteq Records /\ D \subseteq Records
    BY FS_Subset DEF Before
  <1>2. \A r \in live : r \in W <=> ~(Names[r] \subseteq (base \cup Provided(live)) \ Provided(W))
    BY <1>1, WaitsSettle
  <1>3. W \subseteq live
    BY <1>1, WaitsLive
  <1> HIDE DEF W
  <1> SUFFICES ASSUME S # {} PROVE FALSE
    BY DEF W
  <1>4. S \in SUBSET Records
    BY <1>1
  <1>5. PICK r \in S : Names[r] \cap Provided(S) = {}
    <2> HIDE DEF S
    <2> QED
      BY <1>4 DEF Independent, NoCircle
  <1>6. Names[r] \subseteq Provided(D)
    BY <1>5 DEF Before, Closed, Settles
  <1>7. Names[r] \subseteq base
    BY <1>4, <1>6 DEF Before
  <1>8. PICK x \in Names[r] : x \in Provided(W)
    BY <1>2, <1>3, <1>5, <1>7
  <1>9. PICK p \in W : x \in Provides[p]
    BY <1>8 DEF Provided
  <1>10. p \in D
    <2>1. D \subseteq Content /\ p \in Content
      BY <1>1, <1>3, RecordsContent
    <2> QED
      BY <1>6, <1>9, <2>1, Provider
  <1> QED
    BY <1>5, <1>9, <1>10 DEF Provided

(* A classification, once and for all: what it accepts rests on what is    *)
(* there or accepted, and on nothing faulty; what it quarantines is faulty *)
(* and rests on the same, or names what is faulty; and what waits lacks    *)
(* something.                                                              *)
LEMMA Classified ==
    ASSUME Independent, NEW D, NEW library, NEW extra, NEW incoming,
           Before(D, library, Provided(library) \cup extra, incoming)
    PROVE  LET cls == ClassifyAll(library, extra, incoming)
               A   == D \cup cls.accepted
           IN  /\ A \subseteq Records /\ Closed(A)
               /\ cls.accepted \subseteq incoming /\ cls.waiting \subseteq incoming
               /\ cls.quarantined \subseteq incoming
               /\ \A r \in cls.quarantined : Fails(r, A)
               /\ \A r \in cls.waiting : ~(Names[r] \subseteq Provided(A))
  <1> DEFINE cls  == ClassifyAll(library, extra, incoming)
             base == Provided(library) \cup extra
             q    == cls.quarantined
             live == incoming \ q
             W    == Waits(base, live)
             A    == D \cup (live \ W)
  <1>1. cls.waiting = W /\ cls.accepted = live \ W
    BY DEF ClassifyAll
  <1>2. q \subseteq incoming /\ Gone(library, base, live) = {}
    <2>1. IsFiniteSet(incoming)
      BY DEF Before
    <2> QED
      BY <2>1, QuarantineSettles
  <1>3. /\ incoming \subseteq Records /\ D \subseteq Records
        /\ IsFiniteSet(live) /\ live \in SUBSET incoming
    <2>1. IsFiniteSet(incoming) /\ live \subseteq incoming
      BY DEF Before
    <2> QED
      BY <2>1, FS_Subset DEF Before
  <1>4. Before(D, library, base, incoming)
    OBVIOUS
  <1>5. q \subseteq Fallen(D, incoming) \cup Dragged(incoming)
    <2>1. IsFiniteSet(incoming)
      BY DEF Before
    <2>2. \A S \in SUBSET incoming :
             Gone(library, base, incoming \ S) \subseteq Fallen(D, incoming) \cup Dragged(incoming)
      BY GoneFallen
    <2> QED
      BY <2>1, <2>2, QuarantinesOnly
  <1> HIDE DEF base, cls
  <1>6. (live \ W) \cap Faulty = {}
    <2> HIDE DEF live
    <2> QED
      BY <1>2, <1>3, <1>4, GoneFallen
  <1>7. \A r \in A : /\ Names[r] \subseteq Provided(A)
                     /\ \A p \in Records : Provides[p] \cap Names[r] # {} => p \in A
    <2> HIDE DEF live
    <2> QED
      BY <1>3, <1>4, ReadyRests
  <1>8. D \cap W = {}
    <2> HIDE DEF live
    <2> QED
      BY <1>3, <1>4, WaitsAway
  <1>9. W \subseteq live
    BY <1>3, WaitsLive
  <1>10. \A r \in live : r \in W <=> ~(Names[r] \subseteq (base \cup Provided(live)) \ Provided(W))
    BY <1>3, WaitsSettle
  <1> HIDE DEF W
  <1>11. A \subseteq Records /\ A \subseteq Content /\ W \subseteq Content
    BY <1>3, <1>9, RecordsContent
  <1>12. Closed(A)
    BY <1>4, <1>6, <1>7 DEF Closed, Settles, Before
  <1>13. ASSUME NEW r \in W PROVE ~(Names[r] \subseteq Provided(A))
    <2> SUFFICES ASSUME Names[r] \subseteq Provided(A) PROVE FALSE
      OBVIOUS
    <2>1. PICK x \in Names[r] : x \notin (base \cup Provided(live)) \ Provided(W)
      BY <1>9, <1>10, <1>13
    <2>2. PICK p \in A : x \in Provides[p]
      BY <2>1 DEF Provided
    <2>3. p \notin W
      BY <1>8, <2>2
    <2>4. x \notin Provided(W)
      <3>1. p \in Content
        BY <1>11, <2>2
      <3> HIDE DEF A
      <3> QED
        BY <1>11, <2>2, <2>3, <3>1, Provider
    <2>5. CASE p \in D
      <3>1. x \in Provided(D)
        BY <2>2, <2>5 DEF Provided
      <3>2. x \in base
        BY <1>3, <1>4, <1>9, <2>1, <3>1 DEF Before
      <3> QED
        BY <2>1, <2>4, <3>2
    <2>6. CASE p \in live
      <3>1. x \in Provided(live)
        BY <2>2, <2>6 DEF Provided
      <3> QED
        BY <2>1, <2>4, <3>1
    <2> QED
      BY <2>2, <2>5, <2>6
  <1>14. ASSUME NEW u \in Fallen(D, incoming) PROVE u \in Units /\ u \in Faulty /\ Names[u] \subseteq Provided(A)
    <2> DEFINE R == Reach(u)
               S == (R \ {u}) \ A
    <2>1. /\ u \in incoming \cap Units /\ u \in Faulty /\ u \in Records
          /\ R \cap Faulty \subseteq {u} /\ R \subseteq D \cup incoming
          /\ \A r \in R : Names[r] \subseteq Provided(D \cup incoming)
      BY <1>3 DEF Fallen
    <2>2. /\ u \in R /\ R \subseteq Records
          /\ \A r \in R, p \in Records : Provides[p] \cap Names[r] # {} => p \in R
      BY <2>1, ReachClosed DEF Reach
    <2> HIDE DEF R
    <2>3. u \notin A
      BY <1>12, <2>1 DEF Closed, Settles
    <2>4. Names[u] \cap Provides[u] = {}
      <3>1. PICK r \in {u} : Names[r] \cap Provided({u}) = {}
        BY <2>1 DEF Independent, NoCircle
      <3> QED
        BY <3>1 DEF Provided
    <2>5. ASSUME NEW r \in R, NEW x \in Names[r]
          PROVE  \E p \in R : x \in Provides[p]
      <3>1. PICK p \in D \cup incoming : x \in Provides[p]
        BY <2>1, <2>5 DEF Provided
      <3>2. p \in Records
        BY <1>3, <3>1
      <3> QED
        BY <2>2, <2>5, <3>1, <3>2
    <2>6. S = {}
      <3> SUFFICES ASSUME S # {} PROVE FALSE
        OBVIOUS
      <3>1. S \cup {u} \in SUBSET Records
        BY <2>1, <2>2
      <3>2. PICK r \in S \cup {u} : Names[r] \cap Provided(S \cup {u}) = {}
        <4> HIDE DEF S
        <4> QED
          BY <3>1 DEF Independent, NoCircle
      <3>3. CASE r # u
        <4>1. r \in R /\ r \notin Faulty /\ r \notin A /\ r \in incoming
          BY <2>1, <3>2, <3>3
        <4>2. \A x \in Names[r] : \E p \in R : x \in Provides[p] /\ p # u /\ p \notin S
          BY <2>5, <3>2, <4>1 DEF Provided
        <4>3. Names[r] \subseteq Provided(A)
          BY <4>2 DEF Provided
        <4>4. r \notin W
          BY <1>13, <4>3
        <4>5. r \in q
          BY <4>1, <4>4
        <4>6. r \in Dragged(incoming)
          BY <1>5, <4>1, <4>5 DEF Fallen
        <4>7. PICK v \in Names[r] : v \in Faulty
          BY <4>6 DEF Dragged
        <4>8. v \in Records /\ v \in Provides[v]
          BY <4>7 DEF Faulty, Independent, OwnFindings
        <4>9. v \in R
          BY <2>2, <4>1, <4>7, <4>8
        <4>10. v = u
          BY <2>1, <4>7, <4>9
        <4> QED
          BY <3>2, <4>7, <4>8, <4>10 DEF Provided
      <3>4. CASE r = u
        <4> DEFINE T == R \ S
        <4>1. T \in SUBSET Records /\ u \in T
          BY <2>2
        <4>2. ASSUME NEW t \in T, NEW p \in Records, Provides[p] \cap Names[t] # {}
              PROVE  p \in T
          <5>1. p \in R
            BY <2>2, <4>2
          <5>2. CASE t = u
            BY <3>2, <3>4, <4>2, <5>1, <5>2 DEF Provided
          <5>3. CASE t # u
            <6>1. t \in A
              BY <4>2, <5>3
            <6>2. p \in A
              BY <1>7, <4>2, <6>1
            <6> QED
              BY <5>1, <6>2
          <5> QED
            BY <5>2, <5>3
        <4>3. R \subseteq T
          <5> HIDE DEF T, S
          <5> QED
            BY <4>1, <4>2, ReachWithin DEF R
        <4> QED
          BY <4>3
      <3> QED
        BY <3>3, <3>4
    <2>7. Names[u] \subseteq Provided(A)
      <3> SUFFICES ASSUME NEW x \in Names[u] PROVE x \in Provided(A)
        OBVIOUS
      <3>1. PICK p \in R : x \in Provides[p]
        BY <2>2, <2>5
      <3>2. p # u
        BY <2>4, <3>1
      <3>3. p \in A
        BY <2>6, <3>1, <3>2
      <3> HIDE DEF A
      <3> QED
        BY <3>1, <3>3 DEF Provided
    <2> QED
      BY <2>1, <2>7
  <1>15. ASSUME NEW r \in q PROVE Fails(r, A)
    <2>1. CASE r \in Fallen(D, incoming)
      BY <1>14, <2>1 DEF Fails
    <2>2. CASE r \in Dragged(incoming)
      BY <2>2 DEF Fails, Dragged
    <2> QED
      BY <1>5, <1>15, <2>1, <2>2
  <1>16. /\ A \subseteq Records /\ Closed(A)
         /\ cls.accepted \subseteq incoming /\ cls.waiting \subseteq incoming
         /\ cls.quarantined \subseteq incoming
         /\ \A r \in cls.quarantined : Fails(r, A)
         /\ \A r \in cls.waiting : ~(Names[r] \subseteq Provided(A))
    <2> HIDE DEF A
    <2> QED
      BY <1>1, <1>2, <1>9, <1>11, <1>12, <1>13, <1>15
  <1> QED
    BY <1>1, <1>16 DEF cls

(* Held is what is not faulty and rests on what is held, of what came: and *)
(* there is one such set.                                                  *)
LEMMA OneOutcome ==
    ASSUME Independent, NEW X \in SUBSET Records, NEW H \in SUBSET X, NEW K \in SUBSET X,
           Closed(H), Closed(K),
           \A r \in X : Settles(r, H) => r \in H,
           \A r \in X : Settles(r, K) => r \in K
    PROVE  H = K
  <1> DEFINE S == (H \ K) \cup (K \ H)
  <1> SUFFICES ASSUME S # {} PROVE FALSE
    OBVIOUS
  <1>1. S \in SUBSET Records
    OBVIOUS
  <1>2. PICK r \in S : Names[r] \cap Provided(S) = {}
    <2> HIDE DEF S
    <2> QED
      BY <1>1 DEF Independent, NoCircle
  <1>3. CASE r \in H \ K
    <2>1. Settles(r, H)
      BY <1>3 DEF Closed
    <2>2. Names[r] \subseteq Provided(K)
      BY <1>2, <2>1 DEF Settles, Provided
    <2> QED
      BY <1>3, <2>1, <2>2 DEF Settles
  <1>4. CASE r \in K \ H
    <2>1. Settles(r, K)
      BY <1>4 DEF Closed
    <2>2. Names[r] \subseteq Provided(H)
      BY <1>2, <2>1 DEF Settles, Provided
    <2> QED
      BY <1>4, <2>1, <2>2 DEF Settles
  <1> QED
    BY <1>2, <1>3, <1>4

-----------------------------------------------------------------------------
(***************************************************************************)
(* The order files come in.  What is in the library rests on what is there *)
(* and on nothing faulty, and so does what is staged, beside the library;  *)
(* what is quarantined has failed beside what is held and staged.  This is *)
(* inductive with a ledger: where each record that is held came from, and  *)
(* where each that has waited is.  The ledger is the tables' on disk, or   *)
(* the copy of the command at work, which goes by what it has worked out.  *)
(***************************************************************************)
Held == catalog.held \ Imports
Tidy == Independent /\ gaveUp = {} /\ catalog.versions = {}

AllFail(rs, D) == \A r \in Logged(rs) : Fails(r, D)

Outcome(H, st, qu) ==
    /\ Closed(H)
    /\ \A n \in Imports : /\ Closed(H \cup Logged(st[n]))
                          /\ AllFail(qu[n], H \cup Logged(st[n]))

Brought(r, t)  == \E n \in Imports : r \in Logged(File[n]) /\ t.batches[n] # None
Sided(r, st, qu) == \E n \in Imports : r \in st[n] \cup qu[n]

(* leaving: the import whose staged records are being accepted.            *)
Ledger(H, st, wa, qu, t, leaving) ==
    /\ \A r \in H : Brought(r, t)
    /\ \A n \in Imports \ leaving : st[n] # {} => t.batches[n] = "staged"
    /\ \A n \in Imports : qu[n] # {} => t.batches[n] # None
    /\ \A n \in Imports : \A r \in Logged(wa[n]) :
          t.rows[r] # None \/ r \in H \/ Sided(r, st, qu)

Leaving(c) == IF Doing(c, {"accept"}) /\ pc[c] \in Fetching \cup {"unstage"}
              THEN {On(c)} ELSE {}

WellSorted(H, cls) == /\ Closed(H \cup Logged(cls.accepted))
                      /\ AllFail(cls.quarantined, H \cup Logged(cls.accepted))

Pending(c) ==
    LET t   == work[c].tables
        cls == work[c].cls
        m   == work[c].move
    IN  /\ Classing(c) => t.batches[On(c)] # None
        /\ Classing(c) /\ Takes(c) => quarantine[On(c)] = {}
        /\ Doing(c, {"stage"}) /\ pc[c] \in Fetching \cup {"staging"} =>
              t.batches[On(c)] = "staged"
        /\ Takes(c) /\ pc[c] \in Fetching \cup {"staging"} =>
              WellSorted(Held, cls) /\ staged[On(c)] = {}
        /\ Takes(c) /\ pc[c] \in {"waiting", "apart"} =>
              AllFail(cls.quarantined, Held \cup Logged(staged[On(c)]))
        /\ Takes(c) /\ pc[c] \in Fetching \cup {"staging", "waiting"} =>
              \A r \in Logged(cls.waiting) : t.rows[r] # None
        /\ pc[c] = "moved" => /\ t.batches[m.of] # None
                              /\ AllFail(m.bad, Held \cup Logged(staged[m.of]))

Stored(t, leaving) ==
    /\ \A n \in gaveUp : t.batches[n] = "discarded"
    /\ Tidy => /\ Outcome(Held, staged, quarantine)
               /\ Ledger(Held, staged, waiting, quarantine, t, leaving)

AtWork(c) == Stored(work[c].tables, Leaving(c)) /\ (Tidy => Pending(c))
AtRest    == Stored(OnDisk, {})

OrderInv == troubles = 0 => /\ \A c \in Commands : Busy(c) => AtWork(c)
                            /\ (\A c \in Commands : ~Busy(c)) => AtRest

-----------------------------------------------------------------------------
LEMMA ClosedBeside ==
    ASSUME NEW X, NEW Y, Closed(X), Closed(Y)
    PROVE  Closed(X \cup Y)
  BY DEF Closed, Settles, Provided

LEMMA FailsBeside ==
    ASSUME NEW rs, NEW D, NEW E, AllFail(rs, D), D \subseteq E
    PROVE  AllFail(rs, E)
  <1>1. Provided(D) \subseteq Provided(E)
    BY DEF Provided
  <1> QED
    BY <1>1 DEF AllFail, Fails

(* The library grows. *)
LEMMA OutcomeGrows ==
    ASSUME NEW H, NEW st, NEW qu, Outcome(H, st, qu), NEW G, H \subseteq G, Closed(G)
    PROVE  Outcome(G, st, qu)
  <1> SUFFICES ASSUME NEW n \in Imports
               PROVE  /\ Closed(G \cup Logged(st[n]))
                      /\ AllFail(qu[n], G \cup Logged(st[n]))
    BY DEF Outcome
  <1>1. Closed(H \cup Logged(st[n])) /\ AllFail(qu[n], H \cup Logged(st[n]))
    BY DEF Outcome
  <1>2. G \cup (H \cup Logged(st[n])) = G \cup Logged(st[n])
    OBVIOUS
  <1>3. Closed(G \cup Logged(st[n]))
    BY <1>1, <1>2, ClosedBeside
  <1>4. AllFail(qu[n], G \cup Logged(st[n]))
    BY <1>1, FailsBeside
  <1> QED
    BY <1>3, <1>4

(* What is staged of one import changes, or what is quarantined.           *)
LEMMA StagedMoves ==
    ASSUME NEW H, NEW st, NEW qu, Outcome(H, st, qu), NEW n \in Imports, NEW sv,
           \A k \in Imports \ {n} : sv[k] = st[k],
           Closed(H \cup Logged(sv[n])), Logged(st[n]) \subseteq H \cup Logged(sv[n])
    PROVE  Outcome(H, sv, qu)
  <1>1. AllFail(qu[n], H \cup Logged(sv[n]))
    <2>1. AllFail(qu[n], H \cup Logged(st[n]))
      BY DEF Outcome
    <2> QED
      BY <2>1, FailsBeside
  <1>2. ASSUME NEW k \in Imports \ {n}
        PROVE  Closed(H \cup Logged(sv[k])) /\ AllFail(qu[k], H \cup Logged(sv[k]))
    BY DEF Outcome
  <1> QED
    BY <1>1, <1>2 DEF Outcome

LEMMA QuarantineMoves ==
    ASSUME NEW H, NEW st, NEW qu, Outcome(H, st, qu), NEW n \in Imports, NEW qv,
           \A k \in Imports \ {n} : qv[k] = qu[k],
           AllFail(qv[n], H \cup Logged(st[n]))
    PROVE  Outcome(H, st, qv)
  BY DEF Outcome

(* What the records of a command are classified beside.                    *)
LEMMA BesideLibrary ==
    ASSUME Independent, NEW held \in SUBSET Content, NEW X \in SUBSET Records,
           (held \ Imports) \cup X \subseteq Records, Closed((held \ Imports) \cup X),
           NEW incoming \in SUBSET Records, IsFiniteSet(incoming),
           \A u \in incoming \cap Units, v \in X : <<u, v>> \notin Findings
    PROVE  Before((held \ Imports) \cup X, held, Provided(held) \cup Provided(X), incoming)
  <1> DEFINE D == (held \ Imports) \cup X
  <1>1. ASSUME NEW r \in Records
        PROVE  Names[r] \cap (Provided(held) \cup Provided(X)) = Names[r] \cap Provided(D)
    <2>1. Names[r] \cap Provided(Imports) = {}
      BY DEF Independent, OneProvider
    <2>2. Provided(D) \subseteq Provided(held) \cup Provided(X)
      BY DEF Provided
    <2>3. Provided(held) \cup Provided(X) \subseteq Provided(D) \cup Provided(Imports)
      BY DEF Provided
    <2> HIDE DEF D
    <2> QED
      BY <2>1, <2>2, <2>3
  <1>2. D \ held \subseteq X
    OBVIOUS
  <1> QED
    BY <1>1, <1>2 DEF Before

(* Two records of one file have no findings between them.                  *)
LEMMA OneFile ==
    ASSUME Independent, NEW n \in Imports, NEW X, X \subseteq Logged(File[n]),
           NEW D, X \subseteq D, Closed(D), NEW in, in \subseteq Logged(File[n])
    PROVE  \A u \in in \cap Units, v \in X : <<u, v>> \notin Findings
  <1> SUFFICES ASSUME NEW u \in in \cap Units, NEW v \in X, <<u, v>> \in Findings
               PROVE  FALSE
    OBVIOUS
  <1>1. u \in Records /\ v \in Content /\ {u, v} \subseteq File[n]
    BY RecordsContent DEF Records, Logged
  <1>2. u = v
    BY <1>1 DEF Independent, OwnFindings
  <1>3. u \in Faulty
    BY <1>1 DEF Faulty
  <1> QED
    BY <1>2, <1>3 DEF Closed, Settles

LEMMA ProvidedNone == Provided({}) = {}
  BY DEF Provided

LEMMA ImportRecorded == \A n \in Imports : Logged(File[n]) \subseteq Records \ Imports
  BY ImportShapes DEF Records, Logged

-----------------------------------------------------------------------------
(* What there is to show of a step of the command at work.                 *)
LEMMA OneOrders ==
    ASSUME ImportInv, ImportInv', NEW c \in Commands, pc[c] # "idle", Knowing(c),
           \A d \in Commands \ {c} : pc'[d] = pc[d],
           Busy(c)' => AtWork(c)', ~Busy(c)' => AtRest'
    PROVE  OrderInv'
  <1>1. ASSUME NEW d \in Commands \ {c} PROVE ~Busy(d)'
    <2>1. pc'[d] = "idle"
      BY OneAtWork
    <2> QED
      BY <2>1 DEF Busy, Fetches, Fetching, Writing
  <1> QED
    BY <1>1 DEF OrderInv

(* Of a step that neither takes up nor lays down the tables.               *)
LEMMA BusyOrders ==
    ASSUME ImportInv, ImportInv', OrderInv, troubles = 0, NEW c \in Commands,
           pc[c] # "idle", Knowing(c), Busy(c), Busy(c)', pc' = [pc EXCEPT ![c] = pc'[c]],
           UNCHANGED gaveUp, catalog.versions \subseteq catalog'.versions,
           work'[c].tables.batches = work[c].tables.batches,
           Tidy /\ Outcome(Held, staged, quarantine)
             /\ Ledger(Held, staged, waiting, quarantine, work[c].tables, Leaving(c))
             /\ Pending(c)
             => /\ Outcome(Held', staged', quarantine')
                /\ Ledger(Held', staged', waiting', quarantine', work'[c].tables, Leaving(c)')
                /\ Pending(c)'
    PROVE  OrderInv'
  <1>1. AtWork(c)
    BY DEF OrderInv
  <1>2. \A d \in Commands \ {c} : pc'[d] = pc[d]
    BY DEF ImportInv, ImportShape, LibShape
  <1>3. \A n \in gaveUp' : work'[c].tables.batches[n] = "discarded"
    BY <1>1 DEF AtWork, Stored
  <1>4. Tidy' => Tidy
    BY DEF Tidy
  <1>5. AtWork(c)'
    BY <1>1, <1>3, <1>4 DEF AtWork, Stored
  <1> QED
    BY <1>2, <1>5, OneOrders

(* What is at rest stays so. *)
LEMMA RestOrders ==
    ASSUME ImportInv, ImportInv', OrderInv, WaitInv, troubles = 0, NEW c \in Commands,
           pc[c] # "idle", ~Busy(c), ~Busy(c)', pc' = [pc EXCEPT ![c] = pc'[c]],
           UNCHANGED impvars, catalog.versions \subseteq catalog'.versions,
           catalog'.held = catalog.held
    PROVE  OrderInv'
  <1>1. Knowing(c) /\ \A d \in Commands \ {c} : pc'[d] = pc[d]
    BY DEF WaitInv, ImportInv, ImportShape, LibShape
  <1>2. AtRest
    <2>1. \A d \in Commands : ~Busy(d)
      BY <1>1, OneAtWork DEF Busy, Fetches, Fetching, Writing
    <2> QED
      BY <2>1 DEF OrderInv
  <1>3. Tidy' => Tidy
    BY DEF Tidy, impvars
  <1>4. AtRest'
    BY <1>2, <1>3 DEF AtRest, Stored, OnDisk, Held, impvars
  <1> QED
    BY <1>1, <1>4, OneOrders

LEMMA LibStepOrders ==
    ASSUME ImportInv, ImportInv', WaitInv, OrderInv, troubles = 0, NEW c \in Commands,
           LibStep(c), UNCHANGED impvars
    PROVE  OrderInv'
  <1> USE DEF ImportInv, ImportShape
  <1>1. pc[c] # "idle" /\ pc' = [pc EXCEPT ![c] = pc'[c]]
    BY DEF LibStep, Unlink, Enforced, Looked, Acquire, AcquireRefused, Finish, BeginAdd,
       AppendRefused, PutHeld, PutTemp, PutRename, Unchanged, Adding, AddManifest, Redact,
       RedactDone, Step, Goto, Exit, LetGo, LibShape
  <1>2. catalog'.held = catalog.held /\ catalog.versions \subseteq catalog'.versions
    BY DEF LibStep, Unlink, Enforced, Looked, Acquire, AcquireRefused, Finish, BeginAdd,
       AppendRefused, PutHeld, PutTemp, PutRename, Unchanged, AddManifest, Redact,
       RedactDone, Record, LetGo
  <1>3. CASE Busy(c)
    <2>1. PutHeld(c) \/ PutTemp(c) \/ PutRename(c)
      BY <1>3 DEF LibStep, Unlink, Enforced, Looked, Acquire, AcquireRefused, Finish,
         BeginAdd, AppendRefused, Unchanged, Adding, AddManifest, Redact, RedactDone,
         Step, Busy, Fetches, Fetching, Writing, Doing, Is
    <2>2. /\ pc[c] \in Fetching /\ pc'[c] \in Fetching /\ UNCHANGED <<op, catalog>>
          /\ Fetches(c)
      BY <1>3, <2>1 DEF PutHeld, PutTemp, PutRename, Step, Goto, Fetching, LibShape,
         Busy, Writing
    <2>3. Busy(c)' /\ Knowing(c)
      BY <2>2 DEF Busy, Fetches, Doing, WaitInv
    <2>4. Leaving(c)' = Leaving(c)
      BY <2>2 DEF Leaving, Doing, On
    <2>5. Pending(c) => Pending(c)'
      BY <2>2 DEF Pending, Classing, Fetches, Filing, Fetching, Takes, Doing, On, Held,
         impvars
    <2> QED
      BY <1>1, <1>2, <1>3, <2>2, <2>3, <2>4, <2>5, BusyOrders DEF impvars, Held
  <1>4. CASE ~Busy(c)
    <2>1. ~Busy(c)'
      BY <1>4 DEF LibStep, Unlink, Enforced, Looked, Acquire, AcquireRefused, Finish,
         BeginAdd, AppendRefused, PutHeld, PutTemp, PutRename, Unchanged, AddManifest,
         Redact, RedactDone, Step, Goto, Exit, LetGo, LibShape, Busy, Fetches, Fetching,
         Writing, Doing, Is
    <2> QED
      BY <1>1, <1>2, <1>4, <2>1, RestOrders
  <1> QED
    BY <1>3, <1>4

LEMMA StartOrders ==
    ASSUME ImportInv, OrderInv, troubles = 0, troubles' = 0, NEW c \in Commands,
           NEW task \in TextTasks \cup ImportTasks, Start(c, task)
    PROVE  OrderInv'
  <1> USE DEF ImportInv, ImportShape
  <1>1. Open(c, task) /\ UNCHANGED impvars /\ Live = {}
    BY DEF Start, Trouble
  <1>2. /\ \A d \in Commands : pc[d] = "idle" /\ pc'[d] = IF d = c THEN "enforce" ELSE "idle"
        /\ UNCHANGED catalog
    BY <1>1 DEF Open, Step, Goto, Live, LibShape
  <1>3. \A d \in Commands : ~Busy(d) /\ ~Busy(d)'
    BY <1>2 DEF Busy, Fetches, Fetching, Writing
  <1>4. AtRest'
    <2>1. AtRest
      BY <1>3 DEF OrderInv
    <2> QED
      BY <1>1, <1>2, <2>1 DEF AtRest, Stored, OnDisk, Held, Tidy, impvars
  <1> QED
    BY <1>3, <1>4 DEF OrderInv

LEMMA StillOrders ==
    ASSUME OrderInv, UNCHANGED <<catalog, pc, op, impvars, troubles>>
    PROVE  OrderInv'
  <1>1. \A d \in Commands : (Busy(d)' <=> Busy(d)) /\ Leaving(d)' = Leaving(d)
    BY DEF Busy, Fetches, Doing, Leaving, On
  <1>2. \A d \in Commands : Pending(d)' <=> Pending(d)
    BY DEF Pending, Classing, Fetches, Takes, Doing, On, Held, impvars
  <1>3. Tidy' <=> Tidy
    BY DEF Tidy, impvars
  <1>4. AtRest => AtRest'
    BY <1>3 DEF AtRest, Stored, OnDisk, Held, impvars
  <1>5. ASSUME NEW d \in Commands, AtWork(d) PROVE AtWork(d)'
    BY <1>1, <1>2, <1>3, <1>5 DEF AtWork, Stored, Held, impvars
  <1> QED
    BY <1>1, <1>4, <1>5 DEF OrderInv

LEMMA RefusedOrders ==
    ASSUME ImportInv, ImportInv', WaitInv, OrderInv, troubles = 0, NEW c \in Commands,
           ImportRefused(c) \/ NotStaged(c)
    PROVE  OrderInv'
  <1>1. /\ pc[c] = "locked" /\ pc' = [pc EXCEPT ![c] = "idle"]
        /\ UNCHANGED <<catalog, impvars>>
    BY DEF ImportRefused, NotStaged, LetGo, Exit, Goto
  <1>2. pc'[c] = "idle"
    BY <1>1 DEF ImportInv, ImportShape, LibShape
  <1>3. ~Busy(c) /\ ~Busy(c)'
    BY <1>1, <1>2 DEF Busy, Fetches, Fetching, Writing
  <1> QED
    BY <1>1, <1>2, <1>3, RestOrders

-----------------------------------------------------------------------------
(* What a command classifies, it classifies beside the library as it is,   *)
(* and beside what is staged of the import.                                *)
LEMMA SortedWell ==
    ASSUME ImportInv, Tidy, NEW c \in Commands, pc[c] # "idle", Knowing(c),
           Held \subseteq Records, NEW n \in Imports,
           NEW X, X \subseteq Logged(File[n]), Closed(Held \cup X),
           NEW in, in \subseteq Logged(File[n])
    PROVE  LET cls == Classes(snap[c], Provided(X), in)
               A   == (Held \cup X) \cup cls.accepted
           IN  /\ cls = [accepted |-> cls.accepted, waiting |-> cls.waiting,
                         quarantined |-> cls.quarantined]
               /\ cls.accepted \subseteq in /\ cls.waiting \subseteq in
               /\ cls.quarantined \subseteq in
               /\ Closed(A)
               /\ \A r \in cls.quarantined : Fails(r, A)
  <1> DEFINE held  == catalog.held
             extra == PartsOf(snap[c]) \cup Provided(X)
             cls   == Classes(snap[c], Provided(X), in)
             D     == (held \ Imports) \cup X
  <1>1. snap[c].held = held /\ snap[c].versions = {} /\ held \subseteq Content
    BY DEF Knowing, Tidy, ImportInv, Sound, Knows, ImportShape, LibShape, Catalogs
  <1>2. PartsOf(snap[c]) = {}
    BY <1>1 DEF PartsOf, Added
  <1>3. extra = Provided(X)
    BY <1>2
  <1>4. cls = ClassifyAll(held, extra, in)
    BY <1>1 DEF Classes
  <1>5. Independent /\ Logged(File[n]) \subseteq Records
    BY ImportRecorded DEF Tidy
  <1>6. IsFiniteSet(in)
    <2>1. IsFiniteSet(File[n]) /\ in \subseteq File[n]
      BY ImportShapes DEF Logged
    <2> QED
      BY <2>1, FS_Subset
  <1>7. D \subseteq Records /\ Closed(D)
    BY <1>5 DEF Held
  <1>8. \A u \in in \cap Units, v \in X : <<u, v>> \notin Findings
    <2>1. X \subseteq D
      OBVIOUS
    <2> HIDE DEF D
    <2> QED
      BY <1>5, <1>7, <2>1, OneFile
  <1>9. Before(D, held, Provided(held) \cup Provided(X), in)
    <2> HIDE DEF held
    <2> QED
      BY <1>1, <1>5, <1>6, <1>7, <1>8, BesideLibrary
  <1>10. Before(D, held, Provided(held) \cup extra, in)
    BY <1>3, <1>9
  <1>11. cls = [accepted |-> cls.accepted, waiting |-> cls.waiting,
                quarantined |-> cls.quarantined]
    <2> HIDE DEF extra, cls, held
    <2>1. LET k == ClassifyAll(held, extra, in)
          IN  k = [accepted |-> k.accepted, waiting |-> k.waiting,
                   quarantined |-> k.quarantined]
      BY <1>6, ClassesShare
    <2> QED
      BY <1>4, <2>1
  <1> HIDE DEF extra, cls, held
  <1>12. /\ Closed(D \cup cls.accepted)
         /\ cls.accepted \subseteq in /\ cls.waiting \subseteq in
         /\ cls.quarantined \subseteq in
         /\ \A r \in cls.quarantined : Fails(r, D \cup cls.accepted)
    <2> HIDE DEF D
    <2> QED
      BY <1>4, <1>5, <1>10, Classified
  <1>13. D = Held \cup X
    BY DEF Held, held
  <1> QED
    BY <1>11, <1>12, <1>13 DEF cls

LEMMA TextBeside ==
    ASSUME NEW a, NEW w, NEW q, NEW cls, cls = [accepted |-> a, waiting |-> w, quarantined |-> q],
           NEW T, T \subseteq Objects
    PROVE  /\ Logged(WithText(cls, T).accepted) = Logged(a)
           /\ WithText(cls, T).waiting = w
           /\ Logged(WithText(cls, T).quarantined) = Logged(q)
  BY DEF WithText, Logged

(* What there is to show of a command that takes up the tables.            *)
LEMMA TakesUpOrders ==
    ASSUME ImportInv, ImportInv', OrderInv, WaitInv, troubles = 0, NEW c \in Commands,
           pc[c] = "locked", Busy(c)', pc' = [pc EXCEPT ![c] = pc'[c]],
           gaveUp \subseteq gaveUp', UNCHANGED catalog,
           \A n \in gaveUp : batches[n] = "discarded" => work'[c].tables.batches[n] = "discarded",
           \A n \in gaveUp' \ gaveUp : work'[c].tables.batches[n] = "discarded",
           Tidy /\ Tidy' /\ Outcome(Held, staged, quarantine)
             /\ Ledger(Held, staged, waiting, quarantine, OnDisk, {})
             => /\ Outcome(Held', staged', quarantine')
                /\ Ledger(Held', staged', waiting', quarantine', work'[c].tables, Leaving(c)')
                /\ Pending(c)'
    PROVE  OrderInv'
  <1>1. /\ Knowing(c) /\ ~Busy(c) /\ pc[c] # "idle"
        /\ \A d \in Commands \ {c} : pc'[d] = pc[d]
    BY DEF WaitInv, Busy, Fetches, Fetching, Writing, ImportInv, ImportShape, LibShape
  <1>2. AtRest
    <2>1. \A d \in Commands : ~Busy(d)
      BY <1>1, OneAtWork DEF Busy, Fetches, Fetching, Writing
    <2> QED
      BY <2>1 DEF OrderInv
  <1>3. \A n \in gaveUp' : work'[c].tables.batches[n] = "discarded"
    BY <1>2 DEF AtRest, Stored, OnDisk
  <1>4. Tidy' => Tidy
    BY DEF Tidy
  <1>5. AtWork(c)'
    BY <1>2, <1>3, <1>4 DEF AtRest, AtWork, Stored
  <1> QED
    BY <1>1, <1>5, OneOrders

LEMMA BroughtRecords ==
    ASSUME NEW st, NEW wa, NEW qu, NEW t, NEW l, Ledger(Held, st, wa, qu, t, l)
    PROVE  Held \subseteq Records
  BY DEF Ledger, Brought, Records

LEMMA BeginImportOrders ==
    ASSUME ImportInv, ImportInv', WaitInv, OrderInv, troubles = 0, NEW c \in Commands,
           BeginImport(c)
    PROVE  OrderInv'
  <1> USE DEF ImportInv, ImportShape
  <1> DEFINE n   == On(c)
             in  == Incoming(c, n)
             k   == Classes(snap[c], {}, Logged(in))
             cls == WithText(k, Texts(in))
             bat == [batches EXCEPT ![n] = IF op[c].do = "import" THEN "accepted"
                                           ELSE "staged"]
             row == [r \in Content |-> IF r \in cls.waiting THEN n ELSE rows[r]]
             t   == [batches |-> bat, rows |-> row]
             w   == [cls |-> cls, move |-> None, tables |-> t]
  <1>1. /\ pc[c] = "locked" /\ Takes(c) /\ batches[n] = None
        /\ pc' = [pc EXCEPT ![c] = "put"] /\ UNCHANGED op
        /\ work' = [work EXCEPT ![c] = w]
        /\ UNCHANGED <<catalog, snap, staged, waiting, quarantine, batches, rows, gaveUp>>
    BY DEF BeginImport, Takes, MayImport, Working, Step, Goto
  <1>2. n \in Imports /\ Knowing(c)
    BY <1>1, OnImport DEF Takes, Doing, ImportOps, WaitInv
  <1>3. Logged(in) \subseteq Logged(File[n]) /\ Texts(in) \subseteq Objects
    BY DEF Incoming, TakenIn, Logged, Texts
  <1> HIDE DEF in, k, cls
  <1>4. pc'[c] = "put" /\ work'[c] = w /\ Takes(c)' /\ On(c)' = n
        /\ (Doing(c, {"stage"})' => op[c].do # "import")
    <2> HIDE DEF w
    <2> QED
      BY <1>1 DEF LibShape, Takes, Doing, On
  <1>5. Busy(c)' /\ Leaving(c)' = {}
    BY <1>4 DEF Busy, Fetches, Fetching, Takes, Doing, Leaving
  <1>6. /\ \A m \in Imports \ {n} : bat[m] = batches[m]
        /\ bat[n] # None /\ (op[c].do # "import" => bat[n] = "staged")
    BY <1>2, NothingBegun
  <1>7. \A r \in Content : /\ r \in cls.waiting => row[r] # None
                           /\ rows[r] # None => row[r] # None
    BY <1>2, NothingBegun
  <1> HIDE DEF bat, row
  <1>8. ASSUME Tidy, Outcome(Held, staged, quarantine),
               Ledger(Held, staged, waiting, quarantine, OnDisk, {})
        PROVE  /\ Ledger(Held, staged, waiting, quarantine, t, {})
               /\ WellSorted(Held, cls) /\ staged[n] = {} /\ quarantine[n] = {}
               /\ \A r \in Logged(cls.waiting) : row[r] # None
    <2>1. staged[n] = {} /\ quarantine[n] = {}
      BY <1>1, <1>2, <1>8, NothingBegun DEF Ledger, OnDisk
    <2>2. \A m \in Imports : waiting[m] \subseteq (Content \ Imports) \cup Objects
      BY ImportShapes DEF Files
    <2>3. Ledger(Held, staged, waiting, quarantine, t, {})
      <3>1. \A r \in Held : Brought(r, t)
        BY <1>1, <1>6, <1>8 DEF Ledger, Brought, OnDisk
      <3>2. \A m \in Imports \ {} : staged[m] # {} => bat[m] = "staged"
        BY <1>6, <1>8, <2>1 DEF Ledger, OnDisk
      <3>3. \A m \in Imports : quarantine[m] # {} => bat[m] # None
        BY <1>6, <1>8 DEF Ledger, OnDisk
      <3>4. \A m \in Imports : \A r \in Logged(waiting[m]) :
               row[r] # None \/ r \in Held \/ Sided(r, staged, quarantine)
        BY <1>7, <1>8, <2>2 DEF Ledger, OnDisk, Logged
      <3> QED
        BY <3>1, <3>2, <3>3, <3>4 DEF Ledger
    <2>4. /\ k = [accepted |-> k.accepted, waiting |-> k.waiting, quarantined |-> k.quarantined]
          /\ k.accepted \subseteq Logged(in) /\ k.waiting \subseteq Logged(in)
          /\ k.quarantined \subseteq Logged(in)
          /\ Closed(Held \cup k.accepted)
          /\ \A r \in k.quarantined : Fails(r, Held \cup k.accepted)
      <3>1. Held \subseteq Records
        BY <1>8, BroughtRecords
      <3>2. Closed(Held \cup {}) /\ {} \subseteq Logged(File[n])
        BY <1>8 DEF Outcome
      <3>3. LET j == Classes(snap[c], Provided({}), Logged(in))
                A == (Held \cup {}) \cup j.accepted
            IN  /\ j = [accepted |-> j.accepted, waiting |-> j.waiting,
                        quarantined |-> j.quarantined]
                /\ j.accepted \subseteq Logged(in) /\ j.waiting \subseteq Logged(in)
                /\ j.quarantined \subseteq Logged(in)
                /\ Closed(A)
                /\ \A r \in j.quarantined : Fails(r, A)
        <4>1. pc[c] # "idle"
          BY <1>1
        <4> HIDE DEF n
        <4> QED
          BY <1>2, <1>3, <1>8, <3>1, <3>2, <4>1, SortedWell
      <3>4. Held \cup {} = Held
        OBVIOUS
      <3> QED
        BY <3>3, <3>4, ProvidedNone DEF k
    <2>5. /\ Logged(cls.accepted) = Logged(k.accepted) /\ cls.waiting = k.waiting
          /\ Logged(cls.quarantined) = Logged(k.quarantined)
      BY <1>3, <2>4, TextBeside DEF cls
    <2>6. Logged(k.accepted) = k.accepted /\ Logged(k.quarantined) = k.quarantined
      BY <2>4 DEF Logged
    <2>7. WellSorted(Held, cls)
      BY <2>4, <2>5, <2>6 DEF WellSorted, AllFail
    <2>8. Logged(cls.waiting) \subseteq cls.waiting /\ cls.waiting \subseteq Content
      BY <1>2, <1>3, <2>4, <2>5, ImportShapes DEF Logged
    <2> QED
      BY <1>7, <2>1, <2>3, <2>7, <2>8
  <1>9. Held' = Held
    BY <1>1 DEF Held
  <1>10. ASSUME Tidy, Outcome(Held, staged, quarantine),
                Ledger(Held, staged, waiting, quarantine, OnDisk, {})
         PROVE  Pending(c)'
    BY <1>1, <1>4, <1>6, <1>8, <1>9, <1>10 DEF Pending
  <1>11. work'[c].tables = t
    BY <1>4
  <1>12. /\ \A m \in gaveUp : batches[m] = "discarded" => work'[c].tables.batches[m] = "discarded"
         /\ gaveUp \subseteq gaveUp' /\ gaveUp' \ gaveUp = {}
    BY <1>1, <1>6, <1>11, NothingBegun
  <1> HIDE DEF t, w, n
  <1>13. pc' = [pc EXCEPT ![c] = pc'[c]]
    BY <1>1, <1>4
  <1> QED
    BY <1>1, <1>5, <1>8, <1>9, <1>10, <1>11, <1>12, <1>13, TakesUpOrders

LEMMA LedgerGrows ==
    ASSUME NEW H, NEW st, NEW wa, NEW qu, NEW t, NEW l, Ledger(H, st, wa, qu, t, l),
           NEW G, H \subseteq G, \A r \in G \ H : Brought(r, t)
    PROVE  Ledger(G, st, wa, qu, t, l)
  BY DEF Ledger

(* What records append to what is held. *)
LEMMA HeldGrows ==
    ASSUME ImportInv, NEW c \in Commands, pc[c] # "idle",
           NEW R \in SUBSET Content, Record(c, {}, {}, R)
    PROVE  Held' = Held \cup (R \ Imports) /\ catalog.versions \subseteq catalog'.versions
  <1>1. /\ catalog'.held = catalog.held \cup R
        /\ catalog'.versions = catalog.versions
    BY ImportRecords DEF ImportInv, ImportShape
  <1> QED
    BY <1>1 DEF Held

LEMMA ImportLogOrders ==
    ASSUME ImportInv, ImportInv', WaitInv, OrderInv, troubles = 0, NEW c \in Commands,
           ImportLog(c)
    PROVE  OrderInv'
  <1> USE DEF ImportInv, ImportShape
  <1> DEFINE cls == work[c].cls
             t   == work[c].tables
             new == IF op[c].do = "import" THEN Logged(cls.accepted) ELSE {}
             R   == {On(c)} \cup new
  <1>1. /\ pc[c] = "put" /\ Takes(c)
        /\ pc' = [pc EXCEPT ![c] = IF op[c].do = "import" THEN "waiting" ELSE "staging"]
        /\ UNCHANGED <<op, staged, waiting, quarantine, batches, rows, work, gaveUp>>
        /\ Record(c, {}, {}, R)
    BY DEF ImportLog, Takes, Working, Step, Goto, impvars
  <1>2. On(c) \in Imports
    BY <1>1, OnImport DEF Takes, Doing, ImportOps
  <1>3. Fetches(c) /\ Classing(c) /\ Busy(c) /\ Knowing(c)
    BY <1>1 DEF Fetches, Classing, Busy, Takes, Doing, Fetching, WaitInv
  <1>4. R \in SUBSET Content /\ new \subseteq Logged(File[On(c)]) /\ new \cap Imports = {}
    BY <1>2, <1>3, ImportShapes DEF Sorts, Worked, Logged
  <1>5. /\ pc'[c] = IF op[c].do = "import" THEN "waiting" ELSE "staging"
        /\ Takes(c)' /\ On(c)' = On(c)
        /\ (Doing(c, {"stage"})' <=> Doing(c, {"stage"}))
        /\ (Doing(c, {"stage"}) <=> op[c].do # "import")
    BY <1>1 DEF LibShape, Takes, Doing, On
  <1>6. Busy(c)' /\ Leaving(c) = {} /\ Leaving(c)' = {} /\ Classing(c)'
    BY <1>1, <1>5 DEF Busy, Writing, Leaving, Takes, Doing, Classing, Filing
  <1>7. Held' = Held \cup new /\ catalog.versions \subseteq catalog'.versions
    <2>1. R \ Imports = new /\ pc[c] # "idle"
      BY <1>1, <1>2, <1>4
    <2> HIDE DEF R
    <2> QED
      BY <1>1, <1>4, <2>1, HeldGrows
  <1> HIDE DEF R
  <1>8. ASSUME Tidy, Outcome(Held, staged, quarantine),
               Ledger(Held, staged, waiting, quarantine, t, Leaving(c)), Pending(c)
        PROVE  /\ Outcome(Held', staged', quarantine')
               /\ Ledger(Held', staged', waiting', quarantine', work'[c].tables, Leaving(c)')
               /\ Pending(c)'
    <2>1. /\ WellSorted(Held, cls) /\ t.batches[On(c)] # None /\ staged[On(c)] = {}
          /\ \A r \in Logged(cls.waiting) : t.rows[r] # None
          /\ Doing(c, {"stage"}) => t.batches[On(c)] = "staged"
          /\ quarantine[On(c)] = {}
      BY <1>1, <1>3, <1>8 DEF Pending, Fetching
    <2>2. Closed(Held \cup new)
      <3>1. Closed(Held) /\ Closed(Held \cup Logged(cls.accepted))
        BY <1>8, <2>1 DEF Outcome, WellSorted
      <3>2. Held \cup {} = Held
        OBVIOUS
      <3> QED
        BY <3>1, <3>2
    <2>3. Outcome(Held', staged', quarantine')
      <3> HIDE DEF new
      <3> QED
        BY <1>1, <1>7, <1>8, <2>2, OutcomeGrows
    <2>4. Ledger(Held', staged', waiting', quarantine', work'[c].tables, Leaving(c)')
      <3>1. \A r \in new : Brought(r, t)
        BY <1>2, <1>4, <2>1 DEF Brought
      <3> HIDE DEF new, t
      <3>2. Ledger(Held \cup new, staged, waiting, quarantine, t, {})
        BY <1>6, <1>8, <3>1, LedgerGrows
      <3> QED
        BY <1>1, <1>6, <1>7, <3>2 DEF t
    <2>5. Pending(c)'
      <3>1. CASE op[c].do = "import"
        <4>1. AllFail(cls.quarantined, Held' \cup Logged(staged[On(c)]))
          <5>1. AllFail(cls.quarantined, Held \cup Logged(cls.accepted))
            BY <2>1 DEF WellSorted
          <5>2. Held \cup Logged(cls.accepted) \subseteq Held' \cup Logged(staged[On(c)])
            BY <1>7, <3>1
          <5> HIDE DEF cls
          <5> QED
            BY <5>1, <5>2, FailsBeside
        <4>2. pc'[c] = "waiting" /\ ~Doing(c, {"stage"})'
          BY <1>5, <3>1
        <4> QED
          BY <1>1, <1>5, <2>1, <4>1, <4>2 DEF Pending, Fetching
      <3>2. CASE op[c].do # "import"
        <4>1. pc'[c] = "staging" /\ Held' = Held
          BY <1>5, <1>7, <3>2
        <4> QED
          BY <1>1, <1>5, <2>1, <3>2, <4>1 DEF Pending
      <3> QED
        BY <3>1, <3>2
    <2> QED
      BY <2>3, <2>4, <2>5
  <1>9. pc' = [pc EXCEPT ![c] = pc'[c]] /\ pc[c] # "idle"
    BY <1>1, <1>5
  <1> QED
    BY <1>1, <1>3, <1>6, <1>7, <1>8, <1>9, BusyOrders

LEMMA WriteStagedOrders ==
    ASSUME ImportInv, ImportInv', WaitInv, OrderInv, troubles = 0, NEW c \in Commands,
           WriteStaged(c)
    PROVE  OrderInv'
  <1> USE DEF ImportInv, ImportShape
  <1> DEFINE cls == work[c].cls
             n   == On(c)
  <1>1. /\ pc[c] = "staging" /\ pc' = [pc EXCEPT ![c] = "waiting"]
        /\ UNCHANGED <<op, catalog, waiting, quarantine, work, gaveUp>>
        /\ staged' = [staged EXCEPT ![n] = cls.accepted]
    BY DEF WriteStaged, Working, Step, Goto
  <1>2. Takes(c) /\ Doing(c, {"stage"}) /\ Busy(c) /\ Classing(c) /\ Knowing(c)
    BY <1>1 DEF Placed, Takes, Doing, Busy, Writing, Classing, Filing, WaitInv
  <1>3. n \in Imports
    BY <1>2, OnImport DEF Takes, Doing, ImportOps
  <1>4. pc'[c] = "waiting" /\ Takes(c)' /\ On(c)' = n
    BY <1>1, <1>2 DEF LibShape, Takes, Doing, On
  <1>5. Busy(c)' /\ Leaving(c) = {} /\ Leaving(c)' = {} /\ Held' = Held
    BY <1>1, <1>2, <1>4 DEF Busy, Writing, Leaving, Takes, Doing, Held
  <1>6. staged'[n] = cls.accepted /\ \A m \in Imports \ {n} : staged'[m] = staged[m]
    BY <1>1, <1>3 DEF Files
  <1> HIDE DEF n, cls
  <1>8. ASSUME Tidy, Outcome(Held, staged, quarantine),
               Ledger(Held, staged, waiting, quarantine, work[c].tables, Leaving(c)), Pending(c)
        PROVE  /\ Outcome(Held', staged', quarantine')
               /\ Ledger(Held', staged', waiting', quarantine', work'[c].tables, Leaving(c)')
               /\ Pending(c)'
    <2> DEFINE t == work[c].tables
    <2>1. /\ WellSorted(Held, cls) /\ t.batches[n] = "staged" /\ staged[n] = {}
          /\ quarantine[n] = {}
          /\ \A r \in Logged(cls.waiting) : t.rows[r] # None
      BY <1>1, <1>2, <1>8 DEF Pending, n, cls
    <2>2. Outcome(Held', staged', quarantine')
      <3>1. Closed(Held \cup Logged(staged'[n])) /\ Logged(staged[n]) = {}
        BY <1>6, <2>1 DEF WellSorted, Logged
      <3> QED
        BY <1>1, <1>3, <1>5, <1>6, <1>8, <3>1, StagedMoves
    <2> HIDE DEF t
    <2>3. Ledger(Held, staged', waiting, quarantine, t, {})
      <3>1. Ledger(Held, staged, waiting, quarantine, t, {})
        BY <1>5, <1>8 DEF t
      <3>2. \A r : Sided(r, staged, quarantine) => Sided(r, staged', quarantine)
        BY <1>6, <2>1 DEF Sided
      <3> QED
        BY <1>6, <2>1, <3>1, <3>2 DEF Ledger
    <2>4. Ledger(Held', staged', waiting', quarantine', work'[c].tables, Leaving(c)')
      BY <1>1, <1>5, <2>3 DEF t
    <2>5. Pending(c)'
      <3>1. t.batches[n] # None
        BY <2>1, NothingBegun
      <3>2. AllFail(cls.quarantined, Held \cup Logged(staged'[n]))
        BY <1>6, <2>1 DEF WellSorted
      <3> QED
        BY <1>1, <1>4, <1>5, <2>1, <3>1, <3>2 DEF Pending, Fetching, t, cls
    <2> QED
      BY <2>2, <2>4, <2>5
  <1>9. pc' = [pc EXCEPT ![c] = pc'[c]] /\ pc[c] # "idle"
    BY <1>1, <1>4
  <1> QED
    BY <1>1, <1>2, <1>5, <1>8, <1>9, BusyOrders

LEMMA WriteWaitingOrders ==
    ASSUME ImportInv, ImportInv', WaitInv, OrderInv, troubles = 0, NEW c \in Commands,
           WriteWaiting(c)
    PROVE  OrderInv'
  <1> USE DEF ImportInv, ImportShape
  <1> DEFINE cls == work[c].cls
             n   == On(c)
  <1>1. /\ pc[c] = "waiting" /\ pc' = [pc EXCEPT ![c] = "apart"]
        /\ UNCHANGED <<op, catalog, staged, quarantine, work, gaveUp>>
        /\ waiting' = [waiting EXCEPT ![n] = IF cls.waiting = {} THEN @ ELSE cls.waiting]
    BY DEF WriteWaiting, Working, Step, Goto
  <1>2. Takes(c) /\ Busy(c) /\ Classing(c) /\ Knowing(c)
    BY <1>1 DEF Placed, Busy, Writing, Classing, Filing, WaitInv
  <1>3. n \in Imports
    BY <1>2, OnImport DEF Takes, Doing, ImportOps
  <1>4. pc'[c] = "apart" /\ Takes(c)' /\ On(c)' = n
    BY <1>1, <1>2 DEF LibShape, Takes, Doing, On
  <1>5. Busy(c)' /\ Leaving(c) = {} /\ Leaving(c)' = {} /\ Held' = Held
    BY <1>1, <1>2, <1>4 DEF Busy, Writing, Leaving, Takes, Doing, Held
  <1>6. /\ waiting'[n] \in {waiting[n], cls.waiting}
        /\ \A m \in Imports \ {n} : waiting'[m] = waiting[m]
    BY <1>1, <1>3 DEF Files
  <1> HIDE DEF n, cls
  <1>8. ASSUME Tidy, Outcome(Held, staged, quarantine),
               Ledger(Held, staged, waiting, quarantine, work[c].tables, Leaving(c)), Pending(c)
        PROVE  /\ Outcome(Held', staged', quarantine')
               /\ Ledger(Held', staged', waiting', quarantine', work'[c].tables, Leaving(c)')
               /\ Pending(c)'
    <2> DEFINE t == work[c].tables
    <2>1. /\ \A r \in Logged(cls.waiting) : t.rows[r] # None
          /\ AllFail(cls.quarantined, Held \cup Logged(staged[n])) /\ t.batches[n] # None
          /\ quarantine[n] = {}
      BY <1>1, <1>2, <1>8 DEF Pending, n, cls
    <2>2. Ledger(Held, staged, waiting', quarantine, t, {})
      <3>1. Ledger(Held, staged, waiting, quarantine, t, {})
        BY <1>5, <1>8
      <3> HIDE DEF t
      <3> QED
        BY <1>6, <2>1, <3>1 DEF Ledger
    <2>3. Ledger(Held', staged', waiting', quarantine', work'[c].tables, Leaving(c)')
      BY <1>1, <1>5, <2>2
    <2>4. Pending(c)'
      BY <1>1, <1>4, <1>5, <2>1 DEF Pending, Fetching, cls
    <2> QED
      BY <1>1, <1>5, <1>8, <2>3, <2>4
  <1>9. pc' = [pc EXCEPT ![c] = pc'[c]] /\ pc[c] # "idle"
    BY <1>1, <1>4
  <1> QED
    BY <1>1, <1>2, <1>5, <1>8, <1>9, BusyOrders

LEMMA WriteQuarantineOrders ==
    ASSUME ImportInv, ImportInv', WaitInv, OrderInv, troubles = 0, NEW c \in Commands,
           WriteQuarantine(c)
    PROVE  OrderInv'
  <1> USE DEF ImportInv, ImportShape
  <1> DEFINE cls == work[c].cls
             n   == On(c)
  <1>1. /\ pc[c] = "apart" /\ pc' = [pc EXCEPT ![c] = pc'[c]]
        /\ pc'[c] \in {"promote", "save"}
        /\ UNCHANGED <<op, catalog, staged, waiting, work, gaveUp>>
        /\ quarantine' = [quarantine EXCEPT ![n] = IF cls.quarantined = {} THEN @
                                                   ELSE cls.quarantined]
    BY DEF WriteQuarantine, Working, Step, Goto, LibShape
  <1>2. Takes(c) /\ Busy(c) /\ Classing(c) /\ Knowing(c)
    BY <1>1 DEF Placed, Busy, Writing, Classing, Filing, WaitInv
  <1>3. n \in Imports
    BY <1>2, OnImport DEF Takes, Doing, ImportOps
  <1>5. Busy(c)' /\ Leaving(c) = {} /\ Leaving(c)' = {} /\ Held' = Held
    BY <1>1, <1>2 DEF Busy, Writing, Leaving, Takes, Doing, Held, Fetching
  <1>6. /\ quarantine'[n] \in {quarantine[n], cls.quarantined}
        /\ (cls.quarantined # {} => quarantine'[n] = cls.quarantined)
        /\ \A m \in Imports \ {n} : quarantine'[m] = quarantine[m]
    BY <1>1, <1>3 DEF Files
  <1> HIDE DEF n, cls
  <1>8. ASSUME Tidy, Outcome(Held, staged, quarantine),
               Ledger(Held, staged, waiting, quarantine, work[c].tables, Leaving(c)), Pending(c)
        PROVE  /\ Outcome(Held', staged', quarantine')
               /\ Ledger(Held', staged', waiting', quarantine', work'[c].tables, Leaving(c)')
               /\ Pending(c)'
    <2> DEFINE t == work[c].tables
    <2>1. /\ AllFail(cls.quarantined, Held \cup Logged(staged[n])) /\ t.batches[n] # None
          /\ quarantine[n] = {}
      BY <1>1, <1>2, <1>8 DEF Pending, n, cls
    <2>2. Outcome(Held, staged, quarantine')
      <3>1. AllFail(quarantine'[n], Held \cup Logged(staged[n]))
        BY <1>3, <1>6, <1>8, <2>1 DEF Outcome
      <3> QED
        BY <1>3, <1>6, <1>8, <3>1, QuarantineMoves
    <2>3. Ledger(Held, staged, waiting, quarantine', t, {})
      <3>1. Ledger(Held, staged, waiting, quarantine, t, {})
        BY <1>5, <1>8
      <3> HIDE DEF t
      <3>2. \A r : Sided(r, staged, quarantine) => Sided(r, staged, quarantine')
        BY <1>6, <2>1 DEF Sided
      <3> QED
        BY <1>6, <2>1, <3>1, <3>2 DEF Ledger
    <2>4. Ledger(Held', staged', waiting', quarantine', work'[c].tables, Leaving(c)')
      BY <1>1, <1>5, <2>3
    <2>5. Pending(c)'
      BY <1>1 DEF Pending, Fetching, Fetches, Filing, Classing
    <2> QED
      BY <1>1, <1>5, <2>2, <2>4, <2>5
  <1>9. pc[c] # "idle"
    BY <1>1
  <1> QED
    BY <1>1, <1>2, <1>5, <1>8, <1>9, BusyOrders

-----------------------------------------------------------------------------
LEMMA BeginAcceptOrders ==
    ASSUME ImportInv, ImportInv', WaitInv, OrderInv, troubles = 0, NEW c \in Commands,
           BeginAccept(c)
    PROVE  OrderInv'
  <1> USE DEF ImportInv, ImportShape
  <1> DEFINE n == On(c)
             t == [OnDisk EXCEPT !.batches[On(c)] = "accepted"]
             w == [cls |-> [accepted |-> staged[On(c)], waiting |-> {}, quarantined |-> {}],
                   move |-> None, tables |-> t]
  <1>1. /\ pc[c] = "locked" /\ Doing(c, {"accept"}) /\ batches[n] = "staged"
        /\ pc' = [pc EXCEPT ![c] = "put"] /\ UNCHANGED op
        /\ work' = [work EXCEPT ![c] = w]
        /\ UNCHANGED <<catalog, staged, waiting, quarantine, gaveUp>>
    BY DEF BeginAccept, Working, Step, Goto
  <1>2. n \in Imports
    BY <1>1, OnImport DEF Doing, ImportOps
  <1>3. /\ t.rows = rows
        /\ \A m \in Imports : t.batches[m] = IF m = n THEN "accepted" ELSE batches[m]
    BY DEF OnDisk
  <1> HIDE DEF t, n
  <1>4. pc'[c] = "put" /\ work'[c].tables = t /\ Doing(c, {"accept"})' /\ On(c)' = n
    BY <1>1 DEF LibShape, Doing, On, n
  <1>5. Busy(c)' /\ Leaving(c)' = {n} /\ ~Takes(c)' /\ ~Doing(c, {"stage"})'
    BY <1>4 DEF Busy, Fetches, Fetching, Takes, Doing, Leaving
  <1>6. Held' = Held
    BY <1>1 DEF Held
  <1>7. \A m \in Imports : /\ batches[m] # None => t.batches[m] # None
                           /\ m # n => t.batches[m] = batches[m]
    BY <1>3, NothingBegun
  <1>8. ASSUME Ledger(Held, staged, waiting, quarantine, OnDisk, {})
        PROVE  Ledger(Held, staged, waiting, quarantine, t, {n})
    BY <1>3, <1>7, <1>8 DEF Ledger, Brought, OnDisk
  <1>9. Pending(c)'
    <2>1. t.batches[n] # None
      BY <1>1, <1>2, <1>7, NothingBegun
    <2> QED
      BY <1>4, <1>5, <2>1 DEF Pending
  <1>10. \A m \in gaveUp : batches[m] = "discarded" => work'[c].tables.batches[m] = "discarded"
    BY <1>1, <1>3, <1>4
  <1>11. pc' = [pc EXCEPT ![c] = pc'[c]] /\ gaveUp \subseteq gaveUp' /\ gaveUp' \ gaveUp = {}
    BY <1>1, <1>4
  <1> QED
    BY <1>1, <1>4, <1>5, <1>6, <1>8, <1>9, <1>10, <1>11, TakesUpOrders

LEMMA AcceptLogOrders ==
    ASSUME ImportInv, ImportInv', WaitInv, OrderInv, troubles = 0, NEW c \in Commands,
           AcceptLog(c)
    PROVE  OrderInv'
  <1> USE DEF ImportInv, ImportShape
  <1> DEFINE n   == On(c)
             new == Logged(work[c].cls.accepted)
  <1>1. /\ pc[c] = "put" /\ Doing(c, {"accept"})
        /\ pc' = [pc EXCEPT ![c] = "unstage"]
        /\ UNCHANGED <<op, staged, waiting, quarantine, work, gaveUp>>
        /\ Record(c, {}, {}, new)
    BY DEF AcceptLog, Working, Step, Goto, impvars
  <1>2. Fetches(c) /\ Classing(c) /\ Busy(c) /\ Knowing(c) /\ n \in Imports
    BY <1>1, OnImport DEF Fetches, Classing, Busy, Doing, Fetching, WaitInv, ImportOps
  <1>3. new = Logged(staged[n])
    BY <1>1 DEF Sorts, Unstaged, Fetching
  <1>4. new \subseteq Logged(File[n]) /\ new \subseteq Content \ Imports
    BY <1>2, <1>3, ImportShapes DEF Files, Logged
  <1>5. pc'[c] = "unstage" /\ Doing(c, {"accept"})' /\ On(c)' = n
    BY <1>1 DEF LibShape, Doing, On
  <1>6. Busy(c)' /\ Leaving(c) = {n} /\ Leaving(c)' = {n} /\ ~Classing(c)' /\ ~Takes(c)'
    BY <1>1, <1>5 DEF Busy, Writing, Leaving, Doing, Fetching, Classing, Fetches, Filing,
       Takes
  <1>7. Held' = Held \cup new /\ catalog.versions \subseteq catalog'.versions
    <2>1. new \in SUBSET Content /\ new \ Imports = new /\ pc[c] # "idle"
      BY <1>1, <1>4
    <2> HIDE DEF new
    <2> QED
      BY <1>1, <2>1, HeldGrows
  <1> HIDE DEF new, n
  <1>8. ASSUME Tidy, Outcome(Held, staged, quarantine),
               Ledger(Held, staged, waiting, quarantine, work[c].tables, Leaving(c)), Pending(c)
        PROVE  /\ Outcome(Held', staged', quarantine')
               /\ Ledger(Held', staged', waiting', quarantine', work'[c].tables, Leaving(c)')
               /\ Pending(c)'
    <2> DEFINE t == work[c].tables
    <2>1. t.batches[n] # None
      BY <1>2, <1>8 DEF Pending, n
    <2>2. Closed(Held \cup new)
      BY <1>2, <1>3, <1>8 DEF Outcome
    <2>3. Outcome(Held', staged', quarantine')
      BY <1>1, <1>7, <1>8, <2>2, OutcomeGrows
    <2>4. Ledger(Held', staged', waiting', quarantine', work'[c].tables, Leaving(c)')
      <3>1. \A r \in new : Brought(r, t)
        BY <1>2, <1>4, <2>1 DEF Brought
      <3> HIDE DEF t
      <3>2. Ledger(Held \cup new, staged, waiting, quarantine, t, {n})
        BY <1>6, <1>8, <3>1, LedgerGrows DEF t
      <3> QED
        BY <1>1, <1>6, <1>7, <3>2 DEF t
    <2>5. Pending(c)'
      BY <1>5, <1>6 DEF Pending, Fetching, Doing
    <2> QED
      BY <2>3, <2>4, <2>5
  <1>9. pc' = [pc EXCEPT ![c] = pc'[c]] /\ pc[c] # "idle"
    BY <1>1, <1>5
  <1> QED
    BY <1>1, <1>2, <1>6, <1>7, <1>8, <1>9, BusyOrders

(* What was staged is held by then. *)
LEMMA UnstageOrders ==
    ASSUME ImportInv, ImportInv', WaitInv, OrderInv, troubles = 0, NEW c \in Commands,
           Unstage(c)
    PROVE  OrderInv'
  <1> USE DEF ImportInv, ImportShape
  <1> DEFINE n == On(c)
  <1>1. /\ pc[c] = "unstage" /\ pc' = [pc EXCEPT ![c] = pc'[c]]
        /\ pc'[c] \in {"promote", "unwait"}
        /\ UNCHANGED <<op, catalog, waiting, quarantine, work, gaveUp>>
        /\ staged' = [staged EXCEPT ![n] = {}]
    BY DEF Unstage, Working, Step, Goto, LibShape
  <1>2. Busy(c) /\ Knowing(c) /\ Doing(c, {"accept", "discard"})
    BY <1>1 DEF Busy, Writing, WaitInv, Placed
  <1>3. n \in Imports
    BY <1>2, OnImport DEF Doing, ImportOps
  <1>4. Busy(c)' /\ Leaving(c)' = {} /\ Held' = Held
    BY <1>1 DEF Busy, Writing, Leaving, Fetching, Held
  <1>5. staged'[n] = {} /\ \A m \in Imports \ {n} : staged'[m] = staged[m]
    BY <1>1, <1>3 DEF Files
  <1>6. CASE Doing(c, {"accept"})
    <2>1. Leaving(c) = {n}
      BY <1>1, <1>6 DEF Leaving
    <2>2. Logged(staged[n]) \subseteq Held
      <3>1. \A x \in staged[n] : Landed(x, n)
        BY <1>1, <1>6 DEF Sorts, Unstaged
      <3>2. staged[n] \cap Imports \subseteq Objects
        BY <1>3, ImportShapes DEF Files
      <3> QED
        BY <3>1, <3>2 DEF Landed, Logged, Held, LibShape
    <2> HIDE DEF n
    <2>3. ASSUME Tidy, Outcome(Held, staged, quarantine),
                 Ledger(Held, staged, waiting, quarantine, work[c].tables, Leaving(c)),
                 Pending(c)
          PROVE  /\ Outcome(Held', staged', quarantine')
                 /\ Ledger(Held', staged', waiting', quarantine', work'[c].tables, Leaving(c)')
                 /\ Pending(c)'
      <3>1. Outcome(Held', staged', quarantine')
        <4>1. Held \cup Logged(staged'[n]) = Held
          BY <1>5 DEF Logged
        <4>2. Closed(Held)
          BY <2>3 DEF Outcome
        <4>3. Closed(Held \cup Logged(staged'[n]))
          BY <4>1, <4>2
        <4>4. Logged(staged[n]) \subseteq Held \cup Logged(staged'[n])
          BY <2>2
        <4>5. Outcome(Held, staged', quarantine)
          BY <1>3, <1>5, <2>3, <4>3, <4>4, StagedMoves
        <4> QED
          BY <1>1, <1>4, <4>5
      <3> DEFINE t == work[c].tables
      <3>2. Ledger(Held, staged', waiting, quarantine, t, {})
        <4>1. Ledger(Held, staged, waiting, quarantine, t, {n})
          BY <2>1, <2>3
        <4> HIDE DEF t
        <4>2. \A m \in Imports : \A r \in Logged(waiting[m]) :
                 Sided(r, staged, quarantine) => r \in Held \/ Sided(r, staged', quarantine)
          BY <1>5, <2>2 DEF Sided, Logged
        <4> QED
          BY <1>5, <4>1, <4>2 DEF Ledger
      <3>3. Ledger(Held', staged', waiting', quarantine', work'[c].tables, Leaving(c)')
        BY <1>1, <1>4, <3>2
      <3>4. Pending(c)'
        BY <1>1 DEF Pending, Fetching, Fetches, Filing, Classing
      <3> QED
        BY <3>1, <3>3, <3>4
    <2> QED
      BY <1>1, <1>2, <1>4, <2>3, BusyOrders
  <1>7. CASE Doing(c, {"discard"})
    <2>1. ~Tidy
      BY <1>1, <1>7 DEF Sorts, Unstaged, Tidy
    <2> QED
      BY <1>1, <1>2, <1>4, <2>1, BusyOrders
  <1> QED
    BY <1>2, <1>6, <1>7 DEF Doing

LEMMA BeginDiscardOrders ==
    ASSUME ImportInv, ImportInv', WaitInv, OrderInv, troubles = 0, NEW c \in Commands,
           BeginDiscard(c)
    PROVE  OrderInv'
  <1> USE DEF ImportInv, ImportShape
  <1> DEFINE n   == On(c)
             bat == [batches EXCEPT ![n] = "discarded"]
             row == [r \in Content |-> IF rows[r] = n THEN None ELSE rows[r]]
             t   == [batches |-> bat, rows |-> row]
             w   == [cls |-> None, move |-> None, tables |-> t]
  <1>1. /\ pc[c] = "locked" /\ Doing(c, {"discard"})
        /\ pc' = [pc EXCEPT ![c] = "unstage"] /\ UNCHANGED <<op, catalog>>
        /\ work' = [work EXCEPT ![c] = w] /\ gaveUp' = gaveUp \cup {n}
    BY DEF BeginDiscard, Working, Step, Goto
  <1>2. n \in Imports
    BY <1>1, OnImport DEF Doing, ImportOps
  <1>3. \A m \in Imports : bat[m] = IF m = n THEN "discarded" ELSE batches[m]
    OBVIOUS
  <1> HIDE DEF bat, n
  <1>4. pc'[c] = "unstage" /\ work'[c].tables.batches = bat
    BY <1>1 DEF LibShape
  <1>5. Busy(c)' /\ ~Tidy'
    BY <1>1, <1>4 DEF Busy, Writing, Tidy
  <1>6. /\ \A m \in gaveUp : batches[m] = "discarded" => work'[c].tables.batches[m] = "discarded"
        /\ \A m \in gaveUp' \ gaveUp : work'[c].tables.batches[m] = "discarded"
    BY <1>1, <1>2, <1>3, <1>4
  <1>7. pc' = [pc EXCEPT ![c] = pc'[c]] /\ gaveUp \subseteq gaveUp'
    BY <1>1, <1>4
  <1> QED
    BY <1>1, <1>5, <1>6, <1>7, TakesUpOrders

LEMMA UnwaitOrders ==
    ASSUME ImportInv, ImportInv', WaitInv, OrderInv, troubles = 0, NEW c \in Commands,
           Unwait(c)
    PROVE  OrderInv'
  <1> USE DEF ImportInv, ImportShape
  <1>1. /\ pc[c] = "unwait" /\ pc' = [pc EXCEPT ![c] = "save"]
        /\ UNCHANGED <<op, catalog, work, gaveUp>>
    BY DEF Unwait, Working, Step, Goto
  <1>2. Busy(c) /\ Knowing(c) /\ Doing(c, {"discard"}) /\ pc'[c] = "save"
    BY <1>1 DEF Busy, Writing, WaitInv, Placed, LibShape
  <1>3. Busy(c)' /\ ~Tidy
    BY <1>1, <1>2 DEF Busy, Writing, Sorts, Unstaged, Tidy
  <1>4. pc' = [pc EXCEPT ![c] = pc'[c]] /\ pc[c] # "idle"
    BY <1>1, <1>2
  <1> QED
    BY <1>1, <1>2, <1>3, <1>4, BusyOrders

-----------------------------------------------------------------------------
(* What a round of promoting moves settles beside where it goes to.        *)
LEMMA MoveWell ==
    ASSUME ImportInv, Tidy, NEW c \in Commands, pc[c] = "promote", Knowing(c),
           Outcome(Held, staged, quarantine), Held \subseteq Records,
           NEW n \in Imports, NEW X,
           \/ work[c].tables.batches[n] = "staged" /\ X = Logged(staged[n])
           \/ work[c].tables.batches[n] # "staged" /\ X = {}
    PROVE  LET m == Move(c, n)
               A == (Held \cup X) \cup m.accepted
           IN  /\ Closed(A) /\ \A r \in m.bad : Fails(r, A)
               /\ m.accepted \subseteq Logged(File[n])
  <1> USE DEF ImportInv, ImportShape
  <1> DEFINE t    == work[c].tables
             mine == {r \in Logged(waiting[n]) : t.rows[r] = n}
             held == mine \cap snap[c].held
             in   == mine \ held
             extra == IF t.batches[n] = "staged" THEN Provided(Logged(staged[n])) ELSE {}
             cls  == Classes(snap[c], extra, in)
  <1>1. /\ Move(c, n).accepted = cls.accepted /\ Move(c, n).bad = cls.quarantined
    BY DEF Move
  <1>2. extra = Provided(X)
    BY ProvidedNone
  <1>3. in \subseteq Logged(File[n]) /\ X \subseteq Logged(File[n])
    BY DEF Files, Logged
  <1>4. Closed(Held \cup X)
    <2>1. Closed(Held) /\ Closed(Held \cup Logged(staged[n]))
      BY DEF Outcome
    <2>2. Held \cup {} = Held
      OBVIOUS
    <2> QED
      BY <2>1, <2>2
  <1>5. LET k == Classes(snap[c], Provided(X), in)
            A == (Held \cup X) \cup k.accepted
        IN  k.accepted \subseteq in /\ Closed(A) /\ \A r \in k.quarantined : Fails(r, A)
    <2> HIDE DEF in
    <2>1. pc[c] # "idle"
      OBVIOUS
    <2> QED
      BY <1>3, <1>4, <2>1, SortedWell
  <1> HIDE DEF in, extra
  <1> QED
    BY <1>1, <1>2, <1>3, <1>5

LEMMA PromoteOrders ==
    ASSUME ImportInv, ImportInv', WaitInv, OrderInv, troubles = 0, NEW c \in Commands,
           Promote(c)
    PROVE  OrderInv'
  <1> USE DEF ImportInv, ImportShape
  <1>1. PICK n \in Imports :
           LET m   == Move(c, n)
               now == work[c].tables.batches[n] = "accepted"
           IN /\ pc[c] = "promote" /\ Movable(c, n) /\ Working(c, "promote", "moved")
              /\ Record(c, {}, {}, IF now THEN m.accepted ELSE {})
              /\ staged' = [staged EXCEPT ![n] = IF now THEN @ ELSE @ \cup m.accepted]
              /\ work' = [work EXCEPT ![c].move = m]
              /\ UNCHANGED <<objects, todo, waiting, quarantine, batches, rows, gaveUp>>
    BY DEF Promote
  <1> DEFINE m   == Move(c, n)
             t   == work[c].tables
             now == t.batches[n] = "accepted"
             new == IF now THEN m.accepted ELSE {}
             X   == IF now THEN {} ELSE Logged(staged[n])
  <1>2. /\ pc[c] = "promote" /\ pc' = [pc EXCEPT ![c] = "moved"] /\ pc'[c] = "moved"
        /\ UNCHANGED <<op, waiting, quarantine, gaveUp>>
    BY <1>1 DEF Working, Step, Goto, LibShape
  <1>3. /\ Busy(c) /\ Knowing(c) /\ work[c] \in Works
    BY <1>2 DEF Busy, Writing, WaitInv, Sorts, Worked
  <1>4. /\ work'[c].tables = t /\ work'[c].move = m
    BY <1>1, <1>3 DEF Works
  <1>5. t.batches[n] \in {"accepted", "staged"}
    BY <1>1, <1>3 DEF Movable, Works, Tables, States
  <1>6. m.accepted \subseteq Content /\ m.of = n /\ m.accepted \subseteq waiting[n]
    BY <1>2, MoveMoves DEF Moves
  <1>7. m.accepted \subseteq (Content \ Imports)
    BY <1>6, ImportShapes DEF Files
  <1>8. Held' = Held \cup new /\ catalog.versions \subseteq catalog'.versions
    <2>1. new \in SUBSET Content /\ new \ Imports = new /\ pc[c] # "idle"
      BY <1>2, <1>7
    <2>2. Record(c, {}, {}, new)
      BY <1>1
    <2> HIDE DEF new
    <2> QED
      BY <2>1, <2>2, HeldGrows
  <1>9. /\ staged'[n] = IF now THEN staged[n] ELSE staged[n] \cup m.accepted
        /\ \A k \in Imports \ {n} : staged'[k] = staged[k]
    BY <1>1 DEF Files
  <1>10. Busy(c)' /\ Leaving(c) = {} /\ Leaving(c)' = {} /\ ~Classing(c)'
    BY <1>2 DEF Busy, Writing, Leaving, Fetching, Classing, Fetches, Filing
  <1> HIDE DEF m
  <1>11. ASSUME Tidy, Outcome(Held, staged, quarantine),
                Ledger(Held, staged, waiting, quarantine, t, Leaving(c))
         PROVE  /\ Outcome(Held', staged', quarantine')
                /\ Ledger(Held', staged', waiting', quarantine', work'[c].tables, Leaving(c)')
                /\ Pending(c)'
    <2>1. Ledger(Held, staged, waiting, quarantine, t, {})
      BY <1>10, <1>11
    <2>2. /\ Closed((Held \cup X) \cup m.accepted)
          /\ \A r \in m.bad : Fails(r, (Held \cup X) \cup m.accepted)
          /\ m.accepted \subseteq Logged(File[n])
      <3>1. Held \subseteq Records
        BY <2>1, BroughtRecords
      <3> HIDE DEF X
      <3>2. \/ work[c].tables.batches[n] = "staged" /\ X = Logged(staged[n])
            \/ work[c].tables.batches[n] # "staged" /\ X = {}
        BY <1>5 DEF X
      <3> QED
        BY <1>2, <1>3, <1>11, <3>1, <3>2, MoveWell DEF m
    <2>3. AllFail(m.bad, (Held \cup X) \cup m.accepted)
      BY <2>2 DEF AllFail, Logged
    <2>4. (Held \cup X) \cup m.accepted \subseteq Held' \cup Logged(staged'[n])
      BY <1>8, <1>9, <2>2 DEF Logged
    <2>5. AllFail(m.bad, Held' \cup Logged(staged'[n]))
      <3> HIDE DEF X
      <3> QED
        BY <2>3, <2>4, FailsBeside
    <2>6. Pending(c)'
      <3>1. t.batches[n] # None
        BY <1>5, NothingBegun
      <3> HIDE DEF t
      <3> QED
        BY <1>2, <1>4, <1>6, <1>10, <2>5, <3>1 DEF Pending, Fetching
    <2>7. CASE now
      <3>1. staged' = staged /\ Held' = Held \cup m.accepted /\ X = {}
        <4>1. staged = [k \in Imports |-> staged[k]] /\ staged' = [k \in Imports |-> staged'[k]]
          BY DEF Files
        <4>2. \A k \in Imports : staged'[k] = staged[k]
          BY <1>9, <2>7
        <4> QED
          BY <1>8, <2>7, <4>1, <4>2
      <3>2. (Held \cup X) \cup m.accepted = Held'
        BY <3>1
      <3>3. Closed(Held')
        BY <2>2, <3>2
      <3>4. Outcome(Held', staged, quarantine)
        <4> HIDE DEF X
        <4>1. Held \subseteq Held'
          BY <3>1
        <4> QED
          BY <1>11, <3>3, <4>1, OutcomeGrows
      <3>5. Ledger(Held', staged, waiting, quarantine, t, {})
        <4>1. \A r \in Held' \ Held : Brought(r, t)
          BY <1>5, <2>2, <3>1, NothingBegun DEF Brought
        <4>2. Held \subseteq Held'
          BY <3>1
        <4> HIDE DEF t
        <4> QED
          BY <2>1, <4>1, <4>2, LedgerGrows
      <3> QED
        BY <1>2, <1>4, <1>10, <2>6, <3>1, <3>4, <3>5
    <2>8. CASE ~now
      <3>1. Held' = Held /\ X = Logged(staged[n]) /\ t.batches[n] = "staged"
        BY <1>5, <1>8, <2>8
      <3>2. staged'[n] = staged[n] \cup m.accepted
        BY <1>9, <2>8
      <3>3. (Held \cup X) \cup m.accepted = Held \cup Logged(staged'[n])
        BY <2>2, <3>1, <3>2 DEF Logged
      <3>4. Closed(Held \cup Logged(staged'[n]))
        BY <2>2, <3>3
      <3>5. Outcome(Held, staged', quarantine)
        <4>1. Logged(staged[n]) \subseteq Held \cup Logged(staged'[n])
          BY <3>2 DEF Logged
        <4> QED
          BY <1>9, <1>11, <3>4, <4>1, StagedMoves
      <3>6. Ledger(Held, staged', waiting, quarantine, t, {})
        <4>1. \A r : Sided(r, staged, quarantine) => Sided(r, staged', quarantine)
          BY <1>9, <3>2 DEF Sided
        <4>2. \A k \in Imports : staged'[k] # {} => t.batches[k] = "staged"
          BY <1>9, <2>1, <3>1 DEF Ledger
        <4> HIDE DEF t
        <4> QED
          BY <2>1, <4>1, <4>2 DEF Ledger
      <3> QED
        BY <1>2, <1>4, <1>10, <2>6, <3>1, <3>5, <3>6
    <2> QED
      BY <2>7, <2>8
  <1>12. pc' = [pc EXCEPT ![c] = pc'[c]] /\ pc[c] # "idle"
    BY <1>2
  <1> QED
    BY <1>2, <1>3, <1>4, <1>8, <1>10, <1>11, <1>12, BusyOrders

LEMMA SetApartOrders ==
    ASSUME ImportInv, ImportInv', WaitInv, OrderInv, troubles = 0, NEW c \in Commands,
           SetApart(c)
    PROVE  OrderInv'
  <1> USE DEF ImportInv, ImportShape
  <1> DEFINE m == work[c].move
             t == work[c].tables
  <1>1. /\ pc[c] = "moved" /\ pc' = [pc EXCEPT ![c] = "shorten"] /\ pc'[c] = "shorten"
        /\ quarantine' = [quarantine EXCEPT ![m.of] = @ \cup m.bad]
        /\ UNCHANGED <<op, catalog, staged, waiting, work, gaveUp>>
    BY DEF SetApart, Working, Step, Goto, LibShape
  <1>2. Busy(c) /\ Knowing(c) /\ m.of \in Imports
    BY <1>1 DEF Busy, Writing, WaitInv, Sorts, Worked, Moves
  <1>3. /\ quarantine'[m.of] = quarantine[m.of] \cup m.bad
        /\ \A k \in Imports \ {m.of} : quarantine'[k] = quarantine[k]
    BY <1>1, <1>2 DEF Files
  <1>4. Busy(c)' /\ Leaving(c) = {} /\ Leaving(c)' = {} /\ Held' = Held
    BY <1>1 DEF Busy, Writing, Leaving, Fetching, Held
  <1> HIDE DEF m, t
  <1>5. ASSUME Tidy, Outcome(Held, staged, quarantine),
               Ledger(Held, staged, waiting, quarantine, work[c].tables, Leaving(c)), Pending(c)
        PROVE  /\ Outcome(Held', staged', quarantine')
               /\ Ledger(Held', staged', waiting', quarantine', work'[c].tables, Leaving(c)')
               /\ Pending(c)'
    <2>1. t.batches[m.of] # None /\ AllFail(m.bad, Held \cup Logged(staged[m.of]))
      BY <1>1, <1>5 DEF Pending, m, t
    <2>2. Outcome(Held, staged, quarantine')
      <3>1. AllFail(quarantine[m.of], Held \cup Logged(staged[m.of]))
        BY <1>2, <1>5 DEF Outcome
      <3>2. AllFail(quarantine'[m.of], Held \cup Logged(staged[m.of]))
        BY <1>3, <2>1, <3>1 DEF AllFail, Logged
      <3> QED
        BY <1>2, <1>3, <1>5, <3>2, QuarantineMoves
    <2>3. Ledger(Held, staged, waiting, quarantine', t, {})
      <3>1. Ledger(Held, staged, waiting, quarantine, t, {})
        BY <1>4, <1>5 DEF t
      <3>2. \A r : Sided(r, staged, quarantine) => Sided(r, staged, quarantine')
        BY <1>3 DEF Sided
      <3> QED
        BY <1>3, <2>1, <3>1, <3>2 DEF Ledger
    <2>4. Pending(c)'
      BY <1>1 DEF Pending, Fetching, Classing, Fetches, Filing
    <2> QED
      BY <1>1, <1>4, <2>2, <2>3, <2>4 DEF t
  <1>6. pc' = [pc EXCEPT ![c] = pc'[c]] /\ pc[c] # "idle"
    BY <1>1
  <1> QED
    BY <1>1, <1>2, <1>4, <1>5, <1>6, BusyOrders

LEMMA ShortenOrders ==
    ASSUME ImportInv, ImportInv', WaitInv, OrderInv, troubles = 0, NEW c \in Commands,
           Shorten(c)
    PROVE  OrderInv'
  <1> USE DEF ImportInv, ImportShape
  <1> DEFINE m   == work[c].move
             t   == work[c].tables
             row == [r \in Content |-> IF r \in m.gone THEN None ELSE t.rows[r]]
  <1>1. /\ pc[c] = "shorten" /\ pc' = [pc EXCEPT ![c] = "promote"] /\ pc'[c] = "promote"
        /\ waiting' = [waiting EXCEPT ![m.of] = @ \ m.gone]
        /\ UNCHANGED <<op, catalog, staged, quarantine, gaveUp>>
    BY DEF Shorten, Working, Step, Goto, LibShape
  <1>2. Busy(c) /\ Knowing(c) /\ work[c] \in Works /\ m \in Moves
    BY <1>1 DEF Busy, Writing, WaitInv, Sorts, Worked
  <1>3. work'[c].tables.batches = t.batches /\ work'[c].tables.rows = row
    BY <1>2 DEF Shorten, Works, Tables
  <1>4. Busy(c)' /\ Leaving(c) = {} /\ Leaving(c)' = {} /\ Held' = Held
    BY <1>1 DEF Busy, Writing, Leaving, Fetching, Held
  <1>5. \A k \in Imports : waiting'[k] \subseteq waiting[k] /\ waiting[k] \subseteq (Content \ Imports) \cup Objects
    BY <1>1, ImportShapes DEF Files
  <1>6. \A r \in m.gone \ Imports : r \in Held \/ Sided(r, staged, quarantine)
    BY <1>1, <1>2 DEF Sorts, Moved, Moves, Held, Sided
  <1>7. \A r \in Content : r \notin m.gone => row[r] = t.rows[r]
    OBVIOUS
  <1> HIDE DEF m, t, row
  <1>8. ASSUME Ledger(Held, staged, waiting, quarantine, t, {})
        PROVE  Ledger(Held, staged, waiting', quarantine, work'[c].tables, {})
    <2> DEFINE u == work'[c].tables
    <2>1. \A r \in Held : Brought(r, u)
      BY <1>3, <1>8 DEF Ledger, Brought
    <2>2. ASSUME NEW k \in Imports, NEW r \in Logged(waiting'[k])
          PROVE  u.rows[r] # None \/ r \in Held \/ Sided(r, staged, quarantine)
      <3>1. r \in Logged(waiting[k]) /\ r \in Content \ Imports
        BY <1>5, <2>2 DEF Logged
      <3>2. t.rows[r] # None \/ r \in Held \/ Sided(r, staged, quarantine)
        BY <1>8, <3>1 DEF Ledger
      <3> QED
        BY <1>3, <1>6, <1>7, <3>1, <3>2
    <2> QED
      BY <1>3, <1>8, <2>1, <2>2 DEF Ledger
  <1>9. Pending(c)'
    BY <1>1 DEF Pending, Fetching, Classing, Fetches, Filing
  <1>10. pc' = [pc EXCEPT ![c] = pc'[c]] /\ pc[c] # "idle"
    BY <1>1
  <1> QED
    BY <1>1, <1>2, <1>3, <1>4, <1>8, <1>9, <1>10, BusyOrders DEF t

LEMMA PromotedOrders ==
    ASSUME ImportInv, ImportInv', WaitInv, OrderInv, troubles = 0, NEW c \in Commands,
           Promoted(c) \/ SaveBatches(c)
    PROVE  OrderInv'
  <1>1. /\ pc[c] \in {"promote", "save"} /\ pc'[c] \in {"save", "rows"}
        /\ pc' = [pc EXCEPT ![c] = pc'[c]]
        /\ UNCHANGED <<op, catalog, staged, waiting, quarantine, work, gaveUp>>
    BY DEF Promoted, SaveBatches, Working, Step, Goto, impvars, ImportInv, ImportShape,
       LibShape
  <1>2. /\ Busy(c) /\ Knowing(c) /\ Busy(c)' /\ Leaving(c) = {} /\ Leaving(c)' = {}
        /\ Held' = Held
    BY <1>1 DEF Busy, Writing, WaitInv, Leaving, Fetching, Held
  <1>3. Pending(c)'
    BY <1>1 DEF Pending, Fetching, Classing, Fetches, Filing
  <1> QED
    BY <1>1, <1>2, <1>3, BusyOrders

LEMMA SaveRowsOrders ==
    ASSUME ImportInv, ImportInv', WaitInv, OrderInv, troubles = 0, NEW c \in Commands,
           SaveRows(c)
    PROVE  OrderInv'
  <1>1. /\ pc[c] = "rows" /\ pc' = [pc EXCEPT ![c] = "done"] /\ pc'[c] = "done"
        /\ rows' = work[c].tables.rows
        /\ UNCHANGED <<catalog, staged, waiting, quarantine, batches, gaveUp>>
    BY DEF SaveRows, Working, Step, Goto, ImportInv, ImportShape, LibShape
  <1>2. Busy(c) /\ Knowing(c) /\ batches = work[c].tables.batches /\ Leaving(c) = {}
    BY <1>1 DEF Busy, Writing, WaitInv, Settling, Leaving, Fetching
  <1>3. AtWork(c) /\ ~Busy(c)'
    BY <1>1, <1>2 DEF OrderInv, Busy, Writing, Fetches, Fetching
  <1> DEFINE t == work[c].tables
  <1>4. Held' = Held /\ (Tidy' <=> Tidy) /\ OnDisk' = [batches |-> t.batches, rows |-> t.rows]
    BY <1>1, <1>2 DEF Held, Tidy, OnDisk
  <1> HIDE DEF t
  <1>5. Stored(t, {})
    BY <1>2, <1>3 DEF AtWork, t
  <1>6. Tidy => Ledger(Held, staged, waiting, quarantine, [batches |-> t.batches, rows |-> t.rows], {})
    BY <1>5 DEF Stored, Ledger, Brought
  <1>7. AtRest'
    BY <1>1, <1>4, <1>5, <1>6 DEF AtRest, Stored
  <1>8. pc[c] # "idle" /\ \A d \in Commands \ {c} : pc'[d] = pc[d]
    BY <1>1 DEF ImportInv, ImportShape, LibShape
  <1> QED
    BY <1>2, <1>3, <1>7, <1>8, OneOrders

LEMMA NextOrders ==
    ASSUME ImportInv, ImportInv', WaitInv, OrderInv, [Next]_vars
    PROVE  OrderInv'
  <1> SUFFICES ASSUME troubles' = 0 PROVE OrderInv'
    BY DEF OrderInv
  <1>1. troubles = 0 \/ Trouble
    BY DEF Next, Run, Crash, Start, vars
  <1>2. ~Trouble /\ troubles = 0
    BY <1>1 DEF Trouble, ImportInv, ImportShape
  <1>3. ASSUME NEW c \in Commands, Run(c) PROVE OrderInv'
    <2>1. CASE LibStep(c) /\ UNCHANGED impvars
      BY <1>2, <2>1, LibStepOrders
    <2>2. CASE ImportStep(c)
      BY <1>2, <2>2, RefusedOrders, BeginImportOrders, ImportLogOrders, WriteStagedOrders,
         WriteWaitingOrders, WriteQuarantineOrders, BeginAcceptOrders, AcceptLogOrders,
         UnstageOrders, BeginDiscardOrders, UnwaitOrders, PromoteOrders, SetApartOrders,
         ShortenOrders, PromotedOrders, SaveRowsOrders DEF ImportStep
    <2> QED
      BY <1>3, <2>1, <2>2 DEF Run
  <1>4. ASSUME NEW c \in Commands, Crash(c) PROVE FALSE
    BY <1>2, <1>4 DEF Crash
  <1>5. ASSUME NEW c \in Commands, NEW task \in TextTasks \cup ImportTasks, Start(c, task)
        PROVE  OrderInv'
    BY <1>2, <1>5, StartOrders
  <1>6. CASE BreakLock /\ UNCHANGED <<impvars, troubles>>
    BY <1>6, StillOrders DEF BreakLock
  <1>7. CASE UNCHANGED vars
    BY <1>7, StillOrders DEF vars, libvars
  <1> QED
    BY <1>3, <1>4, <1>5, <1>6, <1>7 DEF Next

LEMMA InitOrders == Init => OrderInv
  <1> SUFFICES ASSUME Init PROVE OrderInv
    OBVIOUS
  <1>1. \A c \in Commands : ~Busy(c)
    BY DEF Init, LibInit, Busy, Fetches, Fetching, Writing
  <1>2. Held = {} /\ gaveUp = {}
    BY DEF Init, LibInit, Held
  <1>3. \A n \in Imports : staged[n] = {} /\ waiting[n] = {} /\ quarantine[n] = {}
    BY DEF Init
  <1>4. Outcome(Held, staged, quarantine)
    BY <1>2, <1>3 DEF Outcome, Closed, AllFail, Logged
  <1>5. Ledger(Held, staged, waiting, quarantine, OnDisk, {})
    BY <1>2, <1>3 DEF Ledger, Logged
  <1> QED
    BY <1>1, <1>2, <1>4, <1>5 DEF OrderInv, AtRest, Stored

(* What has failed does not settle. *)
LEMMA FailsUnsettled ==
    ASSUME Independent, NEW H \in SUBSET Records, Closed(H), NEW r, Fails(r, H)
    PROVE  ~Settles(r, H)
  <1> SUFFICES ASSUME Settles(r, H) PROVE FALSE
    OBVIOUS
  <1>1. PICK v \in Names[r] : v \in Faulty /\ r \notin Units
    BY DEF Fails, Settles
  <1>2. v \in Records \cap Units /\ v \in Provided(H) /\ H \subseteq Content
    BY <1>1, RecordsContent DEF Faulty, Settles
  <1>3. v \in H
    BY <1>2, OwnId
  <1> QED
    BY <1>1, <1>3 DEF Closed, Settles

(* What was imported is held, or has failed, or lacks something.           *)
LEMMA Whereabouts ==
    ASSUME ImportInv, Tidy, Settled, Outcome(Held, staged, quarantine),
           Ledger(Held, staged, waiting, quarantine, OnDisk, {}),
           \A n \in Imports : staged[n] = {},
           NEW n \in Imports, batches[n] # None, NEW r \in Logged(File[n])
    PROVE  \/ r \in Held
           \/ ~(Names[r] \subseteq Provided(Held))
           \/ Fails(r, Held) /\ \E k \in Imports : batches[k] # None /\ r \in quarantine[k]
  <1> USE DEF ImportInv, ImportShape
  <1>1. r \in Content \ Imports /\ r \notin Objects /\ r \in File[n]
    BY ImportShapes DEF Logged
  <1>2. r \in Held \/ r \in Logged(waiting[n]) \/ r \in quarantine[n]
    <2>1. Somewhere(r, n)
      BY <1>1 DEF Retained, Tidy
    <2> QED
      BY <1>1, <2>1 DEF Somewhere, Held, Logged, LibShape
  <1>3. ASSUME NEW k \in Imports, r \in quarantine[k]
        PROVE  batches[k] # None /\ Fails(r, Held)
    <2>1. batches[k] # None
      BY <1>3 DEF Ledger, OnDisk
    <2>2. AllFail(quarantine[k], Held \cup Logged(staged[k]))
      BY DEF Outcome
    <2>3. Held \cup Logged(staged[k]) = Held
      BY DEF Logged
    <2>4. AllFail(quarantine[k], Held)
      BY <2>2, <2>3
    <2> QED
      BY <1>1, <1>3, <2>1, <2>4 DEF AllFail, Logged
  <1>4. CASE rows[r] # None
    <2>1. rows[r] \in Imports
      BY <1>1, <1>4
    <2> DEFINE f == waiting[rows[r]]
    <2>2. Lacks(catalog.held, r, f) /\ f \subseteq (Content \ Imports) \cup Objects
      BY <1>1, <2>1, ImportShapes DEF Settled, Files
    <2> HIDE DEF f
    <2>3. ASSUME Names[r] \subseteq Provided(Held) PROVE FALSE
      <3>1. PICK x \in Names[r] : x \in Provided(Held) /\ x \in Provided(Logged(f) \ catalog.held)
        BY <2>2, <2>3 DEF Lacks, Held
      <3>2. PICK p \in Logged(f) \ catalog.held : x \in Provides[p]
        BY <3>1 DEF Provided
      <3>3. p \in Content /\ Held \subseteq Content /\ Independent
        BY <2>2, <3>2 DEF Logged, Held, LibShape, Catalogs, Tidy
      <3>4. p \in Held
        BY <3>1, <3>2, <3>3, Provider
      <3> QED
        BY <3>2, <3>4 DEF Held
    <2> QED
      BY <2>3
  <1>5. CASE r \in Logged(waiting[n]) /\ rows[r] = None
    <2>1. r \in Held \/ Sided(r, staged, quarantine)
      BY <1>5 DEF Ledger, OnDisk
    <2> QED
      BY <1>3, <2>1 DEF Sided
  <1> QED
    BY <1>2, <1>3, <1>4, <1>5

LEMMA OrdersFree == ImportInv /\ WaitInv /\ OrderInv => OrderFree
  <1> DEFINE imported == {n \in Imports : batches[n] # None}
             X        == UNION {Logged(File[n]) : n \in imported}
             atOnce   == ClassifyAll({}, {}, X)
             K        == atOnce.accepted
             H        == Held
             apart    == UNION {quarantine[n] : n \in imported}
  <1> SUFFICES ASSUME ImportInv, WaitInv, OrderInv, Independent, Clean,
                      catalog.versions = {}, \A n \in imported : batches[n] = "accepted"
               PROVE  H = K /\ Units \cap apart = Units \cap atOnce.quarantined
    BY DEF OrderFree, Held
  <1>1. \A c \in Commands : ~Busy(c)
    BY DEF Clean, Quiet, Busy, Fetches, Fetching, Writing
  <1>2. Settled /\ AtRest
    BY <1>1 DEF WaitInv, OrderInv, Clean
  <1>3. Tidy
    <2>1. \A n \in gaveUp : n \in imported /\ batches[n] = "discarded"
      BY <1>2, NothingBegun DEF AtRest, Stored, OnDisk, ImportInv, ImportShape
    <2> QED
      BY <2>1 DEF Tidy
  <1>4. Outcome(H, staged, quarantine) /\ Ledger(H, staged, waiting, quarantine, OnDisk, {})
    BY <1>2, <1>3 DEF AtRest, Stored
  <1>5. \A n \in Imports : staged[n] = {}
    BY <1>4, NothingBegun DEF Ledger, OnDisk
  <1>6. X \subseteq Records /\ IsFiniteSet(X)
    <2>1. X \subseteq Records
      BY DEF Records
    <2> QED
      BY <2>1, FS_Subset DEF Independent
  <1>7. H \subseteq X /\ Closed(H)
    BY <1>4 DEF Ledger, Brought, OnDisk, Outcome
  <1>8. \A r \in X : \/ r \in H \/ ~(Names[r] \subseteq Provided(H))
                     \/ Fails(r, H) /\ r \in apart
    <2> SUFFICES ASSUME NEW n \in Imports, batches[n] # None, NEW r \in Logged(File[n])
                 PROVE  \/ r \in H \/ ~(Names[r] \subseteq Provided(H))
                        \/ Fails(r, H) /\ r \in apart
      OBVIOUS
    <2> QED
      BY <1>2, <1>3, <1>4, <1>5, Whereabouts
  <1>9. Before({}, {}, Provided({}) \cup {}, X)
    BY <1>6 DEF Before, Closed, Provided
  <1> HIDE DEF X, atOnce
  <1>10. /\ Closed(K) /\ K \subseteq X /\ atOnce.quarantined \subseteq X
         /\ \A r \in atOnce.quarantined : Fails(r, K)
         /\ \A r \in atOnce.waiting : ~(Names[r] \subseteq Provided(K))
    <2>1. LET cls == ClassifyAll({}, {}, X)
              A   == {} \cup cls.accepted
          IN  /\ A \subseteq Records /\ Closed(A)
              /\ cls.accepted \subseteq X /\ cls.waiting \subseteq X
              /\ cls.quarantined \subseteq X
              /\ \A r \in cls.quarantined : Fails(r, A)
              /\ \A r \in cls.waiting : ~(Names[r] \subseteq Provided(A))
      BY <1>9, Classified
    <2>2. {} \cup K = K
      OBVIOUS
    <2> QED
      BY <2>1, <2>2 DEF atOnce
  <1>11. X = K \cup atOnce.waiting \cup atOnce.quarantined
    <2>1. LET j == ClassifyAll({}, {}, X)
          IN  X = j.accepted \cup j.waiting \cup j.quarantined
      BY <1>6, ClassesShare
    <2> QED
      BY <2>1 DEF atOnce
  <1> HIDE DEF K, H, apart
  <1>12. \A r \in X : Settles(r, K) => r \in K
    <2>1. K \in SUBSET Records
      BY <1>6, <1>10
    <2> QED
      BY <1>10, <1>11, <2>1, FailsUnsettled DEF Settles
  <1>13. \A r \in X : Settles(r, H) => r \in H
    <2>1. H \in SUBSET Records
      BY <1>6, <1>7
    <2> QED
      BY <1>7, <1>8, <2>1, FailsUnsettled DEF Settles
  <1>14. H = K
    BY <1>6, <1>7, <1>10, <1>12, <1>13, OneOutcome
  <1>15. ASSUME NEW u \in Units \cap apart PROVE u \in atOnce.quarantined
    <2>1. PICK n \in imported : u \in quarantine[n]
      BY <1>15 DEF apart
    <2>2. u \in Logged(quarantine[n]) /\ u \in X
      BY <1>15, <2>1, ImportShapes DEF Logged, X, ImportInv, ImportShape, Files
    <2>3. AllFail(quarantine[n], H)
      <3>1. AllFail(quarantine[n], H \cup Logged(staged[n]))
        BY <1>4 DEF Outcome
      <3>2. H \cup Logged(staged[n]) = H
        BY <1>5 DEF Logged
      <3> QED
        BY <3>1, <3>2
    <2>4. u \in Faulty /\ Names[u] \subseteq Provided(K)
      BY <1>14, <1>15, <2>2, <2>3 DEF AllFail, Fails
    <2> QED
      BY <1>10, <1>11, <2>2, <2>4 DEF Closed, Settles
  <1>16. ASSUME NEW u \in Units \cap atOnce.quarantined PROVE u \in apart
    <2>1. u \in X /\ u \in Faulty /\ Names[u] \subseteq Provided(H)
      BY <1>10, <1>14, <1>16 DEF Fails
    <2> QED
      BY <1>7, <1>8, <2>1 DEF Closed, Settles
  <1> QED
    BY <1>14, <1>15, <1>16

(* The order in which files are imported, staged and accepted leaves no    *)
(* trace, of files whose findings are their own: the library comes to hold *)
(* the records, and the quarantines the units, that one import of them all *)
(* would have put there (classify.rs:22, import/mod.rs `promote`).         *)
THEOREM OrderLeavesNoTrace == Spec => []OrderFree
  <1>1. Init => WaitInv /\ OrderInv
    BY InitWaits, InitOrders
  <1>2. ImportInv /\ ImportInv' /\ WaitInv /\ OrderInv /\ [Next]_vars
           => WaitInv' /\ OrderInv'
    BY NextWaits, NextOrders
  <1>3. ImportInv /\ WaitInv /\ OrderInv => OrderFree
    BY OrdersFree
  <1> QED
    BY <1>1, <1>2, <1>3, ImportAlways, PTL DEF Spec
=============================================================================
