----------------------------- MODULE RecordFold -----------------------------
(***************************************************************************)
(* What folding a log into the unit store's tables computes.               *)
(*                                                                         *)
(* store/redb/build.rs, `fold`: each complete record of one log, in log    *)
(* order, is entered in the tables RECORD_HASH, HOLDS, HEADER, ATTEST and  *)
(* INTERP.  The tables are shared by every log of the store, so a record   *)
(* that two logs hold is one record, and an attestation may reach a log    *)
(* before the unit it is about.                                            *)
(*                                                                         *)
(* A record stands for its bytes, so two equal records have one hash.      *)
(* HEADER keeps of a unit the log that brought it and how many             *)
(* attestations it has; the other columns (offset, length, status, hop)    *)
(* and the tables DEPS, OBSERVED and SOURCE_REF are functions of the       *)
(* record written with it and are left out.                                *)
(***************************************************************************)
EXTENDS Naturals, Sequences, FiniteSets, SequencesExt

CONSTANTS Units,    \* unit records
          Atts,     \* attestation records
          Hots,     \* every other kind: relations, threads, views, manifests...
          Subject,  \* the unit an attestation is about
          Kind      \* "one": a store over one log; "many": over several

ASSUME RecordKinds ==
    /\ Units \cap Atts = {} /\ Units \cap Hots = {} /\ Atts \cap Hots = {}
    /\ Subject \in [Atts -> Units]
    /\ Kind \in {"one", "many"}

Records == Units \cup Atts \cup Hots

(* An empty store, over the logs L: every table has just been deleted. *)
EmptyTables(L) ==
    [hash   |-> {},                     \* RECORD_HASH: (record, log)
     holds  |-> {},                     \* HOLDS: (unit, log), of several
     header |-> <<>>,                   \* HEADER: unit -> [log, attested]
     attest |-> {},                     \* ATTEST: (attestation, log)
     interp |-> [l \in L |-> <<>>]]     \* INTERP: the rest, in log order

Fresh(t, l, r) == <<r, l>> \notin t.hash
First(t, r)    == ~ \E h \in t.hash : h[1] = r

(* Attestations that reached some log before the unit u did, each once. *)
NoneWaiting(t, u) == {}
Waiting(t, u) == {a \in Atts : Subject[a] = u /\ \E h \in t.attest : h[1] = a}

FoldUnit(t, l, u) ==
    [t EXCEPT
        !.hash   = @ \cup {<<u, l>>},
        !.holds  = IF Kind = "many" THEN @ \cup {<<u, l>>} ELSE @,
        !.header = IF u \in DOMAIN @ THEN @
                   ELSE [v \in DOMAIN @ \cup {u} |->
                           IF v = u
                           THEN [log |-> l, attested |-> Cardinality(Waiting(t, u))]
                           ELSE @[v]]]

FoldAtt(t, l, a) ==
    [t EXCEPT
        !.hash   = @ \cup {<<a, l>>},
        !.attest = @ \cup {<<a, l>>},
        !.header = IF First(t, a) /\ Subject[a] \in DOMAIN @
                   THEN [@ EXCEPT ![Subject[a]].attested =
                                      t.header[Subject[a]].attested + 1]
                   ELSE @]

(* Repeats included: only units and attestations are entered once.        *)
FoldHot(t, l, h) ==
    [t EXCEPT !.hash = @ \cup {<<h, l>>}, !.interp[l] = Append(@, h)]

FoldRecord(t, l, r) ==
    CASE r \in Hots                   -> FoldHot(t, l, r)
      [] r \in Units /\ Fresh(t, l, r) -> FoldUnit(t, l, r)
      [] r \in Atts /\ Fresh(t, l, r)  -> FoldAtt(t, l, r)
      [] OTHER                        -> t

(* The loop of one fold transaction over the records s of log l. *)
FoldLog(t, l, s) == FoldLeft(LAMBDA x, r : FoldRecord(x, l, r), t, s)

-----------------------------------------------------------------------------
(***************************************************************************)
(* The reference: what the tables of logs with contents c ought to say,    *)
(* whatever the order and the batches in which they were folded.           *)
(***************************************************************************)
InLog(c, h)   == h[1] \in Range(c[h[2]])
Held(c, r)    == \E l \in DOMAIN c : r \in Range(c[l])
AttsOf(c, u)  == {a \in Atts : Subject[a] = u /\ Held(c, a)}

(* q holds the hot records of s, repeats and all, in the order of s.       *)
HotsOf(q, s) ==
    \E place \in [1..Len(q) -> 1..Len(s)] :
       /\ \A i, j \in 1..Len(q) : i < j => place[i] < place[j]
       /\ Range(place) = {k \in 1..Len(s) : s[k] \in Hots}
       /\ \A i \in 1..Len(q) : q[i] = s[place[i]]

SaysOf(t, c) ==
    /\ t.hash   = {h \in Records \X DOMAIN c : InLog(c, h)}
    /\ Kind = "many" =>
          t.holds = {h \in Units \X DOMAIN c : InLog(c, h)}
    /\ t.attest = {h \in Atts \X DOMAIN c : InLog(c, h)}
    /\ DOMAIN t.header = {u \in Units : Held(c, u)}
    /\ \A u \in DOMAIN t.header :
          /\ t.header[u].log \in DOMAIN c
          /\ u \in Range(c[t.header[u].log])
          /\ t.header[u].attested = Cardinality(AttsOf(c, u))
    /\ DOMAIN t.interp = DOMAIN c
    /\ \A l \in DOMAIN c : HotsOf(t.interp[l], c[l])
=============================================================================
