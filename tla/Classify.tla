------------------------------ MODULE Classify -------------------------------
(***************************************************************************)
(* Which records of an import are accepted, which wait and which are       *)
(* quarantined (crates/smysl-lib/src/import/classify.rs).                  *)
(*                                                                         *)
(* A record waits for what it names and nobody holds.  What does not wait  *)
(* is checked together with the library; what has a finding is             *)
(* quarantined, and then what rests on it waits, and what waits is not     *)
(* checked, so both are done over until quarantine stops growing.          *)
(*                                                                         *)
(* An id is what is named: a unit or a part by itself.  What the check     *)
(* (smysl-check) finds is given: a set of pairs <<r, v>>, an error on the  *)
(* record r, a unit or not, whenever v is in the store beside it, <<r, r>> *)
(* being an error of r's own.  Findings about a whole store, and           *)
(* contentions as ids, are left out.                                       *)
(***************************************************************************)
EXTENDS Naturals, FiniteSets

CONSTANTS Units,     \* records that are units
          Direct,    \* attestations, bindings, commitments, relations, ...
          Names,     \* what a record names
          Provides,  \* what a record makes held
          Findings   \* the check's errors

Provided(rs) == UNION {Provides[r] : r \in rs}

(* What waits, after n rounds: a record that waits no longer provides what *)
(* it would have provided, whoever else does.                              *)
Waits(base, live) ==
    LET held == base \cup Provided(live)
        w[n \in 0 .. Cardinality(live)] ==
            IF n = 0 THEN {}
            ELSE LET left == held \ Provided(w[n - 1])
                 IN {r \in live : ~(Names[r] \subseteq left)}
    IN w[Cardinality(live)]

(* What the check blames among these, in a store of rs. *)
Blamed(rs, among) == {r \in among : \E v \in rs : <<r, v>> \in Findings}

(* Of units only what rests on no other blamed one, unless all of them do  *)
(* and nothing else is blamed.                                             *)
AllOfThem(blamed) == blamed

Minimal(blamed) ==
    LET first == {r \in blamed :
                    r \in Units => Names[r] \cap ((blamed \cap Units) \ {r}) = {}}
    IN IF first = {} THEN blamed ELSE first

(* One round: what the check blames of what does not wait, and whatever    *)
(* live record names a unit of those directly, waiting or not.             *)
Gone(library, base, live) ==
    LET ready == live \ Waits(base, live)
        bad   == Minimal(Blamed(library \cup ready, ready))
    IN bad \cup {r \in live \cap Direct : Names[r] \cap bad \cap Units # {}}

(* library: its records; extra: ids held beside it; incoming: records it   *)
(* does not hold.  The three classes.                                      *)
ClassifyAll(library, extra, incoming) ==
    LET base == Provided(library) \cup extra
        q[n \in 0 .. Cardinality(incoming)] ==
            IF n = 0 THEN {}
            ELSE LET gone == q[n - 1]
                 IN gone \cup Gone(library, base, incoming \ gone)
        quarantined == q[Cardinality(incoming)]
        waiting     == Waits(base, incoming \ quarantined)
    IN [accepted    |-> incoming \ (quarantined \cup waiting),
        waiting     |-> waiting,
        quarantined |-> quarantined]
=============================================================================
