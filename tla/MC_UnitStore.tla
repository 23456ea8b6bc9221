--------------------------- MODULE MC_UnitStore ----------------------------
(* Instances of UnitStore: two processes, one with a writer and a reader   *)
(* of the same store, one with a second writer; a unit, an attestation of  *)
(* it and a record of another kind.                                        *)
EXTENDS UnitStore

CONSTANTS w1, w2, r1, p1, p2, u1, a1, h1

MC_Subject == [a \in {a1} |-> u1]
MC_ProcOf  == [x \in Actors |-> IF x = w2 THEN p2 ELSE p1]

(* The attestation first, the unit again, and a hot record twice over.     *)
MC_Batches == {<<a1, u1>>, <<u1, h1, h1>>}
=============================================================================
