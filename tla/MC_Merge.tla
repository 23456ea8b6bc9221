------------------------------ MODULE MC_Merge -------------------------------
(* An instance of Merge: a unit and an edge, each attested; two relations  *)
(* of the edge, two threads written at one time, one later, and a view.    *)
(* Whatever one peer may write waits for, or contends with, something of   *)
(* the other's.                                                            *)
EXTENDS Merge, TLC

CONSTANTS p1, p2, u1, e1, k1, k2, a1, b1, t1, t2, t3, v1, w1, n1

MC_Edge    == (k1 :> e1) @@ (k2 :> e1)
MC_Subject == (a1 :> u1) @@ (b1 :> e1)
MC_Named   == [x \in Threads \cup Views |-> n1]
MC_Stamp   == [t \in Threads |-> IF t = t3 THEN 2 ELSE 1]
MC_Bytes   == [t \in Threads |-> CASE t = t1 -> 3 [] t = t2 -> 2 [] t = t3 -> 1]
MC_Writes  == (p1 :> Records \cap {u1, k1, b1, t1, t3, v1})
              @@ (p2 :> Records \cap {a1, k2, t2, w1})
=============================================================================
