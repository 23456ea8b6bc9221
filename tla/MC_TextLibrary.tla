--------------------------- MODULE MC_TextLibrary ---------------------------
(* An instance of TextLibrary: two documents whose manifests name two      *)
(* readings of one part.                                                   *)
EXTENDS TextLibrary

CONSTANTS c1, c2, d1, d2, t1, r1, r2

MC_Of      == (r1 :> t1) @@ (r2 :> t1)
MC_Entries == (d1 :> {r1}) @@ (d2 :> {r2})
MC_Empty   == [r \in {} |-> {}]

(* Commands are alike, and so are the documents, each with its reading.    *)
Alike == Permutations({c1, c2})
         \cup {(d1 :> d2) @@ (d2 :> d1) @@ (r1 :> r2) @@ (r2 :> r1)}
=============================================================================
