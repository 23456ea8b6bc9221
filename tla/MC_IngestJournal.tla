--------------------------- MODULE MC_IngestJournal ---------------------------
(* An instance of IngestJournal: two windows, the second an answer to the  *)
(* first; both name one entity, which has no source and is in the catalog. *)
EXTENDS IngestJournal

CONSTANTS w1, w2, u1, u2, entity, reply, catalog, doc

MC_ShardOf == [r \in {u1, u2, entity, reply} |-> IF r = entity THEN catalog ELSE doc]
MC_Answers == [w \in {w1, w2} |-> IF w = w1 THEN {{u1}, {u1, entity}}
                                           ELSE {{u2, entity}}]
MC_Ends    == [e \in {reply} |-> {u1, u2}]
=============================================================================
