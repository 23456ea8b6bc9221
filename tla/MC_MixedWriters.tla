-------------------------- MODULE MC_MixedWriters ---------------------------
(* Instances of MixedWriters: a Store that takes no lock, alone or beside  *)
(* one locked writer.                                                      *)
EXTENDS MixedWriters

CONSTANTS w1, p1, s1, u1, a1, h1

MC_Subject == [a \in {a1} |-> u1]
MC_ProcOf  == [x \in Actors |-> p1]
MC_Batches == {<<a1, u1>>, <<h1, h1>>}
=============================================================================
