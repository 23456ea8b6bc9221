-------------------------- MODULE MC_LibraryImport --------------------------
(* Instances of LibraryImport.  Everything is about one part t1, which a   *)
(* manifest m1 names; u1 is drawn from it, u2 and u3 rest on u1, and u4 on *)
(* u3; the check has a finding on u3 as soon as u1 is beside it, and on u4 *)
(* for what is wrong with u3; a2 attests u2, a3 attests u3, x1 redacts t1. *)
EXTENDS LibraryImport

CONSTANTS c1, c2, t1, r1, u1, u2, u3, u4, a2, a3, x1, m1,
          n1, n2, n3

MC_Of       == (r1 :> t1)
MC_Entries  == [d \in {} |-> {}]
MC_Content  == {u1, u2, u3, u4, a2, a3, x1, m1, n1, n2, n3}
MC_Carries  == [r \in MC_Content |-> IF r = m1 THEN {r1} ELSE {}]
MC_Redacts  == [r \in MC_Content |-> IF r = x1 THEN {t1} ELSE {}]
MC_Names    == [r \in MC_Content |-> CASE r \in {u1, x1} -> {t1}
                                       [] r \in {u2, u3} -> {u1}
                                       [] r = a2 -> {u2}
                                       [] r \in {a3, u4} -> {u3}
                                       [] OTHER -> {}]
MC_Provides == [r \in MC_Content |-> CASE r \in {u1, u2, u3, u4} -> {r}
                                       [] r = m1 -> {r, t1}
                                       [] OTHER -> {}]
MC_Findings == {<<u3, u1>>, <<u4, u3>>}

(* What waits comes first or last, and a2 is in two files. *)
MC_Files    == [n \in {n1, n2, n3} |-> CASE n = n1 -> {u2, a2, u3, a3}
                                         [] n = n2 -> {m1, t1, r1, a2}
                                         [] n = n3 -> {u1, u4, x1}]
=============================================================================
