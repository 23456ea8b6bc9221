----------------------------- MODULE MC_Revision -----------------------------
(* An instance of Revision: b rests on a and on y, which rests on a; a2    *)
(* replaces a, and a3 either, so that the replacements of a are one, a     *)
(* fork, a chain, or, since a may replace a3 in turn, a circle, as their   *)
(* edges come.                                                             *)
EXTENDS Revision

CONSTANTS a, a2, a3, y, b

Unit(n, gs) == [name |-> n, grounds |-> gs]
A  == Unit(a, {})
A2 == Unit(a2, {})
A3 == Unit(a3, {})
Y  == Unit(y, {A})
B  == Unit(b, {A, Y})

MC_Drafts   == {A, A2, A3, Y, B}
MC_Replaces == {<<A2, A>>, <<A3, A>>, <<A3, A2>>, <<A, A3>>}
MC_Remarks  == {<<A2, Y>>}
=============================================================================
