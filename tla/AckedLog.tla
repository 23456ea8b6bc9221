------------------------------ MODULE AckedLog ------------------------------
(***************************************************************************)
(* What a log with its unit store promises, to whoever appends to it and   *)
(* whoever opens it, with no locks, files or transactions in sight.        *)
(*                                                                         *)
(* There is one sequence of records, each in it once, and it only grows.   *)
(* An append is answered when its records are in it.  An open sees some    *)
(* prefix of it, and sees every record that had been answered for by then, *)
(* whichever thread of whichever process appended it.                      *)
(***************************************************************************)
EXTENDS Naturals, Sequences, SequencesExt

CONSTANTS Records,
          Actors,
          Lossy,     \* whether a power failure may take what is not answered
          Unseen     \* what a thread that has nothing open sees

VARIABLES log, acked, seen

Init == /\ log = <<>>
        /\ acked = {}
        /\ seen = [a \in Actors |-> Unseen]

Grow == /\ \E r \in Records \ Range(log) : log' = Append(log, r)
        /\ UNCHANGED <<acked, seen>>

Answer == /\ \E S \in SUBSET Range(log) : acked' = acked \cup S
          /\ UNCHANGED <<log, seen>>

Look(a) == /\ \E n \in 0..Len(log) :
                 /\ acked \subseteq Range(SubSeq(log, 1, n))
                 /\ seen' = [seen EXCEPT ![a] = SubSeq(log, 1, n)]
           /\ UNCHANGED <<log, acked>>

Drop == /\ \E S \in SUBSET Actors :
              seen' = [a \in Actors |-> IF a \in S THEN Unseen ELSE seen[a]]
        /\ UNCHANGED <<log, acked>>

Lose == /\ Lossy
        /\ \E n \in 0..Len(log) : log' = SubSeq(log, 1, n)
        /\ acked \subseteq Range(log')
        /\ seen' = [a \in Actors |-> Unseen]
        /\ UNCHANGED acked

Next == Grow \/ Answer \/ (\E a \in Actors : Look(a)) \/ Drop \/ Lose

Spec == Init /\ [][Next]_<<log, acked, seen>>
=============================================================================
