------------------------------ MODULE LogCells ------------------------------
(***************************************************************************)
(* A log file as its readers see it: a sequence of cells, each a complete  *)
(* record or Torn, the bytes of a record that was not written whole        *)
(* (crates/smysl-graph/src/store/redb/log.rs; from_cbor_seq).  The hash of *)
(* a prefix of a log is the prefix itself: two prefixes have one hash      *)
(* exactly when they are the same bytes.  A record is one cell long, so    *)
(* the length of a log in bytes and in records is one number.              *)
(***************************************************************************)
EXTENDS Naturals, Sequences

CONSTANT Torn

(* The cells before the first one that is not a complete record: what a    *)
(* LogReader hands out before it says None.                                *)
IsCut(f, n)  == /\ \A i \in 1..n : f[i] # Torn
                /\ n < Len(f) => f[n + 1] = Torn
End(f)       == CHOOSE n \in 0..Len(f) : IsCut(f, n)
Readable(f)  == SubSeq(f, 1, End(f))

(* The file is at least as long as the prefix and hashes the same up to    *)
(* it (build.rs catch_up, log.rs hash_prefix).                             *)
Describes(d, f) == /\ Len(d) <= Len(f)
                   /\ \A i \in 1..Len(d) : d[i] = f[i]
=============================================================================
