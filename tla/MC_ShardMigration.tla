------------------------- MODULE MC_ShardMigration -------------------------
(* Instances of ShardMigration: commands of a library of one shard, and a  *)
(* process or two that read it through the unit store.                     *)
EXTENDS ShardMigration

CONSTANTS c1, c2, g1, g2, x1, x2, x3

=============================================================================
