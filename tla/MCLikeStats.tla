---------------------------- MODULE MCLikeStats ----------------------------
(* LikeStats for TLC. *)
EXTENDS LikeStats

\* Every room in the same shard of the index.
OneShard == [r \in Rooms |-> CHOOSE k \in Shards : TRUE]
=============================================================================
