---------------------------- MODULE MCShardChunks ----------------------------
(* Small instance of ShardChunks. *)
EXTENDS ShardChunks

=============================================================================
