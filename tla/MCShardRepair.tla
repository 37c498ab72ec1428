--------------------------- MODULE MCShardRepair ----------------------------
(* The code's own RS(8+2), with three rotten shards, a full disk, crashes. *)
EXTENDS ShardRepair, TLC

Events == "rot" :> 3 @@ "io" :> 1 @@ "crash" :> 2

=============================================================================
