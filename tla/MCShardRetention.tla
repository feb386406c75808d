-------------------------- MODULE MCShardRetention --------------------------
(* An instance of ShardRetention: the first run starts on the first day,   *)
(* the others on the second.                                               *)
EXTENDS ShardRetention
MCStartDay == [r \in Runs |-> IF r = CHOOSE q \in Runs : TRUE THEN 0 ELSE 1]
=============================================================================
