---------------------------- MODULE MCShardCluster ----------------------------
(* Small instance of ShardCluster. *)
EXTENDS ShardCluster

Shape(legacy, shards, mongos, rs, config, manual, own) ==
  [legacy |-> legacy, shards |-> shards, mongos |-> mongos, rs |-> rs, config |-> config,
   manualAddShard |-> manual, own |-> own]

\* The options of no program, of a mongos, of all mongos, of a shard and a config server,
\* and of a shard that gets the port of another family.
None == [s \in {} |-> <<"own", 0>>]
OneMongos == [s \in {<<"mongos", 1>>} |-> <<"own", 0>>]
AllMongos == [s \in {<<"mongos", 0>>, <<"mongos", 1>>} |-> <<"own", 0>>]
ShardAndConfig == [s \in {<<"shard", 0>>, <<"config", 0>>} |-> <<"own", IF s[1] = "shard" THEN 0 ELSE 1>>]
AtMongos == [s \in {<<"shard", 1>>} |-> <<"mongos", 1>>]

\* Each way to ask for config servers and mongos, and ports of their own.
SomeShapes ==
  {Shape(TRUE, 2, 0, FALSE, "absent", FALSE, None),
   Shape(TRUE, 1, 1, FALSE, "sync", FALSE, None),
   Shape(TRUE, 3, 1, FALSE, "sync", FALSE, None),
   Shape(TRUE, 1, 2, FALSE, "separate", TRUE, AllMongos),
   Shape(TRUE, 1, 1, TRUE, "both", FALSE, None),
   Shape(FALSE, 0, 0, FALSE, "one", FALSE, AtMongos),
   Shape(FALSE, 1, 2, FALSE, "array1", FALSE, OneMongos),
   Shape(FALSE, 1, 1, FALSE, "three", FALSE, ShardAndConfig),
   Shape(FALSE, 1, 1, TRUE, "object3", FALSE, None),
   Shape(FALSE, 2, 2, FALSE, "absent", TRUE, None)}

=============================================================================
