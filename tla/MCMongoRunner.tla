---------------------------- MODULE MCMongoRunner ----------------------------
(* Small instance of MongoRunner. *)
EXTENDS MongoRunner

=============================================================================
