--------------------------- MODULE MCReplSetMembers ---------------------------
(* Small instance of ReplSetMembers. *)
EXTENDS ReplSetMembers

\* The second of the nodes is an arbiter.
SecondNode == {1}

=============================================================================
