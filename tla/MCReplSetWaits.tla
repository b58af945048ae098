--------------------------- MODULE MCReplSetWaits ---------------------------
(* Small instance of ReplSetWaits: three nodes that may have no data
   or an entry each that the other has not. *)
EXTENDS ReplSetWaits

MCOplogs == {<< >>, <<1, 2>>, <<1, 3>>}

=============================================================================
