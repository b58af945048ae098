--------------------------- MODULE MCQueryCursor ---------------------------
(* Small instance of QueryCursor: six documents, two of which cannot be      *)
(* converted, replies of two and at most three documents.                     *)
EXTENDS QueryCursor

MCUnreadable == {2, 5}
MCLimits == {-4, -2, -1, 0, 2, 5}
MCSkips == {0, 1, 7}
MCBatchSizes == {-2, 0, 1, 2}

=============================================================================
