--------------------------- MODULE MCMongoAdaptor ---------------------------
(* Small instance of MongoAdaptor.  Clients is also the bound on how many    *)
(* driver clients a behaviour creates: when none is left, connecting and     *)
(* re-authenticating are disabled.                                           *)
EXTENDS MongoAdaptor, TLC

CONSTANTS m1, m2, host, c1, c2

MCMongos == {m1, m2}
MCClients == {host, c1, c2}
MCHostClients == {host}

\* The clients Mongo objects create are interchangeable, and so are the Mongo
\* objects; no property tells them apart.
Symmetry == Permutations({c1, c2}) \union Permutations({m1, m2})

=============================================================================
