--------------------------- MODULE MCShellWrites ---------------------------
(* Small instance of ShellWrites: two scopes and the host's client.          *)
EXTENDS ShellWrites, TLC

CONSTANTS s1, s2

MCScopes == {s1, s2}

\* One scope has the flags of the mongo shell, or none; the others only its printed
\* errors.
MCFlags ==
  {[s \in MCScopes |-> [shellConcern |-> s \in shell, printErrors |-> TRUE]] :
     shell \in {{}, {s1}, {s2}}}

\* Scopes are interchangeable.
Symmetry == Permutations(MCScopes)

=============================================================================
