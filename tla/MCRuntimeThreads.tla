-------------------------- MODULE MCRuntimeThreads --------------------------
(* Small instance of RuntimeThreads: two threads, two scopes.                *)
EXTENDS RuntimeThreads, TLC

CONSTANTS t1, t2, s1, s2, m1, m2

MCThreads == {t1, t2}
MCScopes == {s1, s2}
MCMongos == {m1, m2}

\* Threads, scopes and Mongo objects are interchangeable.
Symmetry == Permutations(MCThreads) \union Permutations(MCScopes)
              \union Permutations(MCMongos)

=============================================================================
