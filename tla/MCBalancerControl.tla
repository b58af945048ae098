------------------------- MODULE MCBalancerControl -------------------------
(* Small instance of BalancerControl: two mongos, a shell that stops or       *)
(* starts the balancer and one that changes the setting under it, with pings  *)
(* that look alike, a crash, failed round or lost update.                     *)
EXTENDS BalancerControl, TLC

CONSTANTS m1, m2, s1, s2

MCShells == {s1, s2}
MCMayCall == (s1 :> {"stop", "start"}) @@ (s2 :> {"split", "on", "off"})

=============================================================================
