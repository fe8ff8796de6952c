---------------------------- MODULE MCHaCommand ----------------------------
(* One key, whose masters hold different versions at the start.            *)
EXTENDS HaCommand, TLC

CONSTANTS p1, p2, k1

OneKey == k1 :> (1 :> p1 @@ 2 :> p2)
BothPeers == k1 :> <<p1, p2>>
Diverged == p1 :> (k1 :> 2) @@ p2 :> (k1 :> 1)
=============================================================================
