----------------------------- MODULE MCMqRoute -----------------------------
(* Hosts in the order of their names, one queue they may have. *)
EXTENDS MqRoute

CONSTANTS h1, h2
TwoHosts == <<h1, h2>>
=============================================================================
