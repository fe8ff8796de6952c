--------------------------- MODULE MCMqFetchStat ---------------------------
(* The runs of MqFetchStat only give its constants small values. *)
EXTENDS MqFetchStat
=============================================================================
