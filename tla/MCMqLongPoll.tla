---------------------------- MODULE MCMqLongPoll ----------------------------
(* The runs of MqLongPoll only give its constants small values. *)
EXTENDS MqLongPoll
=============================================================================
