---------------------------- MODULE MCMqPublish ----------------------------
(* The runs of MqPublish only give its constants small values. *)
EXTENDS MqPublish
=============================================================================
