----------------------------- MODULE MCMqDoTask -----------------------------
(* The runs of MqDoTask give every constant a small set of model values. *)
EXTENDS MqDoTask
=============================================================================
