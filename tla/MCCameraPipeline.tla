-------------------------- MODULE MCCameraPipeline --------------------------
(* CameraPipeline for TLC. *)
EXTENDS CameraPipeline
=============================================================================
