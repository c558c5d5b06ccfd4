-------------------------- MODULE MCHeadsetStreamer --------------------------
(* HeadsetStreamer has no parameters: its state space is finite as it is. *)
EXTENDS HeadsetStreamer
=============================================================================
