------------------------------- MODULE MCButton -------------------------------
(* Button with timeouts of a few ticks: see Button.cfg. *)
EXTENDS Button
=============================================================================
