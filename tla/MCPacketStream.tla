---------------------------- MODULE MCPacketStream ----------------------------
(* PacketStream for TLC. *)
EXTENDS PacketStream
=============================================================================
