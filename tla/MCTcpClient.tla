---------------------------- MODULE MCTcpClient ----------------------------
(* TcpClient for TLC: both kinds of client, chosen in the initial state; any attempt
   may find the fixed port still held. *)
EXTENDS TcpClient
=============================================================================
