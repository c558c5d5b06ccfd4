-------------------------- MODULE MCWebsocketServer --------------------------
(* WebsocketServer for TLC: two addresses, any of which may connect again. *)
EXTENDS WebsocketServer

=============================================================================
