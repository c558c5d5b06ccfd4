-------------------------- MODULE MCWebsocketClient --------------------------
(* WebsocketClient for TLC.  With a fixed port every behaviour without one is *)
(* possible as well.                                                          *)
EXTENDS WebsocketClient
=============================================================================
