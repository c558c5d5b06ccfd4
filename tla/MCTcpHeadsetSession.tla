------------------------- MODULE MCTcpHeadsetSession -------------------------
(***************************************************************************)
(* One headset session with two buffers: three frames find the pool empty, *)
(* and a fourth comes after the session has caught up.                     *)
(***************************************************************************)
EXTENDS TcpHeadsetSession
=============================================================================
