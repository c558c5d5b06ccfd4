------------------------ MODULE MCPicturePipeline ------------------------
(* Three buffers, four frames, up to three of which fail half way, one closed window. *)
EXTENDS PicturePipeline
=============================================================================
