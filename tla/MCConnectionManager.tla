------------------------ MODULE MCConnectionManager -------------------------
(***************************************************************************)
(* Instances of ConnectionManager for TLC: two camera addresses, so that a *)
(* removed camera has a successor and rotation somewhere to go, and two    *)
(* headset addresses, so that "the only writer" and "one of several" both  *)
(* occur.  Addresses are numbers because the maps are ordered by them.     *)
(***************************************************************************)
EXTENDS ConnectionManager

\* State constraint of the runs about the registry while the server is up; the
\* shutdown runs explore the rest with fewer sessions.
ServerRunning == phase = "running"
=============================================================================
