---------------------------- MODULE FrameRouter ----------------------------
(***************************************************************************)
(* What the server promises of its cameras' frames: which headset gets     *)
(* those of which camera, and what may change that.  Each camera has an    *)
(* audience, and its frames go to that audience and to nobody else.  The   *)
(* first camera must be given every headset, and no other camera any.  A   *)
(* headset loses its frames only by leaving, by being replaced by its own  *)
(* successor, when its camera connects anew, or with the last camera.      *)
(***************************************************************************)
CONSTANTS
  Camera,    \* cameras, by address
  Session,   \* connections
  Address    \* where connections come from

VARIABLES
  cameras,    \* cameras connected
  headsets,   \* connections of the headsets that are registered, one for each address
  audience,   \* of each camera: the headset connections its frames go to
  address,    \* of each connection
  received,   \* connections that have been sent a frame
  starting    \* the camera that has connected and has no audience yet, and whether
              \* it was the first: at most one [camera, first]

vars == <<cameras, headsets, audience, address, received, starting>>

Watching == UNION {audience[c] : c \in Camera}

Init ==
  /\ cameras = {} /\ headsets = {} /\ received = {} /\ starting = {}
  /\ audience = [c \in Camera |-> {}]
  /\ address \in [Session -> Address]

\* Connection s is a new one, from a.  Connections are made one at a time.
Accept(s, a) ==
  /\ starting = {}
  /\ s \notin headsets \cup Watching \cup received
  /\ address' = [address EXCEPT ![s] = a]
  /\ UNCHANGED <<audience, received>>

CameraConnects(s, c) ==
  /\ Accept(s, c)
  /\ cameras' = cameras \cup {c}
  /\ starting' = {[camera |-> c, first |-> cameras = {}]}
  /\ UNCHANGED headsets

\* A headset that reconnects supersedes its older connection.
HeadsetConnects(s, h) ==
  /\ Accept(s, h)
  /\ headsets' = {t \in headsets : address[t] # h} \cup {s}
  /\ UNCHANGED <<cameras, starting>>

Others == UNCHANGED <<cameras, headsets, address, received>>
Rearrange == Others /\ UNCHANGED starting

\* A camera that came when there was none finds nobody watching and is given all
\* headsets.
FirstCameraStarts(c) ==
  /\ starting = {[camera |-> c, first |-> TRUE]} /\ starting' = {}
  /\ Watching = {}
  /\ audience' = [audience EXCEPT ![c] = headsets]
  /\ Others

\* Any other one starts without an audience, also when it has only reconnected.
NextCameraStarts(c) ==
  /\ starting = {[camera |-> c, first |-> FALSE]} /\ starting' = {}
  /\ audience' = [audience EXCEPT ![c] = {}]
  /\ Others

HeadsetStarts(s, c) ==
  /\ s \in headsets /\ c \in cameras
  /\ \A t \in Watching : address[t] # address[s]
  /\ audience' = [audience EXCEPT ![c] = @ \cup {s}]
  /\ Rearrange

\* A headset's new connection takes the place of the old one, if that has any.
HeadsetReplaces(old, s) ==
  /\ s \in headsets \ Watching /\ address[old] = address[s]
  /\ audience' = [c \in Camera |-> IF old \in audience[c] THEN (audience[c] \ {old}) \cup {s}
                                   ELSE audience[c]]
  /\ Rearrange

HeadsetLeaves(s) ==
  /\ s \in headsets /\ headsets' = headsets \ {s}
  /\ audience' = [c \in Camera |-> audience[c] \ {s}]
  /\ UNCHANGED <<cameras, address, received, starting>>

\* The audience of a camera that leaves goes to another one, if there is one.
CameraLeaves(c) ==
  /\ c \in cameras /\ cameras' = cameras \ {c}
  /\ \/ cameras = {c} /\ audience' = [audience EXCEPT ![c] = {}]
     \/ \E n \in cameras \ {c} :
          audience' = [audience EXCEPT ![c] = {}, ![n] = @ \cup audience[c]]
  /\ UNCHANGED <<headsets, address, received, starting>>

\* One headset watches another camera, or all watch the same one.
Move(s, n) ==
  /\ n \in cameras /\ s \in Watching
  /\ audience' = [c \in Camera |-> IF c = n THEN audience[c] \cup {s} ELSE audience[c] \ {s}]
  /\ Rearrange

Gather(n) ==
  /\ n \in cameras
  /\ audience' = [c \in Camera |-> IF c = n THEN Watching ELSE {}]
  /\ Rearrange

Deliver(c) ==
  /\ received' = received \cup audience[c]
  /\ UNCHANGED <<cameras, headsets, audience, address, starting>>

Stop ==
  /\ cameras' = {} /\ headsets' = {} /\ audience' = [c \in Camera |-> {}]
  /\ UNCHANGED <<address, received, starting>>

Next ==
  \/ \E s \in Session :
       \/ \E c \in Camera : CameraConnects(s, c) \/ HeadsetStarts(s, c) \/ Move(s, c)
       \/ \E h \in Address : HeadsetConnects(s, h)
       \/ \E old \in Session : HeadsetReplaces(old, s)
       \/ HeadsetLeaves(s)
  \/ \E c \in Camera :
       FirstCameraStarts(c) \/ NextCameraStarts(c) \/ CameraLeaves(c) \/ Gather(c) \/ Deliver(c)
  \/ Stop

Spec == Init /\ [][Next]_vars

TypeOK ==
  /\ cameras \subseteq Camera /\ headsets \subseteq Session /\ received \subseteq Session
  /\ audience \in [Camera -> SUBSET Session]
  /\ address \in [Session -> Address]
  /\ starting \subseteq [camera : Camera, first : BOOLEAN]

\* No headset gets a frame twice, or those of two cameras; and of a headset that
\* reconnected one connection counts.
OneFeed ==
  /\ \A c, d \in Camera : \A s \in audience[c], t \in audience[d] :
       address[s] = address[t] => s = t /\ c = d
  /\ \A s, t \in headsets : address[s] = address[t] => s = t
=============================================================================
