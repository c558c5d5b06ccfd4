---------------------------- MODULE FrameChannel ----------------------------
(***************************************************************************)
(* What a tcp connection of the system promises of the frames put into it: *)
(* they come out whole, unaltered and in order.  Any of them may be lost:  *)
(* the first when there is no buffer for it, all of them with the          *)
(* connection.                                                             *)
(***************************************************************************)
EXTENDS Sequences

CONSTANT Frame   \* frames, as sequences of bytes

VARIABLES
  inflight,   \* frames put in and not yet taken out, in order
  delivered   \* frames taken out

vars == <<inflight, delivered>>

Init == inflight = <<>> /\ delivered = <<>>

Send(f) == inflight' = Append(inflight, f) /\ UNCHANGED delivered

Deliver ==
  /\ inflight # <<>>
  /\ delivered' = Append(delivered, Head(inflight))
  /\ inflight' = Tail(inflight)

Drop == inflight # <<>> /\ inflight' = Tail(inflight) /\ UNCHANGED delivered

Break == inflight' = <<>> /\ UNCHANGED delivered

Next == (\E f \in Frame : Send(f)) \/ Deliver \/ Drop \/ Break

Spec == Init /\ [][Next]_vars
=============================================================================
