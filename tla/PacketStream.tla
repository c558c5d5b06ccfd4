----------------------------- MODULE PacketStream -----------------------------
(***************************************************************************)
(* The framing of the tcp connections: PacketHeader, as TcpClient (of a    *)
(* camera) and TcpHeadsetSession write with it, and as TcpCameraSession    *)
(* and TcpClient (of a headset) read with it into TcpReadBufferPool.       *)
(*                                                                         *)
(* A frame is cut into packets of at most MaxSize bytes, each after a      *)
(* header.  A send or a receive may take any part of what it is given; the *)
(* same record of counters is used to go on with the rest of a header, of  *)
(* a packet and of a frame.                                                *)
(***************************************************************************)
EXTENDS Naturals, Sequences

CONSTANTS
  HeaderSize,   \* PacketHeader::Size
  MaxSize,      \* PacketHeader::MaxSize
  Sizes,        \* sizes of frames
  BufferCount,  \* buffers in the reader's TcpReadBufferPool
  PipeSize,     \* bound: bytes in the sockets' buffers
  MaxFrames,    \* bound: frames written
  MaxBreaks     \* bound: times the connection is lost

ASSUME SizesAssumption ==
  /\ HeaderSize \in Nat \ {0} /\ MaxSize \in Nat \ {0}
  /\ Sizes \subseteq Nat /\ Sizes # {}
ASSUME BoundsAssumption ==
  /\ BufferCount \in Nat /\ PipeSize \in Nat \ {0} /\ MaxFrames \in Nat /\ MaxBreaks \in Nat

VARIABLES
  pipe,        \* bytes sent and not yet received
  w,           \* the writer's _header, and which frame it is for
  writing,     \* what it is sending: "none", "header", "body"
  header_sent, \* bytes of the header sent (total_bytes of writeHeader)
  r,           \* the reader's _header
  reading,     \* what it is receiving: "header", "body"
  header_got,  \* bytes of the header received
  buffer,      \* _receive_buffer: its bytes
  held,        \* what _receive_buffer is: "none", "pool", "leaky"
  free,        \* buffers in the pool
  out,         \* buffers passed on and not yet released
  frames,      \* frames begun
  inflight,    \* frames begun and not yet passed on, dropped or lost with the connection
  delivered,   \* frames passed on
  misread,     \* a header was received that is none
  breaks

writer == <<w, writing, header_sent>>
reader == <<r, reading, header_got, buffer, held>>
vars == <<pipe, writer, reader, free, out, frames, inflight, delivered, misread, breaks>>

Smaller(a, b) == IF a < b THEN a ELSE b

\* Bytes, with what they say: a header's are numbered and carry its two lengths,
\* a body's carry the frame and their place in it.
HeaderByte(i, h) == [kind |-> "header", frame |-> 0, at |-> i,
                     data_length |-> h.data_length, total_bytes |-> h.total_bytes]
BodyByte(f, i) == [kind |-> "body", frame |-> f, at |-> i, data_length |-> 0, total_bytes |-> 0]
Stale == [kind |-> "stale", frame |-> 0, at |-> 0, data_length |-> 0, total_bytes |-> 0]

Contents(f, size) == [i \in 1 .. size |-> BodyByte(f, i)]
Frame == {Contents(f, size) : f \in 1 .. MaxFrames, size \in Sizes}

Init ==
  /\ pipe = <<>>
  /\ w = [frame |-> 0, total_bytes |-> 0, data_length |-> 0, bytes_written |-> 0]
  /\ writing = "none" /\ header_sent = 0
  /\ r = [total_bytes |-> 0, data_length |-> 0, bytes_written |-> 0]
  /\ reading = "header" /\ header_got = <<>> /\ buffer = <<>> /\ held = "none"
  /\ free = BufferCount /\ out = 0
  /\ frames = 0 /\ inflight = <<>> /\ delivered = <<>> /\ misread = FALSE /\ breaks = 0

-----------------------------------------------------------------------------
(* PacketHeader *)

\* Variant: one byte too many is taken off.
OffsetPacketShort(h, n) ==
  [h EXCEPT !.data_length = @ - n - 1, !.bytes_written = @ + n + 1]

OffsetPacket(h, n) ==
  [h EXCEPT !.data_length = @ - n, !.bytes_written = @ + n]

\* IsFinished counts the packet before it compares.
Counted(h) == [h EXCEPT !.bytes_written = @ + h.data_length]

\* Variant: a frame is finished when there is more than all of it.
IsFinishedBeyond(h) == Counted(h).bytes_written > h.total_bytes

IsFinished(h) == Counted(h).bytes_written >= h.total_bytes

SetupHeader(f, total) ==
  [frame |-> f, total_bytes |-> total, data_length |-> Smaller(total, MaxSize), bytes_written |-> 0]

SetupNextHeader(h) == [h EXCEPT !.data_length = Smaller(h.total_bytes - h.bytes_written, MaxSize)]

\* Variant: nothing is reset.
ResetHeaderNot(h) == h

ResetHeader(h) == [h EXCEPT !.bytes_written = 0]

-----------------------------------------------------------------------------
(* Writing *)

\* The next frame of the queue is begun.
Begin(size) ==
  /\ writing = "none" /\ frames < MaxFrames
  /\ frames' = frames + 1
  /\ w' = SetupHeader(frames + 1, size)
  /\ writing' = "header" /\ header_sent' = 0
  /\ inflight' = Append(inflight, Contents(frames + 1, size))
  /\ UNCHANGED <<pipe, reader, free, out, delivered, misread, breaks>>

\* How much a send or receive may take of what it is asked for: something, if
\* it is asked for anything.
Taken(asked, room) == {n \in 0 .. asked : n <= room /\ (n = 0 <=> asked = 0)}

\* A send of writeHeader ends: on with the rest of the header, or with the body.
WriteHeader ==
  /\ writing = "header"
  /\ \E n \in Taken(HeaderSize - header_sent, PipeSize - Len(pipe)) :
       /\ pipe' = pipe \o [i \in 1 .. n |-> HeaderByte(header_sent + i, w)]
       /\ header_sent' = header_sent + n
       /\ writing' = IF header_sent + n = HeaderSize THEN "body" ELSE "header"
  /\ UNCHANGED <<w, reader, free, out, frames, inflight, delivered, misread, breaks>>

\* A send of writeBody ends: on with the rest of the packet, with the next packet,
\* or with the next frame.
WriteBody ==
  /\ writing = "body"
  /\ \E n \in Taken(w.data_length, PipeSize - Len(pipe)) :
       /\ pipe' = pipe \o [i \in 1 .. n |-> BodyByte(w.frame, w.bytes_written + i)]
       /\ IF n # w.data_length
          THEN w' = OffsetPacket(w, n) /\ UNCHANGED <<writing, header_sent>>
          ELSE /\ header_sent' = 0
               /\ IF IsFinished(w) THEN writing' = "none" /\ w' = Counted(w)
                  ELSE writing' = "header" /\ w' = SetupNextHeader(Counted(w))
  /\ UNCHANGED <<reader, free, out, frames, inflight, delivered, misread, breaks>>

-----------------------------------------------------------------------------
(* Reading *)

\* GetReadBuffer, if there is no buffer yet; the leaky one when the pool is empty.
TakeBuffer ==
  \/ held # "none" /\ UNCHANGED <<held, buffer, free>>
  \/ held = "none" /\ free > 0 /\ held' = "pool" /\ buffer' = <<>> /\ free' = free - 1
  \/ held = "none" /\ free = 0 /\ held' = "leaky" /\ buffer' = <<>> /\ UNCHANGED free

\* Ok, of HeaderSize bytes received.
Ok(bytes) == \A i \in DOMAIN bytes : bytes[i].kind = "header" /\ bytes[i].at = i

\* A receive of readHeader ends: on with the rest, or with the body.  After a
\* header that is none the reader does nothing but close.
ReadHeader ==
  /\ reading = "header" /\ ~misread
  /\ \E n \in Taken(HeaderSize - Len(header_got), Len(pipe)) :
       LET got == header_got \o SubSeq(pipe, 1, n) IN
       /\ pipe' = SubSeq(pipe, n + 1, Len(pipe))
       /\ \/ /\ Len(got) < HeaderSize
             /\ header_got' = got
             /\ UNCHANGED <<r, reading, buffer, held, free, misread>>
          \/ /\ Len(got) = HeaderSize
             /\ misread' = ~Ok(got)
             /\ r' = [r EXCEPT !.data_length = got[1].data_length, !.total_bytes = got[1].total_bytes]
             /\ reading' = "body" /\ header_got' = <<>> /\ TakeBuffer
  /\ UNCHANGED <<writer, out, frames, inflight, delivered, breaks>>

\* The memory of a buffer after bytes are written at an offset.
Place(data, at, bytes) == [i \in 1 .. at |-> IF i <= Len(data) THEN data[i] ELSE Stale] \o bytes

\* Variant: the buffer goes back to the pool when it is passed on.
PassOnAndReturn(data) ==
  /\ held' = "none" /\ buffer' = <<>> /\ inflight' = Tail(inflight)
  /\ \/ held = "pool" /\ delivered' = Append(delivered, data) /\ out' = out + 1 /\ free' = free + 1
     \/ held = "leaky" /\ UNCHANGED <<delivered, out, free>>

\* A frame is complete: it is passed on, or dropped if it is in the leaky buffer.
PassOn(data) ==
  /\ held' = "none" /\ buffer' = <<>> /\ inflight' = Tail(inflight)
  /\ \/ held = "pool" /\ delivered' = Append(delivered, data) /\ out' = out + 1 /\ UNCHANGED free
     \/ held = "leaky" /\ UNCHANGED <<delivered, out, free>>

\* A receive of readBody ends: on with the rest of the packet, or with the next
\* header, of the same frame or of the next one.
ReadBody ==
  /\ reading = "body" /\ ~misread
  /\ \E n \in Taken(r.data_length, Len(pipe)) :
       LET data == Place(buffer, r.bytes_written, SubSeq(pipe, 1, n)) IN
       /\ pipe' = SubSeq(pipe, n + 1, Len(pipe))
       /\ IF n # r.data_length
          THEN /\ r' = OffsetPacket(r, n) /\ buffer' = data
               /\ UNCHANGED <<reading, held, out, free, inflight, delivered>>
          ELSE /\ reading' = "header"
               /\ IF IsFinished(r) THEN r' = ResetHeader(Counted(r)) /\ PassOn(data)
                  ELSE /\ r' = Counted(r) /\ buffer' = data
                       /\ UNCHANGED <<held, out, free, inflight, delivered>>
  /\ UNCHANGED <<writer, header_got, frames, misread, breaks>>

\* A buffer that was passed on is released and goes back to the pool.
Release ==
  /\ out > 0
  /\ out' = out - 1 /\ free' = free + 1
  /\ UNCHANGED <<pipe, writer, reader, frames, inflight, delivered, misread, breaks>>

-----------------------------------------------------------------------------
(* Losing the connection *)

\* The writer's queue is emptied; the next frame begins with SetupHeader.  The
\* bytes under way, and what was read of a header or of a frame, are gone.
Lost ==
  /\ breaks < MaxBreaks /\ breaks' = breaks + 1
  /\ pipe' = <<>> /\ inflight' = <<>>
  /\ writing' = "none" /\ header_sent' = 0 /\ UNCHANGED w
  /\ reading' = "header" /\ header_got' = <<>> /\ buffer' = <<>> /\ held' = "none"
  /\ misread' = FALSE
  /\ UNCHANGED <<frames, delivered>>

\* The reader is a TcpClient: disconnect and startConnection.
Reconnect ==
  /\ Lost
  /\ r' = ResetHeader(r)
  /\ free' = (IF held = "pool" THEN free + 1 ELSE free) /\ UNCHANGED out

\* The reader is a TcpCameraSession: another one takes over, with its own pool.
NewSession ==
  /\ Lost
  /\ r' = [total_bytes |-> 0, data_length |-> 0, bytes_written |-> 0]
  /\ free' = BufferCount /\ out' = 0

Write == WriteHeader \/ WriteBody
Read == ReadHeader \/ ReadBody

Next ==
  \/ \E size \in Sizes : Begin(size)
  \/ Write \/ Read \/ Release
  \/ Reconnect \/ NewSession

\* Both ends go on while they can.
Spec == Init /\ [][Next]_vars /\ WF_vars(Write) /\ WF_vars(Read)

-----------------------------------------------------------------------------
(* Properties *)

Byte == [kind : {"header", "body", "stale"}, frame : 0 .. MaxFrames, at : Nat,
         data_length : Nat, total_bytes : Nat]

TypeOK ==
  /\ pipe \in Seq(Byte) /\ header_got \in Seq(Byte) /\ buffer \in Seq(Byte)
  /\ w \in [frame : 0 .. MaxFrames, total_bytes : Nat, data_length : Nat, bytes_written : Nat]
  /\ r \in [total_bytes : Nat, data_length : Nat, bytes_written : Nat]
  /\ writing \in {"none", "header", "body"} /\ header_sent \in 0 .. HeaderSize
  /\ reading \in {"header", "body"} /\ held \in {"none", "pool", "leaky"}
  /\ free \in 0 .. BufferCount /\ out \in 0 .. BufferCount
  /\ frames \in 0 .. MaxFrames /\ breaks \in 0 .. MaxBreaks /\ misread \in BOOLEAN
  /\ inflight \in Seq(Seq(Byte)) /\ delivered \in Seq(Seq(Byte))

\* The lengths in the writer's header, and in the reader's.
WriterWithinFrame ==
  writing # "none" => w.bytes_written + w.data_length <= w.total_bytes /\ w.data_length <= MaxSize
ReaderWithinFrame ==
  reading = "body" => r.bytes_written + r.data_length <= r.total_bytes

\* However the bytes are cut up on the way, the reader never takes those of a frame
\* for a header, and no packet goes beyond the end of its frame, on either side:
\* the differences of OffsetPacket and SetupNextHeader do not wrap around, and
\* nothing is written beyond the size that was announced.
InStep == TypeOK /\ ~misread /\ WriterWithinFrame /\ ReaderWithinFrame

\* A buffer is in the pool, being filled, or passed on.
PoolBalanced == free + out + (IF held = "pool" THEN 1 ELSE 0) = BufferCount

\* The connection is a channel of whole frames.
Channel == INSTANCE FrameChannel
             WITH Frame <- Frame, inflight <- inflight, delivered <- delivered
Implements == Channel!Spec

\* Every frame that is begun gets to the other end, or is dropped there: writer
\* and reader never wait for each other.
FramesArrive == (inflight # <<>>) ~> (inflight = <<>>)
=============================================================================
