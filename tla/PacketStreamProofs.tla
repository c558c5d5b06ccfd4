-------------------------- MODULE PacketStreamProofs --------------------------
(***************************************************************************)
(* Proofs about PacketStream, for any sizes of headers, packets, frames,   *)
(* buffers and pools.                                                      *)
(***************************************************************************)
EXTENDS PacketStream, SequenceTheorems, WellFoundedInduction, TLAPS

\* The counters of the pool.
PoolInv == free \in Nat /\ out \in Nat /\ held \in {"none", "pool", "leaky"} /\ PoolBalanced

\* The writer's header.
WriterInv ==
  /\ w \in [frame : Nat, total_bytes : Nat, data_length : Nat, bytes_written : Nat]
  /\ frames \in Nat
  /\ WriterWithinFrame

LEMMA InitPool == Init => PoolInv
  BY BoundsAssumption DEF Init, PoolInv, PoolBalanced

LEMMA NextPool == PoolInv /\ [Next]_vars => PoolInv'
<1> SUFFICES ASSUME PoolInv, [Next]_vars PROVE PoolInv'
  OBVIOUS
<1> USE BoundsAssumption
<1>1. CASE UNCHANGED <<free, out, held>>
  BY <1>1 DEF PoolInv, PoolBalanced
<1>2. CASE ReadHeader
  <2>1. out' = out /\ (UNCHANGED <<held, free>> \/ TakeBuffer)
    BY <1>2 DEF ReadHeader
  <2> QED BY <2>1 DEF TakeBuffer, PoolInv, PoolBalanced
<1>3. CASE ReadBody
  <2>1. UNCHANGED <<held, out, free>> \/ (\E data : PassOn(data))
    BY <1>3 DEF ReadBody
  <2> QED BY <2>1 DEF PassOn, PoolInv, PoolBalanced
<1>4. CASE Release
  BY <1>4 DEF Release, reader, PoolInv, PoolBalanced
<1>5. CASE Reconnect
  BY <1>5 DEF Reconnect, Lost, PoolInv, PoolBalanced
<1>6. CASE NewSession
  BY <1>6 DEF NewSession, Lost, PoolInv, PoolBalanced
<1>7. ASSUME NEW size \in Sizes, Begin(size) PROVE UNCHANGED <<free, out, held>>
  BY <1>7 DEF Begin, reader
<1>8. ASSUME Write PROVE UNCHANGED <<free, out, held>>
  BY <1>8 DEF Write, WriteHeader, WriteBody, reader
<1>9. ASSUME UNCHANGED vars PROVE UNCHANGED <<free, out, held>>
  BY <1>9 DEF vars, reader
<1> QED BY <1>1, <1>2, <1>3, <1>4, <1>5, <1>6, <1>7, <1>8, <1>9 DEF Next, Read

\* A buffer of TcpReadBufferPool is in the pool, in the reader's hands or with
\* whoever it was passed on to; it is not lost with a frame that is dropped nor
\* with a connection.
THEOREM NoBufferLost == Spec => []PoolBalanced
<1>1. PoolInv => PoolBalanced
  BY DEF PoolInv
<1> QED BY <1>1, InitPool, NextPool, PTL DEF Spec

-----------------------------------------------------------------------------
(* The writer's lengths *)

LEMMA InitWriter == Init => WriterInv
  BY DEF Init, WriterInv, WriterWithinFrame

\* A packet that has been counted is followed by one that ends within the frame.
LEMMA NextPacket ==
  ASSUME WriterInv, writing = "body", ~IsFinished(w)
  PROVE LET h == SetupNextHeader(Counted(w)) IN
        /\ h \in [frame : Nat, total_bytes : Nat, data_length : Nat, bytes_written : Nat]
        /\ h.bytes_written + h.data_length <= h.total_bytes /\ h.data_length <= MaxSize
<1> DEFINE c == Counted(w)
<1>1. /\ c \in [frame : Nat, total_bytes : Nat, data_length : Nat, bytes_written : Nat]
      /\ c.bytes_written < c.total_bytes
  BY DEF WriterInv, Counted, IsFinished
<1> HIDE DEF c
<1> QED BY <1>1, SizesAssumption DEF SetupNextHeader, Smaller, c

LEMMA NextWriter == WriterInv /\ [Next]_vars => WriterInv'
<1> SUFFICES ASSUME WriterInv, [Next]_vars PROVE WriterInv'
  OBVIOUS
<1> USE SizesAssumption
<1>1. CASE UNCHANGED <<w, writing, frames>>
  BY <1>1 DEF WriterInv, WriterWithinFrame
<1>2. ASSUME NEW size \in Sizes, Begin(size) PROVE WriterInv'
  <2>1. size \in Nat /\ w' = SetupHeader(frames + 1, size) /\ frames' = frames + 1
    BY <1>2 DEF Begin
  <2> QED BY <2>1 DEF SetupHeader, Smaller, WriterInv, WriterWithinFrame
<1>3. CASE WriteHeader
  BY <1>3 DEF WriteHeader, WriterInv, WriterWithinFrame
<1>4. CASE WriteBody
  <2>1. writing = "body" /\ frames' = frames
    BY <1>4 DEF WriteBody
  <2>2. PICK n \in Taken(w.data_length, PipeSize - Len(pipe)) :
          IF n # w.data_length
          THEN w' = OffsetPacket(w, n) /\ UNCHANGED <<writing, header_sent>>
          ELSE /\ header_sent' = 0
               /\ IF IsFinished(w) THEN writing' = "none" /\ w' = Counted(w)
                  ELSE writing' = "header" /\ w' = SetupNextHeader(Counted(w))
    BY <1>4 DEF WriteBody
  <2>3. CASE n # w.data_length
    <3>1. n \in Nat /\ n <= w.data_length
      BY <2>2 DEF Taken, WriterInv
    <3>2. w' = [w EXCEPT !.data_length = w.data_length - n, !.bytes_written = w.bytes_written + n]
      BY <2>2, <2>3 DEF OffsetPacket
    <3>3. /\ w' \in [frame : Nat, total_bytes : Nat, data_length : Nat, bytes_written : Nat]
          /\ w'.data_length = w.data_length - n /\ w'.bytes_written = w.bytes_written + n
          /\ w'.total_bytes = w.total_bytes
      <4>1. w \in [frame : Nat, total_bytes : Nat, data_length : Nat, bytes_written : Nat]
        BY DEF WriterInv
      <4>2. w.data_length - n \in Nat /\ w.bytes_written + n \in Nat
        BY <3>1, <4>1
      <4> QED BY <3>2, <4>1, <4>2
    <3>4. /\ w.bytes_written + w.data_length <= w.total_bytes /\ w.data_length <= MaxSize
      BY <2>1 DEF WriterInv, WriterWithinFrame
    <3>5. w'.bytes_written + w'.data_length <= w'.total_bytes /\ w'.data_length <= MaxSize
      BY <3>1, <3>3, <3>4 DEF WriterInv
    <3> QED BY <2>1, <3>3, <3>5 DEF WriterInv, WriterWithinFrame
  <2>4. CASE n = w.data_length /\ IsFinished(w)
    BY <2>1, <2>2, <2>4 DEF Counted, WriterInv, WriterWithinFrame
  <2>5. CASE n = w.data_length /\ ~IsFinished(w)
    BY <2>1, <2>2, <2>5, NextPacket DEF WriterInv, WriterWithinFrame
  <2> QED BY <2>3, <2>4, <2>5
<1>5. ASSUME Read \/ Release \/ UNCHANGED vars PROVE UNCHANGED <<w, writing, frames>>
  BY <1>5 DEF Read, ReadHeader, ReadBody, Release, vars, writer
<1>6. CASE Reconnect \/ NewSession
  BY <1>6 DEF Reconnect, NewSession, Lost, WriterInv, WriterWithinFrame
<1> QED BY <1>1, <1>2, <1>3, <1>4, <1>5, <1>6 DEF Next, Write

\* Whatever the sizes, and however sends are cut short, OffsetPacket and
\* SetupNextHeader never subtract more than there is, and no packet is longer than
\* MaxSize.
THEOREM PacketsFitFrames == Spec => []WriterWithinFrame
<1>1. WriterInv => WriterWithinFrame
  BY DEF WriterInv
<1> QED BY <1>1, InitWriter, NextWriter, PTL DEF Spec

-----------------------------------------------------------------------------
(* Types *)

LEMMA ByteTypes ==
  /\ \A i \in Nat, h \in [data_length : Nat, total_bytes : Nat] : HeaderByte(i, h) \in Byte
  /\ \A f \in 0 .. MaxFrames, i \in Nat : BodyByte(f, i) \in Byte
  /\ Stale \in Byte
  BY BoundsAssumption DEF HeaderByte, BodyByte, Stale, Byte

\* The bytes of a list of known length.
LEMMA Listed ==
  ASSUME NEW S, NEW n \in Nat, NEW s, s \in [1 .. n -> S]
  PROVE  s \in Seq(S) /\ Len(s) = n
  BY SeqDef

LEMMA ContentsType ==
  ASSUME NEW f \in 0 .. MaxFrames, NEW size \in Nat
  PROVE  Contents(f, size) \in Seq(Byte) /\ Len(Contents(f, size)) = size
<1>1. Contents(f, size) \in [1 .. size -> Byte]
  BY ByteTypes DEF Contents
<1> QED BY <1>1, Listed

LEMMA InitType == Init => TypeOK
<1> SUFFICES ASSUME Init PROVE TypeOK
  OBVIOUS
<1>1. <<>> \in Seq(Byte) /\ <<>> \in Seq(Seq(Byte))
  BY EmptySeq
<1>2. /\ pipe \in Seq(Byte) /\ header_got \in Seq(Byte) /\ buffer \in Seq(Byte)
      /\ inflight \in Seq(Seq(Byte)) /\ delivered \in Seq(Seq(Byte))
  BY <1>1 DEF Init
<1>3. /\ w \in [frame : 0 .. MaxFrames, total_bytes : Nat, data_length : Nat, bytes_written : Nat]
      /\ r \in [total_bytes : Nat, data_length : Nat, bytes_written : Nat]
  BY BoundsAssumption DEF Init
<1>4. /\ header_sent \in 0 .. HeaderSize /\ free \in 0 .. BufferCount /\ out \in 0 .. BufferCount
      /\ frames \in 0 .. MaxFrames /\ breaks \in 0 .. MaxBreaks
  BY SizesAssumption, BoundsAssumption DEF Init
<1> QED BY <1>2, <1>3, <1>4 DEF Init, TypeOK

\* What is taken from the pipe, and what is left in it.
LEMMA PipeSplit ==
  ASSUME NEW S, NEW s \in Seq(S), NEW n \in Nat, n <= Len(s)
  PROVE  /\ SubSeq(s, 1, n) \in Seq(S) /\ Len(SubSeq(s, 1, n)) = n
         /\ \A i \in 1 .. n : SubSeq(s, 1, n)[i] = s[i]
         /\ SubSeq(s, n + 1, Len(s)) \in Seq(S) /\ Len(SubSeq(s, n + 1, Len(s))) = Len(s) - n
         /\ \A i \in 1 .. Len(s) - n : SubSeq(s, n + 1, Len(s))[i] = s[n + i]
<1>1. Len(s) \in Nat /\ \A i \in 1 .. Len(s) : s[i] \in S
  BY LenProperties
<1>2. \A i \in 1 .. n : s[i] \in S
  BY <1>1
<1>3. \A i \in n + 1 .. Len(s) : s[i] \in S
  BY <1>1
<1>4. /\ SubSeq(s, 1, n) \in Seq(S) /\ Len(SubSeq(s, 1, n)) = IF 1 <= n THEN n - 1 + 1 ELSE 0
      /\ \A i \in 1 .. n - 1 + 1 : SubSeq(s, 1, n)[i] = s[1 + i - 1]
  BY <1>2, SubSeqProperties
<1>5. /\ SubSeq(s, n + 1, Len(s)) \in Seq(S)
      /\ Len(SubSeq(s, n + 1, Len(s))) = IF n + 1 <= Len(s) THEN Len(s) - (n + 1) + 1 ELSE 0
      /\ \A i \in 1 .. Len(s) - (n + 1) + 1 : SubSeq(s, n + 1, Len(s))[i] = s[(n + 1) + i - 1]
  BY <1>1, <1>3, SubSeqProperties
<1>6. n - 1 + 1 = n /\ Len(s) - (n + 1) + 1 = Len(s) - n
  BY <1>1
<1>7. \A i \in Nat : 1 + i - 1 = i /\ (n + 1) + i - 1 = n + i
  OBVIOUS
<1>8. \A i \in 1 .. n : SubSeq(s, 1, n)[i] = s[i]
  BY <1>4, <1>6, <1>7
<1>9. \A i \in 1 .. Len(s) - n : SubSeq(s, n + 1, Len(s))[i] = s[n + i]
  BY <1>1, <1>5, <1>6, <1>7
<1> QED BY <1>1, <1>4, <1>5, <1>6, <1>8, <1>9

LEMMA TakenBounds ==
  ASSUME NEW asked \in Nat, NEW room \in Int, NEW n \in Taken(asked, room)
  PROVE  n \in Nat /\ n <= asked /\ n <= room /\ (n = 0 <=> asked = 0)
  BY DEF Taken

LEMMA PlaceType ==
  ASSUME NEW data \in Seq(Byte), NEW at \in Nat, NEW bytes \in Seq(Byte)
  PROVE  Place(data, at, bytes) \in Seq(Byte)
<1> DEFINE before == [i \in 1 .. at |-> IF i <= Len(data) THEN data[i] ELSE Stale]
<1>1. Len(data) \in Nat /\ \A i \in 1 .. Len(data) : data[i] \in Byte
  BY LenProperties
<1>2. before \in [1 .. at -> Byte]
  BY <1>1, ByteTypes
<1>3. before \in Seq(Byte)
  BY <1>2, Listed
<1> QED BY <1>3, ConcatProperties DEF Place

WriterType == [frame : 0 .. MaxFrames, total_bytes : Nat, data_length : Nat, bytes_written : Nat]
ReaderType == [total_bytes : Nat, data_length : Nat, bytes_written : Nat]

LEMMA BeginType ==
  ASSUME TypeOK, NEW size \in Sizes, Begin(size)
  PROVE  TypeOK'
<1> USE SizesAssumption, BoundsAssumption
<1>1. size \in Nat /\ frames + 1 \in 0 .. MaxFrames
  BY DEF Begin, TypeOK
<1>2. Contents(frames + 1, size) \in Seq(Byte)
  BY <1>1, ContentsType
<1>3. inflight' \in Seq(Seq(Byte))
  BY <1>2, AppendProperties DEF Begin, TypeOK
<1>4. w' \in WriterType
  BY <1>1 DEF Begin, SetupHeader, Smaller, WriterType
<1> QED BY <1>1, <1>3, <1>4 DEF Begin, TypeOK, WriterType, reader

LEMMA WriteHeaderType ==
  ASSUME TypeOK, WriteHeader
  PROVE  TypeOK'
<1> USE SizesAssumption, BoundsAssumption
<1>1. PICK n \in Taken(HeaderSize - header_sent, PipeSize - Len(pipe)) :
        /\ pipe' = pipe \o [i \in 1 .. n |-> HeaderByte(header_sent + i, w)]
        /\ header_sent' = header_sent + n
        /\ writing' = IF header_sent + n = HeaderSize THEN "body" ELSE "header"
  BY DEF WriteHeader
<1>2. HeaderSize - header_sent \in Nat /\ PipeSize - Len(pipe) \in Int
  BY LenProperties DEF TypeOK
<1>3. n \in Nat /\ n <= HeaderSize - header_sent
  BY <1>2, TakenBounds
<1>4. \A i \in 1 .. n : HeaderByte(header_sent + i, w) \in Byte
  BY <1>3 DEF TypeOK, HeaderByte, Byte
<1>5. [i \in 1 .. n |-> HeaderByte(header_sent + i, w)] \in [1 .. n -> Byte]
  BY <1>4
<1>6. [i \in 1 .. n |-> HeaderByte(header_sent + i, w)] \in Seq(Byte)
  BY <1>3, <1>5, Listed
<1>7. pipe' \in Seq(Byte)
  BY <1>1, <1>6, ConcatProperties DEF TypeOK
<1>8. header_sent' \in 0 .. HeaderSize
  BY <1>1, <1>3 DEF TypeOK
<1> QED BY <1>1, <1>7, <1>8 DEF WriteHeader, TypeOK, reader

LEMMA OffsetType ==
  ASSUME NEW n \in Nat
  PROVE  /\ \A h \in WriterType : n <= h.data_length => OffsetPacket(h, n) \in WriterType
         /\ \A h \in ReaderType : n <= h.data_length => OffsetPacket(h, n) \in ReaderType
<1>1. \A a, b \in Nat : n <= a => a - n \in Nat /\ b + n \in Nat
  OBVIOUS
<1> QED BY <1>1 DEF OffsetPacket, WriterType, ReaderType

LEMMA CountedType ==
  /\ \A h \in WriterType : Counted(h) \in WriterType
  /\ \A h \in ReaderType : Counted(h) \in ReaderType /\ ResetHeader(h) \in ReaderType
<1>1. \A a, b \in Nat : a + b \in Nat
  OBVIOUS
<1> QED BY <1>1 DEF Counted, ResetHeader, WriterType, ReaderType

LEMMA WriteBodyType ==
  ASSUME TypeOK, WriterInv, WriteBody
  PROVE  TypeOK'
<1> USE SizesAssumption, BoundsAssumption
<1>1. PICK n \in Taken(w.data_length, PipeSize - Len(pipe)) :
        /\ pipe' = pipe \o [i \in 1 .. n |-> BodyByte(w.frame, w.bytes_written + i)]
        /\ IF n # w.data_length
           THEN w' = OffsetPacket(w, n) /\ UNCHANGED <<writing, header_sent>>
           ELSE /\ header_sent' = 0
                /\ IF IsFinished(w) THEN writing' = "none" /\ w' = Counted(w)
                   ELSE writing' = "header" /\ w' = SetupNextHeader(Counted(w))
  BY DEF WriteBody
<1>2. w \in WriterType /\ w.data_length \in Nat /\ PipeSize - Len(pipe) \in Int
  BY LenProperties DEF TypeOK, WriterType
<1>3. n \in Nat /\ n <= w.data_length
  BY <1>2, TakenBounds
<1>4. \A i \in 1 .. n : BodyByte(w.frame, w.bytes_written + i) \in Byte
  BY <1>2, <1>3 DEF WriterType, BodyByte, Byte
<1>5. [i \in 1 .. n |-> BodyByte(w.frame, w.bytes_written + i)] \in [1 .. n -> Byte]
  BY <1>4
<1>6. [i \in 1 .. n |-> BodyByte(w.frame, w.bytes_written + i)] \in Seq(Byte)
  BY <1>3, <1>5, Listed
<1>7. pipe' \in Seq(Byte)
  BY <1>1, <1>6, ConcatProperties DEF TypeOK
<1>8. CASE n # w.data_length
  <2>1. w' \in WriterType
    BY <1>1, <1>2, <1>3, <1>8, OffsetType
  <2> QED BY <1>1, <1>7, <1>8, <2>1 DEF WriteBody, TypeOK, reader, WriterType
<1>9. CASE n = w.data_length /\ IsFinished(w)
  <2>1. w' \in WriterType /\ writing' = "none" /\ header_sent' = 0
    BY <1>1, <1>2, <1>9, CountedType
  <2> QED BY <1>7, <2>1 DEF WriteBody, TypeOK, reader, WriterType
<1>10. CASE n = w.data_length /\ ~IsFinished(w)
  <2>1. w' = SetupNextHeader(Counted(w)) /\ writing' = "header" /\ header_sent' = 0
    BY <1>1, <1>10
  <2>2. w' \in [frame : Nat, total_bytes : Nat, data_length : Nat, bytes_written : Nat]
    BY <1>10, <2>1, NextPacket DEF WriteBody
  <2>3. w'.frame \in 0 .. MaxFrames
    BY <1>2, <2>1 DEF SetupNextHeader, Counted, WriterType
  <2>4. w' \in WriterType
    BY <2>2, <2>3 DEF WriterType
  <2> QED BY <1>7, <2>1, <2>4 DEF WriteBody, TypeOK, reader, WriterType
<1> QED BY <1>8, <1>9, <1>10

LEMMA PoolBounds ==
  ASSUME NEW f \in Nat, NEW o \in Nat, NEW h, f + o + (IF h = "pool" THEN 1 ELSE 0) = BufferCount
  PROVE  f \in 0 .. BufferCount /\ o \in 0 .. BufferCount
<1>1. CASE h = "pool"
  BY <1>1, BoundsAssumption
<1>2. CASE h # "pool"
  BY <1>2, BoundsAssumption
<1> QED BY <1>1, <1>2

LEMMA ReadHeaderType ==
  ASSUME TypeOK, PoolInv', ReadHeader
  PROVE  TypeOK'
<1> USE SizesAssumption, BoundsAssumption
<1>1. PICK n \in Taken(HeaderSize - Len(header_got), Len(pipe)) :
        LET got == header_got \o SubSeq(pipe, 1, n) IN
        /\ pipe' = SubSeq(pipe, n + 1, Len(pipe))
        /\ \/ /\ Len(got) < HeaderSize
              /\ header_got' = got
              /\ UNCHANGED <<r, reading, buffer, held, free, misread>>
           \/ /\ Len(got) = HeaderSize
              /\ misread' = ~Ok(got)
              /\ r' = [r EXCEPT !.data_length = got[1].data_length, !.total_bytes = got[1].total_bytes]
              /\ reading' = "body" /\ header_got' = <<>> /\ TakeBuffer
  BY DEF ReadHeader
<1> DEFINE got == header_got \o SubSeq(pipe, 1, n)
<1>2. Len(pipe) \in Nat /\ Len(header_got) \in Nat /\ n \in Nat /\ n <= Len(pipe)
  BY LenProperties DEF TypeOK, Taken
<1>3. SubSeq(pipe, 1, n) \in Seq(Byte) /\ pipe' \in Seq(Byte)
  BY <1>1, <1>2, PipeSplit DEF TypeOK
<1>4. got \in Seq(Byte)
  BY <1>3, ConcatProperties DEF TypeOK
<1>5. free' \in 0 .. BufferCount /\ out' \in 0 .. BufferCount
  BY PoolBounds DEF PoolInv, PoolBalanced
<1>6. <<>> \in Seq(Byte)
  BY EmptySeq
<1>7. UNCHANGED <<writer, out, frames, inflight, delivered, breaks>>
  BY DEF ReadHeader
<1> HIDE DEF got
<1>8. CASE header_got' = got /\ UNCHANGED <<r, reading, buffer, held, free, misread>>
  BY <1>3, <1>4, <1>7, <1>8 DEF TypeOK, writer
<1>9. CASE /\ Len(got) = HeaderSize
           /\ misread' = ~Ok(got)
           /\ r' = [r EXCEPT !.data_length = got[1].data_length, !.total_bytes = got[1].total_bytes]
           /\ reading' = "body" /\ header_got' = <<>> /\ TakeBuffer
  <2>1. got[1] \in Byte
    BY <1>4, <1>9, LenProperties
  <2>2. r' \in ReaderType
    BY <1>9, <2>1 DEF TypeOK, ReaderType, Byte
  <2>3. buffer' \in Seq(Byte) /\ held' \in {"none", "pool", "leaky"}
    BY <1>6, <1>9 DEF TakeBuffer, TypeOK
  <2>4. misread' \in BOOLEAN
    BY <1>9
  <2> QED BY <1>3, <1>5, <1>6, <1>7, <1>9, <2>2, <2>3, <2>4 DEF TypeOK, ReaderType, writer
<1> QED BY <1>1, <1>8, <1>9 DEF got

LEMMA ReadBodyType ==
  ASSUME TypeOK, PoolInv', inflight # <<>>, ReadBody
  PROVE  TypeOK'
<1> USE SizesAssumption, BoundsAssumption
<1>1. PICK n \in Taken(r.data_length, Len(pipe)) :
        LET data == Place(buffer, r.bytes_written, SubSeq(pipe, 1, n)) IN
        /\ pipe' = SubSeq(pipe, n + 1, Len(pipe))
        /\ IF n # r.data_length
           THEN /\ r' = OffsetPacket(r, n) /\ buffer' = data
                /\ UNCHANGED <<reading, held, out, free, inflight, delivered>>
           ELSE /\ reading' = "header"
                /\ IF IsFinished(r) THEN r' = ResetHeader(Counted(r)) /\ PassOn(data)
                   ELSE /\ r' = Counted(r) /\ buffer' = data
                        /\ UNCHANGED <<held, out, free, inflight, delivered>>
  BY DEF ReadBody
<1> DEFINE data == Place(buffer, r.bytes_written, SubSeq(pipe, 1, n))
<1>2. r \in ReaderType /\ r.data_length \in Nat /\ r.bytes_written \in Nat /\ Len(pipe) \in Nat
  BY LenProperties DEF TypeOK, ReaderType
<1>3. n \in Nat /\ n <= r.data_length /\ n <= Len(pipe)
  BY <1>2, TakenBounds
<1>4. SubSeq(pipe, 1, n) \in Seq(Byte) /\ pipe' \in Seq(Byte)
  BY <1>1, <1>3, PipeSplit DEF TypeOK
<1>5. data \in Seq(Byte)
  BY <1>2, <1>4, PlaceType DEF TypeOK
<1>6. free' \in 0 .. BufferCount /\ out' \in 0 .. BufferCount /\ held' \in {"none", "pool", "leaky"}
  BY PoolBounds DEF PoolInv, PoolBalanced
<1>7. UNCHANGED <<writer, header_got, frames, misread, breaks>>
  BY DEF ReadBody
<1> HIDE DEF data
<1>8. CASE n # r.data_length
  <2>1. r' = OffsetPacket(r, n) /\ buffer' = data /\ UNCHANGED <<reading, inflight, delivered>>
    BY <1>1, <1>8 DEF data
  <2>2. r' \in ReaderType
    BY <1>2, <1>3, <2>1, OffsetType
  <2> QED BY <1>4, <1>5, <1>6, <1>7, <2>1, <2>2 DEF TypeOK, ReaderType, writer
<1>9. CASE n = r.data_length /\ ~IsFinished(r)
  <2>1. r' = Counted(r) /\ buffer' = data /\ reading' = "header" /\ UNCHANGED <<inflight, delivered>>
    BY <1>1, <1>9 DEF data
  <2>2. r' \in ReaderType
    BY <1>2, <2>1, CountedType
  <2> QED BY <1>4, <1>5, <1>6, <1>7, <2>1, <2>2 DEF TypeOK, ReaderType, writer
<1>10. CASE n = r.data_length /\ IsFinished(r)
  <2>1. r' = ResetHeader(Counted(r)) /\ reading' = "header" /\ PassOn(data)
    BY <1>1, <1>10 DEF data
  <2>2. r' \in ReaderType
    BY <1>2, <2>1, CountedType
  <2>3. buffer' \in Seq(Byte)
    BY <2>1, EmptySeq DEF PassOn
  <2>4. delivered' \in Seq(Seq(Byte))
    <3>1. delivered' = Append(delivered, data) \/ delivered' = delivered
      BY <2>1 DEF PassOn
    <3>2. delivered \in Seq(Seq(Byte))
      BY DEF TypeOK
    <3>3. Append(delivered, data) \in Seq(Seq(Byte))
      BY <1>5, <3>2, AppendProperties
    <3> QED BY <3>1, <3>2, <3>3
  <2>5. inflight' \in Seq(Seq(Byte))
    BY <2>1, HeadTailProperties DEF PassOn, TypeOK
  <2> QED BY <1>4, <1>6, <1>7, <2>1, <2>2, <2>3, <2>4, <2>5 DEF TypeOK, ReaderType, writer
<1> QED BY <1>8, <1>9, <1>10

LEMMA LostType ==
  ASSUME TypeOK, Lost, r' \in ReaderType, free' \in 0 .. BufferCount, out' \in 0 .. BufferCount
  PROVE  TypeOK'
<1>1. <<>> \in Seq(Byte) /\ <<>> \in Seq(Seq(Byte))
  BY EmptySeq
<1>2. breaks' \in 0 .. MaxBreaks /\ header_sent' \in 0 .. HeaderSize
  BY SizesAssumption, BoundsAssumption DEF Lost, TypeOK
<1> QED BY <1>1, <1>2 DEF Lost, TypeOK, ReaderType

LEMMA NextType ==
  ASSUME TypeOK, WriterInv, PoolInv, ReadBody => inflight # <<>>, [Next]_vars
  PROVE  TypeOK'
<1>1. PoolInv'
  BY NextPool
<1>2. free' \in 0 .. BufferCount /\ out' \in 0 .. BufferCount
  BY <1>1, PoolBounds DEF PoolInv, PoolBalanced
<1>3. ASSUME NEW size \in Sizes, Begin(size) PROVE TypeOK'
  BY <1>3, BeginType
<1>4. CASE WriteHeader
  BY <1>4, WriteHeaderType
<1>5. CASE WriteBody
  BY <1>5, WriteBodyType
<1>6. CASE ReadHeader
  BY <1>1, <1>6, ReadHeaderType
<1>7. CASE ReadBody
  BY <1>1, <1>7, ReadBodyType
<1>8. CASE Release
  BY <1>2, <1>8 DEF Release, TypeOK, writer, reader
<1>9. CASE Reconnect
  <2>1. r' \in ReaderType
    BY <1>9, CountedType DEF Reconnect, TypeOK, ReaderType
  <2> QED BY <1>2, <1>9, <2>1, LostType DEF Reconnect
<1>10. CASE NewSession
  <2>1. r' \in ReaderType
    BY <1>10 DEF NewSession, ReaderType
  <2> QED BY <1>2, <1>10, <2>1, LostType DEF NewSession
<1>11. CASE UNCHANGED vars
  BY <1>11 DEF TypeOK, vars, writer, reader
<1> QED BY <1>3, <1>4, <1>5, <1>6, <1>7, <1>8, <1>9, <1>10, <1>11 DEF Next, Write, Read

-----------------------------------------------------------------------------
(* The bytes under way *)

\* A place in the stream of bytes: that of the next byte of a header, or of a body.
\* left counts the bytes of the packet from there on, and is 0 in a header.
Cursor == [frame : Nat, header : Nat, at : Nat, left : Nat]
InHeader(f, k, x) == [frame |-> f, header |-> k, at |-> x, left |-> 0]
InBody(f, x, n) == [frame |-> f, header |-> HeaderSize, at |-> x, left |-> n]

\* With size, how many bytes each frame has: the packet that begins at x, and the
\* place after a packet, after some of it, and after some of its header.
PacketSize(size, f, x) == Smaller(size[f] - x, MaxSize)
Ended(size, f, x) == IF x < size[f] THEN InHeader(f, 0, x) ELSE InHeader(f + 1, 0, 0)
Body(size, f, x, n) == IF n > 0 THEN InBody(f, x, n) ELSE Ended(size, f, x)
Heading(size, f, k, x) ==
  IF k < HeaderSize THEN InHeader(f, k, x) ELSE Body(size, f, x, PacketSize(size, f, x))

\* The byte at a place, the next place, and the n-th place from there: while n is at
\* most the run, what is left of the header or of the body.
Lengths(size, c) == [data_length |-> PacketSize(size, c.frame, c.at), total_bytes |-> size[c.frame]]
ByteAt(size, c) ==
  IF c.header < HeaderSize THEN HeaderByte(c.header + 1, Lengths(size, c))
  ELSE BodyByte(c.frame, c.at + 1)
Further(size, c, n) ==
  IF c.header < HeaderSize THEN Heading(size, c.frame, c.header + n, c.at)
  ELSE Body(size, c.frame, c.at + n, c.left - n)
RunLength(c) == IF c.header < HeaderSize THEN HeaderSize - c.header ELSE c.left
Run(size, c, n) ==
  [i \in 1 .. n |-> IF c.header < HeaderSize THEN HeaderByte(c.header + i, Lengths(size, c))
                    ELSE BodyByte(c.frame, c.at + i)]

\* A place there can be.
Placed(size, c) ==
  /\ c \in Cursor
  /\ \/ c.header < HeaderSize /\ c.left = 0 /\ c.at <= size[c.frame]
     \/ c.header = HeaderSize /\ c.left > 0

LEMMA PacketSizeType ==
  ASSUME NEW size \in [Nat -> Nat], NEW f \in Nat, NEW x \in Nat, x <= size[f]
  PROVE  PacketSize(size, f, x) \in Nat
<1>1. size[f] \in Nat
  OBVIOUS
<1>2. size[f] - x \in Nat
  BY <1>1
<1> QED BY <1>2, SizesAssumption DEF PacketSize, Smaller

\* A packet ends within its frame; it is empty when that is complete.
LEMMA PacketSizeBounds ==
  ASSUME NEW size \in [Nat -> Nat], NEW f \in Nat, NEW x \in Nat, x <= size[f]
  PROVE  x + PacketSize(size, f, x) <= size[f] /\ (PacketSize(size, f, x) = 0 => x = size[f])
<1>1. PICK total \in Nat : total = size[f]
  OBVIOUS
<1>2. PICK rest \in Nat : rest = total - x /\ x + rest = total
  BY <1>1
<1>3. PICK n \in Nat : n = PacketSize(size, f, x) /\ n <= rest /\ (n = 0 => rest = 0)
  BY <1>1, <1>2, SizesAssumption DEF PacketSize, Smaller
<1>4. x + n <= total
  BY <1>2, <1>3
<1>5. n = 0 => x = total
  BY <1>2, <1>3
<1> QED BY <1>1, <1>3, <1>4, <1>5

LEMMA RunLengthType ==
  ASSUME NEW size, NEW c, Placed(size, c)
  PROVE  RunLength(c) \in Nat
  BY SizesAssumption DEF RunLength, Placed, Cursor

LEMMA FurtherType ==
  ASSUME NEW size \in [Nat -> Nat], NEW c, Placed(size, c), NEW n \in Nat, n <= RunLength(c)
  PROVE  Further(size, c, n) \in Cursor
<1> USE SizesAssumption
<1>1. /\ c.frame \in Nat /\ c.header \in Nat /\ c.at \in Nat /\ c.left \in Nat
      /\ c.frame + 1 \in Nat
  BY DEF Placed, Cursor
<1>2. CASE c.header < HeaderSize
  <2>1. PacketSize(size, c.frame, c.at) \in Nat /\ c.header + n \in Nat
    BY <1>1, <1>2, PacketSizeType DEF Placed
  <2> QED BY <1>1, <1>2, <2>1 DEF Further, Heading, InHeader, Body, InBody, Ended, Cursor
<1>3. CASE ~(c.header < HeaderSize)
  <2>1. c.at + n \in Nat /\ c.left - n \in Nat
    BY <1>1, <1>3 DEF RunLength
  <2> QED BY <1>1, <1>3, <2>1 DEF Further, Body, InBody, InHeader, Ended, Cursor
<1> QED BY <1>2, <1>3

\* Within a run, one place after another.
LEMMA FurtherStep ==
  ASSUME NEW size \in [Nat -> Nat], NEW c, Placed(size, c), NEW n \in Nat, n < RunLength(c)
  PROVE  LET d == Further(size, c, n) IN
         /\ d.frame = c.frame
         /\ ByteAt(size, d) = Run(size, c, n + 1)[n + 1]
         /\ Further(size, d, 1) = Further(size, c, n + 1)
<1> USE SizesAssumption
<1>1. c.frame \in Nat /\ c.header \in Nat /\ c.at \in Nat /\ c.left \in Nat
  BY DEF Placed, Cursor
<1>2. CASE c.header < HeaderSize
  <2>1. c.header + n < HeaderSize /\ (c.header + n) + 1 = c.header + (n + 1)
    BY <1>1, <1>2 DEF RunLength
  <2>2. Further(size, c, n) = InHeader(c.frame, c.header + n, c.at)
    BY <1>2, <2>1 DEF Further, Heading
  <2>3. Further(size, c, n + 1) = Heading(size, c.frame, c.header + (n + 1), c.at)
    BY <1>2 DEF Further
  <2>4. Run(size, c, n + 1)[n + 1] = HeaderByte(c.header + (n + 1), Lengths(size, c))
    <3>1. n + 1 \in 1 .. n + 1
      OBVIOUS
    <3> QED BY <1>2, <3>1, Zenon DEF Run
  <2> QED BY <2>1, <2>2, <2>3, <2>4 DEF InHeader, ByteAt, Further, Lengths
<1>3. CASE ~(c.header < HeaderSize)
  <2>1. /\ c.left - n > 0 /\ (c.at + n) + 1 = c.at + (n + 1)
        /\ (c.left - n) - 1 = c.left - (n + 1)
    BY <1>1, <1>3 DEF RunLength
  <2>2. Further(size, c, n) = InBody(c.frame, c.at + n, c.left - n)
    BY <1>3, <2>1 DEF Further, Body
  <2>3. Further(size, c, n + 1) = Body(size, c.frame, c.at + (n + 1), c.left - (n + 1))
    BY <1>3 DEF Further
  <2>4. Run(size, c, n + 1)[n + 1] = BodyByte(c.frame, c.at + (n + 1))
    <3>1. n + 1 \in 1 .. n + 1
      OBVIOUS
    <3> QED BY <1>3, <3>1, Zenon DEF Run
  <2> QED BY <2>1, <2>2, <2>3, <2>4 DEF InBody, ByteAt, Further
<1> QED BY <1>2, <1>3

LEMMA FurtherNone ==
  ASSUME NEW size, NEW c, Placed(size, c)
  PROVE  Further(size, c, 0) = c
<1> USE SizesAssumption
<1>1. c \in Cursor
  BY DEF Placed
<1>2. CASE c.header < HeaderSize
  BY <1>1, <1>2 DEF Further, Heading, InHeader, Placed, Cursor
<1>3. CASE ~(c.header < HeaderSize)
  BY <1>1, <1>3 DEF Further, Body, InBody, Placed, Cursor
<1> QED BY <1>2, <1>3

\* The bytes lie between two places: each is that of its place, and the places
\* follow one another.  None of them is beyond the last frame.
Chain(size, c, bytes, last) ==
  \A i \in 1 .. Len(bytes) :
    /\ c[i].frame <= last
    /\ bytes[i] = ByteAt(size, c[i])
    /\ c[i + 1] = Further(size, c[i], 1)
Linked(size, a, bytes, b, last) ==
  \E c \in [1 .. Len(bytes) + 1 -> Cursor] :
    c[1] = a /\ c[Len(bytes) + 1] = b /\ Chain(size, c, bytes, last)

LEMMA NothingLinked ==
  ASSUME NEW size, NEW a \in Cursor, NEW last
  PROVE  Linked(size, a, <<>>, a, last)
<1> DEFINE c == [i \in 1 .. 0 + 1 |-> a]
<1>1. Len(<<>>) = 0
  BY EmptySeq
<1>2. c \in [1 .. Len(<<>>) + 1 -> Cursor] /\ c[1] = a /\ c[Len(<<>>) + 1] = a
  BY <1>1
<1>3. Chain(size, c, <<>>, last)
  BY <1>1 DEF Chain
<1> QED BY <1>2, <1>3 DEF Linked

\* More bytes of the header, or of the body, that is being written.
LEMMA LinkedOn ==
  ASSUME NEW size \in [Nat -> Nat], NEW a, NEW b, NEW last, NEW n \in Nat,
         NEW bytes \in Seq(Byte), Run(size, b, n) \in [1 .. n -> Byte],
         Linked(size, a, bytes, b, last), Placed(size, b), n <= RunLength(b), b.frame <= last
  PROVE  Linked(size, a, bytes \o Run(size, b, n), Further(size, b, n), last)
<1> DEFINE L == Len(bytes)
           more == bytes \o Run(size, b, n)
<1>1. PICK c \in [1 .. L + 1 -> Cursor] : c[1] = a /\ c[L + 1] = b /\ Chain(size, c, bytes, last)
  BY DEF Linked
<1> DEFINE d == [i \in 1 .. (L + n) + 1 |-> IF i <= L THEN c[i] ELSE Further(size, b, i - (L + 1))]
<1>2. L \in Nat /\ L + n \in Nat /\ RunLength(b) \in Int
  <2>1. L \in Nat
    BY LenProperties
  <2>2. RunLength(b) \in Int
    BY RunLengthType
  <2> QED BY <2>1, <2>2
<1>3. Run(size, b, n) \in Seq(Byte) /\ Len(Run(size, b, n)) = n
  BY Listed
<1>4. /\ Len(more) = L + n
      /\ \A i \in 1 .. L + n : more[i] = IF i <= L THEN bytes[i] ELSE Run(size, b, n)[i - L]
  BY <1>3, ConcatProperties
<1>5. \A m \in 0 .. n : Further(size, b, m) \in Cursor
  <2> SUFFICES ASSUME NEW m \in 0 .. n PROVE Further(size, b, m) \in Cursor
    OBVIOUS
  <2>1. m \in Nat /\ m <= RunLength(b)
    BY <1>2
  <2> QED BY <2>1, FurtherType
<1>6. Further(size, b, 0) = b
  BY FurtherNone
<1>7. d \in [1 .. (L + n) + 1 -> Cursor]
  <2>1. ASSUME NEW i \in 1 .. (L + n) + 1, ~(i <= L) PROVE Further(size, b, i - (L + 1)) \in Cursor
    <3>1. i - (L + 1) \in 0 .. n
      BY <1>2, <2>1
    <3> QED BY <1>5, <3>1
  <2>2. ASSUME NEW i \in 1 .. (L + n) + 1, i <= L PROVE c[i] \in Cursor
    <3>1. i \in 1 .. L + 1
      BY <1>2, <2>2
    <3> QED BY <1>1, <3>1
  <2> QED BY <2>1, <2>2
<1>8. d[1] = a
  <2>1. CASE L = 0
    BY <1>1, <1>2, <1>6, <2>1
  <2>2. CASE L # 0
    BY <1>1, <1>2, <2>2
  <2> QED BY <2>1, <2>2
<1>9. d[(L + n) + 1] = Further(size, b, n)
  <2>1. ((L + n) + 1) - (L + 1) = n /\ (L + n) + 1 \in 1 .. (L + n) + 1 /\ ~((L + n) + 1 <= L)
    <3> HIDE DEF L
    <3> QED BY <1>2
  <2> QED BY <2>1
<1>10. ASSUME NEW i \in 1 .. L + n
       PROVE  d[i].frame <= last /\ more[i] = ByteAt(size, d[i]) /\ d[i + 1] = Further(size, d[i], 1)
  <2>1. CASE i <= L
    <3>1. i \in 1 .. L /\ d[i] = c[i] /\ more[i] = bytes[i]
      BY <1>2, <1>4, <2>1
    <3>2. d[i].frame <= last /\ more[i] = ByteAt(size, d[i]) /\ c[i + 1] = Further(size, d[i], 1)
      BY <1>1, <3>1 DEF Chain
    <3>3. CASE i + 1 <= L
      BY <1>2, <3>2, <3>3
    <3>4. CASE i = L
      <4>1. i + 1 \in 1 .. (L + n) + 1 /\ ~(i + 1 <= L) /\ (i + 1) - (L + 1) = 0
        <5> HIDE DEF L
        <5> QED BY <1>2, <3>4
      <4>2. d[i + 1] = Further(size, b, 0)
        BY <4>1
      <4> QED BY <1>1, <1>6, <3>2, <3>4, <4>2
    <3> QED BY <1>2, <2>1, <3>3, <3>4
  <2>2. CASE ~(i <= L)
    <3> DEFINE m == i - (L + 1)
    <3>1. /\ m \in Nat /\ m < n /\ i - L = m + 1 /\ (i + 1) - (L + 1) = m + 1
          /\ i \in 1 .. (L + n) + 1 /\ i + 1 \in 1 .. (L + n) + 1 /\ ~(i + 1 <= L)
      <4> HIDE DEF L
      <4> QED BY <1>2, <2>2
    <3> HIDE DEF m
    <3>2. d[i] = Further(size, b, m) /\ d[i + 1] = Further(size, b, m + 1)
      BY <2>2, <3>1 DEF m
    <3>3. more[i] = Run(size, b, n)[m + 1]
      BY <1>4, <2>2, <3>1
    <3>4. Run(size, b, n)[m + 1] = Run(size, b, m + 1)[m + 1]
      <4>1. m + 1 \in 1 .. n /\ m + 1 \in 1 .. m + 1
        BY <3>1
      <4> QED BY <4>1 DEF Run
    <3>5. m < RunLength(b)
      <4>1. RunLength(b) \in Int
        BY SizesAssumption DEF RunLength, Placed, Cursor
      <4> QED BY <3>1, <4>1
    <3>6. LET e == Further(size, b, m) IN
          /\ e.frame = b.frame
          /\ ByteAt(size, e) = Run(size, b, m + 1)[m + 1]
          /\ Further(size, e, 1) = Further(size, b, m + 1)
      BY <3>1, <3>5, FurtherStep
    <3> QED BY <3>2, <3>3, <3>4, <3>6
  <2> QED BY <2>1, <2>2
<1> HIDE DEF d, more
<1>11. Chain(size, d, more, last)
  BY <1>4, <1>10 DEF Chain
<1> QED BY <1>4, <1>7, <1>8, <1>9, <1>11 DEF Linked, more

IsFirst(n, S) == n \in S /\ \A m \in S : n <= m

LEMMA FirstExists ==
  ASSUME NEW S \in SUBSET Nat, S # {}
  PROVE  \E n \in S : IsFirst(n, S)
<1>1. \E n \in S : \A m \in S : ~(<<m, n>> \in OpToRel(<, Nat))
  BY NatLessThanWellFounded, WFMin
<1>2. \A m, n \in Nat : ~(<<m, n>> \in OpToRel(<, Nat)) => n <= m
  BY DEF OpToRel
<1> QED BY <1>1, <1>2 DEF IsFirst

LEMMA OneBack ==
  ASSUME NEW n \in Nat, NEW L \in Nat, n <= L, NEW k \in Nat, n <= k, NEW m \in 1 .. n
  PROVE  /\ m - 1 \in Nat /\ m - 1 < n /\ (m - 1) + 1 = m /\ m \in 1 .. L /\ ~(m <= m - 1)
         /\ m - 1 < k /\ m - 1 \in 0 .. n
  OBVIOUS

\* The bytes that are read are those of the header, or of the body, that is being
\* read: on the way from one place to the next, the first that would not be.
LEMMA ChainRuns ==
  ASSUME NEW size \in [Nat -> Nat], NEW last, NEW n \in Nat, NEW L \in Nat,
         NEW bytes \in Seq(Byte), L = Len(bytes), n <= L,
         NEW c \in [1 .. L + 1 -> Cursor], Chain(size, c, bytes, last),
         Placed(size, c[1]), n <= RunLength(c[1])
  PROVE  /\ \A i \in 0 .. n : c[i + 1] = Further(size, c[1], i)
         /\ \A i \in 1 .. n : bytes[i] = Run(size, c[1], n)[i]
<1> DEFINE a == c[1]
           S == {i \in 0 .. n : c[i + 1] # Further(size, a, i)}
<1>1. RunLength(a) \in Nat /\ n <= RunLength(a)
  BY RunLengthType
<1>2. S = {}
  <2> SUFFICES ASSUME S # {} PROVE FALSE
    OBVIOUS
  <2>1. PICK m \in S : IsFirst(m, S)
    <3>1. S \in SUBSET Nat
      OBVIOUS
    <3> QED BY <3>1, FirstExists
  <2>2. m \in 0 .. n /\ c[m + 1] # Further(size, a, m)
    OBVIOUS
  <2>3. m # 0
    BY <2>2, FurtherNone
  <2>4. /\ m - 1 \in Nat /\ m - 1 < n /\ (m - 1) + 1 = m /\ m \in 1 .. L /\ ~(m <= m - 1)
        /\ m - 1 < RunLength(a) /\ m - 1 \in 0 .. n
    <3>1. m \in 1 .. n
      BY <2>2, <2>3
    <3> HIDE DEF a, S
    <3> QED BY <1>1, <3>1, OneBack
  <2>5. m - 1 \notin S
    BY <2>1, <2>4 DEF IsFirst
  <2>6. c[m] = Further(size, a, m - 1)
    BY <2>4, <2>5
  <2>7. c[m + 1] = Further(size, c[m], 1)
    BY <2>4 DEF Chain
  <2>8. Further(size, Further(size, a, m - 1), 1) = Further(size, a, (m - 1) + 1)
    BY <2>4, FurtherStep
  <2> QED BY <2>2, <2>4, <2>6, <2>7, <2>8
<1>3. \A i \in 0 .. n : c[i + 1] = Further(size, a, i)
  BY <1>2
<1>4. ASSUME NEW i \in 1 .. n PROVE bytes[i] = Run(size, a, n)[i]
  <2>1. /\ i \in 1 .. L /\ i - 1 \in Nat /\ i - 1 \in 0 .. n /\ (i - 1) + 1 = i
        /\ i - 1 < RunLength(a)
    <3> HIDE DEF a, S
    <3> QED BY <1>1, OneBack
  <2>2. c[i] = Further(size, a, i - 1)
    BY <1>3, <2>1
  <2>3. bytes[i] = ByteAt(size, c[i])
    BY <2>1 DEF Chain
  <2>4. ByteAt(size, Further(size, a, i - 1)) = Run(size, a, (i - 1) + 1)[(i - 1) + 1]
    BY <2>1, FurtherStep
  <2>5. Run(size, a, i)[i] = Run(size, a, n)[i]
    <3>1. i \in 1 .. i
      OBVIOUS
    <3> QED BY <3>1 DEF Run
  <2> QED BY <2>1, <2>2, <2>3, <2>4, <2>5
<1> QED BY <1>3, <1>4

LEMMA LinkedFrom ==
  ASSUME NEW size \in [Nat -> Nat], NEW a, NEW b, NEW last, NEW n \in Nat,
         NEW bytes \in Seq(Byte), Linked(size, a, bytes, b, last),
         Placed(size, a), n <= RunLength(a), n <= Len(bytes)
  PROVE  /\ SubSeq(bytes, 1, n) = Run(size, a, n)
         /\ Linked(size, Further(size, a, n), SubSeq(bytes, n + 1, Len(bytes)), b, last)
         /\ n > 0 => a.frame <= last
<1> DEFINE L == Len(bytes)
           rest == SubSeq(bytes, n + 1, L)
<1>1. PICK c \in [1 .. L + 1 -> Cursor] : c[1] = a /\ c[L + 1] = b /\ Chain(size, c, bytes, last)
  BY DEF Linked
<1>2. L \in Nat
  BY LenProperties
<1>3. /\ \A i \in 0 .. n : c[i + 1] = Further(size, a, i)
      /\ \A i \in 1 .. n : bytes[i] = Run(size, a, n)[i]
  BY <1>1, <1>2, ChainRuns, ZenonT(40)
<1>4. /\ SubSeq(bytes, 1, n) \in Seq(Byte) /\ Len(SubSeq(bytes, 1, n)) = n
      /\ \A i \in 1 .. n : SubSeq(bytes, 1, n)[i] = bytes[i]
      /\ rest \in Seq(Byte) /\ Len(rest) = L - n
      /\ \A i \in 1 .. L - n : rest[i] = bytes[n + i]
  BY PipeSplit
<1>5. SubSeq(bytes, 1, n) = Run(size, a, n)
  <2>1. \A i \in 1 .. n : Run(size, a, n)[i] \in Byte
    <3>1. \A i \in 1 .. n : SubSeq(bytes, 1, n)[i] \in Byte
      BY <1>4, ElementOfSeq
    <3> QED BY <1>3, <1>4, <3>1
  <2>2. Run(size, a, n) \in [1 .. n -> Byte]
    BY <2>1 DEF Run
  <2>3. Run(size, a, n) \in Seq(Byte) /\ Len(Run(size, a, n)) = n
    BY <2>2, Listed
  <2> QED BY <1>3, <1>4, <2>3, SeqEqual
<1>6. n > 0 => a.frame <= last
  <2>1. n > 0 => 1 \in 1 .. L
    BY <1>2
  <2> QED BY <1>1, <2>1 DEF Chain
<1> DEFINE d == [i \in 1 .. (L - n) + 1 |-> c[n + i]]
<1>7. d \in [1 .. (L - n) + 1 -> Cursor]
  <2>1. ASSUME NEW i \in 1 .. (L - n) + 1 PROVE c[n + i] \in Cursor
    <3>1. n + i \in 1 .. L + 1
      <4> HIDE DEF L
      <4> QED BY <1>2
    <3> QED BY <1>1, <3>1
  <2> QED BY <2>1
<1>8. d[1] = Further(size, a, n) /\ d[(L - n) + 1] = b
  <2>1. 1 \in 1 .. (L - n) + 1 /\ (L - n) + 1 \in 1 .. (L - n) + 1 /\ n + ((L - n) + 1) = L + 1
    <3>1. n <= L
      OBVIOUS
    <3> HIDE DEF L
    <3> QED BY <1>2, <3>1
  <2>2. d[1] = c[n + 1]
    BY <2>1
  <2>3. d[(L - n) + 1] = c[L + 1]
    BY <2>1
  <2>4. n \in 0 .. n
    OBVIOUS
  <2> QED BY <1>1, <1>3, <2>2, <2>3, <2>4
<1>9. ASSUME NEW i \in 1 .. L - n
      PROVE  d[i].frame <= last /\ rest[i] = ByteAt(size, d[i]) /\ d[i + 1] = Further(size, d[i], 1)
  <2>1. /\ n + i \in 1 .. L /\ i \in 1 .. (L - n) + 1 /\ i + 1 \in 1 .. (L - n) + 1
        /\ n + (i + 1) = (n + i) + 1
    <3> HIDE DEF L
    <3> QED BY <1>2
  <2>2. d[i] = c[n + i] /\ d[i + 1] = c[(n + i) + 1] /\ rest[i] = bytes[n + i]
    BY <1>4, <2>1
  <2>3. /\ c[n + i].frame <= last /\ bytes[n + i] = ByteAt(size, c[n + i])
        /\ c[(n + i) + 1] = Further(size, c[n + i], 1)
    BY <1>1, <2>1 DEF Chain
  <2> QED BY <2>2, <2>3
<1> HIDE DEF d, rest
<1>10. Chain(size, d, rest, last)
  BY <1>4, <1>9 DEF Chain
<1>11. Linked(size, Further(size, a, n), rest, b, last)
  BY <1>4, <1>7, <1>8, <1>10 DEF Linked
<1> QED BY <1>5, <1>6, <1>11 DEF rest

\* A frame that is begun gets a size: nothing under way had to do with it before.
LEMMA LinkedStill ==
  ASSUME NEW size \in [Nat -> Nat], NEW other \in [Nat -> Nat], NEW last \in Nat,
         \A f \in 0 .. last : other[f] = size[f],
         NEW a, NEW b, NEW bytes \in Seq(Byte), Linked(size, a, bytes, b, last)
  PROVE  Linked(other, a, bytes, b, last + 1)
<1> DEFINE L == Len(bytes)
<1>1. PICK c \in [1 .. L + 1 -> Cursor] : c[1] = a /\ c[L + 1] = b /\ Chain(size, c, bytes, last)
  BY DEF Linked
<1>2. L \in Nat
  BY LenProperties
<1>3. ASSUME NEW i \in 1 .. L
      PROVE  /\ c[i].frame <= last + 1 /\ bytes[i] = ByteAt(other, c[i])
             /\ c[i + 1] = Further(other, c[i], 1)
  <2> DEFINE d == c[i]
  <2>1. d.frame <= last /\ bytes[i] = ByteAt(size, d) /\ c[i + 1] = Further(size, d, 1)
    BY <1>1 DEF Chain
  <2>2. d.frame \in Nat
    <3>1. i \in 1 .. L + 1
      BY <1>2
    <3> QED BY <1>1, <3>1 DEF Cursor
  <2> HIDE DEF d
  <2>3. d.frame <= last + 1 /\ other[d.frame] = size[d.frame]
    <3> DEFINE f == d.frame
    <3>1. f \in Nat /\ f <= last
      BY <2>1, <2>2
    <3> HIDE DEF f
    <3>2. f \in 0 .. last /\ f <= last + 1
      BY <3>1
    <3> QED BY <3>2 DEF f
  <2>4. ByteAt(other, d) = ByteAt(size, d)
    BY <2>3 DEF ByteAt, Lengths, PacketSize
  <2>5. Further(other, d, 1) = Further(size, d, 1)
    BY <2>3 DEF Further, Heading, Body, Ended, PacketSize
  <2> QED BY <2>1, <2>3, <2>4, <2>5 DEF d
<1>4. Chain(other, c, bytes, last + 1)
  BY <1>3 DEF Chain
<1> QED BY <1>1, <1>4 DEF Linked

-----------------------------------------------------------------------------
(* Writer and reader in step *)

\* The frames that are passed on, dropped or lost.
Base == frames - Len(inflight)

\* Where the reader and the writer are, by their counters.
ReaderPlace(size) ==
  IF reading = "header" THEN InHeader(Base + 1, Len(header_got), r.bytes_written)
  ELSE Body(size, Base + 1, r.bytes_written, r.data_length)
WriterPlace(size) ==
  CASE writing = "none" -> InHeader(frames + 1, 0, 0)
    [] writing = "header" -> InHeader(frames, header_sent, w.bytes_written)
    [] writing = "body" -> Body(size, frames, w.bytes_written, w.data_length)

ReaderLengths(size) ==
  [data_length |-> PacketSize(size, Base + 1, r.bytes_written), total_bytes |-> size[Base + 1]]

\* The writer is at the last frame that was begun.
WriterInStep(size) ==
  writing # "none" =>
    /\ frames > 0 /\ w.frame = frames /\ w.total_bytes = size[frames]
    /\ w.data_length = 0 => w.bytes_written = w.total_bytes
    /\ writing = "header" =>
         header_sent < HeaderSize /\ w.data_length = PacketSize(size, frames, w.bytes_written)

\* The reader is at the first frame in flight.
HeaderInStep(size) ==
  reading = "header" =>
    /\ Len(header_got) < HeaderSize
    /\ Len(header_got) > 0 => Base < frames
    /\ r.bytes_written > 0 => Base < frames /\ r.bytes_written < size[Base + 1]
    /\ \A i \in 1 .. Len(header_got) : header_got[i] = HeaderByte(i, ReaderLengths(size))
    /\ held = "none" <=> r.bytes_written = 0
BodyInStep(size) ==
  reading = "body" =>
    /\ Base < frames /\ header_got = <<>> /\ held # "none"
    /\ r.total_bytes = size[Base + 1] /\ r.bytes_written + r.data_length <= r.total_bytes
    /\ r.data_length = 0 => r.bytes_written = r.total_bytes
BufferInStep ==
  Len(buffer) = r.bytes_written
    /\ \A i \in 1 .. r.bytes_written : buffer[i] = BodyByte(Base + 1, i)

FramesInFlight(size) ==
  Base \in Nat /\ \A i \in 1 .. Len(inflight) : inflight[i] = Contents(Base + i, size[Base + i])

SyncWith(size) ==
  /\ WriterInStep(size) /\ HeaderInStep(size) /\ BodyInStep(size) /\ BufferInStep
  /\ FramesInFlight(size)
  /\ Linked(size, ReaderPlace(size), pipe, WriterPlace(size), frames)

\* There are sizes of the frames with which the bytes under way lead from the place
\* of the reader to that of the writer.
Sync == ~misread /\ \E size \in [Nat -> Nat] : SyncWith(size)

LEMMA InitSync == Init => Sync
<1> SUFFICES ASSUME Init PROVE Sync
  OBVIOUS
<1> DEFINE size == [f \in Nat |-> 0]
<1>1. Len(<<>>) = 0
  BY EmptySeq
<1>2. Base = 0 /\ frames = 0 /\ pipe = <<>>
  <2>1. frames = 0 /\ inflight = <<>> /\ pipe = <<>>
    BY DEF Init
  <2>2. Len(inflight) = 0
    BY <1>1, <2>1
  <2>3. frames = 0
    BY <2>1
  <2>4. Base = 0
    BY <2>2, <2>3 DEF Base
  <2> QED BY <2>1, <2>4
<1>3. WriterInStep(size) /\ HeaderInStep(size) /\ BodyInStep(size) /\ BufferInStep
  BY <1>1, <1>2, SizesAssumption
     DEF Init, WriterInStep, HeaderInStep, BodyInStep, BufferInStep
<1>4. FramesInFlight(size)
  BY <1>1, <1>2 DEF Init, FramesInFlight
<1>5. InHeader(1, 0, 0) \in Cursor
  BY DEF InHeader, Cursor
<1>6. ReaderPlace(size) = InHeader(1, 0, 0) /\ WriterPlace(size) = InHeader(1, 0, 0)
  BY <1>1, <1>2 DEF Init, ReaderPlace, WriterPlace
<1>7. SyncWith(size)
  BY <1>2, <1>3, <1>4, <1>5, <1>6, NothingLinked DEF SyncWith
<1> HIDE DEF size
<1>8. size \in [Nat -> Nat]
  BY DEF size
<1> QED BY <1>7, <1>8 DEF Sync, Init

\* After the connection was lost everything begins with the next frame.
LEMMA LostSync ==
  ASSUME TypeOK, Sync, Lost, r'.bytes_written = 0
  PROVE  Sync'
<1> PICK size \in [Nat -> Nat] : SyncWith(size)
  BY DEF Sync
<1>1. Len(<<>>) = 0
  BY EmptySeq
<1>2. /\ Base' = frames /\ frames' = frames /\ frames \in Nat /\ frames + 1 \in Nat /\ pipe' = <<>>
      /\ writing' = "none" /\ reading' = "header" /\ held' = "none"
      /\ header_got' = <<>> /\ buffer' = <<>> /\ inflight' = <<>> /\ misread' = FALSE
  BY <1>1 DEF Lost, TypeOK, Base
<1>3. WriterInStep(size)' /\ HeaderInStep(size)' /\ BodyInStep(size)' /\ BufferInStep'
  BY <1>1, <1>2, SizesAssumption DEF WriterInStep, HeaderInStep, BodyInStep, BufferInStep
<1>4. FramesInFlight(size)'
  BY <1>1, <1>2 DEF FramesInFlight
<1>5. InHeader(frames + 1, 0, 0) \in Cursor
  BY <1>2 DEF InHeader, Cursor
<1>6. ReaderPlace(size)' = InHeader(frames + 1, 0, 0) /\ WriterPlace(size)' = InHeader(frames + 1, 0, 0)
  BY <1>1, <1>2 DEF ReaderPlace, WriterPlace
<1>7. SyncWith(size)'
  BY <1>2, <1>3, <1>4, <1>5, <1>6, NothingLinked DEF SyncWith
<1> QED BY <1>2, <1>7 DEF Sync

LEMMA BeginSync ==
  ASSUME TypeOK, Sync, NEW bytes \in Sizes, Begin(bytes)
  PROVE  Sync'
<1> PICK size \in [Nat -> Nat] : SyncWith(size)
  BY DEF Sync
<1>1. bytes \in Nat /\ frames \in Nat /\ frames + 1 \in Nat /\ frames + 1 \in 0 .. MaxFrames
  BY SizesAssumption, BoundsAssumption DEF Begin, TypeOK
<1>2. PICK other \in [Nat -> Nat] :
        other[frames + 1] = bytes /\ \A f \in 0 .. frames : other[f] = size[f]
  <2> DEFINE next == [size EXCEPT ![frames + 1] = bytes]
  <2>1. \A f \in 0 .. frames : f # frames + 1 /\ f \in Nat
    BY <1>1
  <2>2. next \in [Nat -> Nat] /\ next[frames + 1] = bytes /\ \A f \in 0 .. frames : next[f] = size[f]
    BY <1>1, <2>1
  <2> QED BY <2>2
<1>3. /\ Len(inflight) \in Nat /\ Len(inflight') = Len(inflight) + 1
      /\ \A i \in 1 .. Len(inflight) : inflight'[i] = inflight[i]
      /\ inflight'[Len(inflight) + 1] = Contents(frames + 1, bytes)
  <2>1. inflight \in Seq(Seq(Byte)) /\ Contents(frames + 1, bytes) \in Seq(Byte)
    BY <1>1, ContentsType DEF TypeOK
  <2> QED BY <2>1, AppendProperties, LenProperties DEF Begin
<1>4. frames' = frames + 1 /\ writing = "none" /\ writing' = "header" /\ header_sent' = 0
  BY DEF Begin
<1>5. UNCHANGED <<pipe, r, reading, header_got, buffer, held, misread>>
  BY DEF Begin, reader
<1>6. Base \in Nat /\ Base' = Base /\ Base <= frames
  BY <1>1, <1>3, <1>4 DEF Base, SyncWith, FramesInFlight
<1>7. Base < frames => Base + 1 \in 0 .. frames /\ other[Base + 1] = size[Base + 1]
  <2>1. Base < frames => Base + 1 \in 0 .. frames
    BY <1>1, <1>6
  <2> QED BY <1>2, <2>1
<1>8. WriterInStep(other)'
  <2>1. w' = SetupHeader(frames + 1, bytes)
    BY DEF Begin
  <2>2. /\ w'.frame = frames + 1 /\ w'.total_bytes = bytes /\ w'.bytes_written = 0
        /\ w'.data_length = Smaller(bytes, MaxSize)
    BY <2>1 DEF SetupHeader
  <2>3. bytes - 0 = bytes /\ frames + 1 > 0 /\ 0 < HeaderSize
    BY <1>1, SizesAssumption
  <2>4. w'.data_length = PacketSize(other, frames + 1, 0)
    BY <1>2, <2>2, <2>3 DEF PacketSize
  <2>5. Smaller(bytes, MaxSize) = 0 => bytes = 0
    BY SizesAssumption DEF Smaller
  <2> QED BY <1>2, <1>4, <2>2, <2>3, <2>4, <2>5 DEF WriterInStep
<1>9. HeaderInStep(other)'
  <2>1. HeaderInStep(size)
    BY DEF SyncWith
  <2>2. Base < frames => ReaderLengths(other)' = ReaderLengths(size)
    BY <1>5, <1>6, <1>7 DEF ReaderLengths, PacketSize
  <2>3. Len(header_got) \in Nat
    BY LenProperties DEF TypeOK
  <2>4. \A i \in 1 .. Len(header_got) : Len(header_got) > 0
    BY <2>3
  <2>5. r.bytes_written \in Nat
    BY DEF TypeOK
  <2>6. \A i \in 1 .. Len(header_got) : header_got[i] = HeaderByte(i, ReaderLengths(other))' \/ reading # "header"
    BY <2>1, <2>2, <2>4, <1>5 DEF HeaderInStep
  <2> QED BY <1>1, <1>4, <1>5, <1>6, <1>7, <2>1, <2>3, <2>5, <2>6 DEF HeaderInStep
<1>10. BodyInStep(other)'
  BY <1>1, <1>4, <1>5, <1>6, <1>7 DEF SyncWith, BodyInStep
<1>11. BufferInStep'
  BY <1>5, <1>6 DEF SyncWith, BufferInStep
<1>12. FramesInFlight(other)'
  <2>1. ASSUME NEW i \in 1 .. Len(inflight) + 1 PROVE inflight'[i] = Contents(Base + i, other[Base + i])
    <3>1. CASE i = Len(inflight) + 1
      <4>1. Base + i = frames + 1
        BY <1>1, <1>3, <3>1 DEF Base
      <4> QED BY <1>2, <1>3, <3>1, <4>1
    <3>2. CASE i # Len(inflight) + 1
      <4>1. i \in 1 .. Len(inflight)
        <5> DEFINE n == Len(inflight)
        <5>1. n \in Nat /\ i \in 1 .. n + 1 /\ i # n + 1
          BY <1>3, <3>2
        <5> HIDE DEF n
        <5>2. i \in 1 .. n
          BY <5>1
        <5> QED BY <5>2 DEF n
      <4>2. Base + i \in 0 .. frames
        BY <1>1, <1>3, <1>6, <4>1 DEF Base
      <4> QED BY <1>2, <1>3, <4>1, <4>2 DEF SyncWith, FramesInFlight
    <3> QED BY <3>1, <3>2
  <2> QED BY <1>3, <1>6, <2>1 DEF FramesInFlight
<1>13. ReaderPlace(other)' = ReaderPlace(size)
  <2>1. CASE reading = "header"
    BY <1>5, <1>6, <2>1 DEF ReaderPlace
  <2>2. CASE reading # "header"
    <3>1. Base < frames
      BY <2>2 DEF TypeOK, SyncWith, BodyInStep
    <3> QED BY <1>5, <1>6, <1>7, <2>2, <3>1 DEF ReaderPlace, Body, Ended
  <2> QED BY <2>1, <2>2
<1>14. WriterPlace(other)' = WriterPlace(size)
  <2>1. w'.bytes_written = 0
    BY DEF Begin, SetupHeader
  <2> QED BY <1>4, <2>1 DEF WriterPlace
<1>15. Linked(other, ReaderPlace(size), pipe, WriterPlace(size), frames + 1)
  BY <1>1, <1>2, LinkedStill DEF SyncWith, TypeOK
<1>16. SyncWith(other)'
  BY <1>4, <1>5, <1>8, <1>9, <1>10, <1>11, <1>12, <1>13, <1>14, <1>15 DEF SyncWith
<1> QED BY <1>2, <1>5, <1>16 DEF Sync

\* What a writer leaves alone.
LEMMA ReaderSync ==
  ASSUME NEW size, SyncWith(size),
         UNCHANGED <<r, reading, header_got, buffer, held, frames, inflight>>
  PROVE  /\ HeaderInStep(size)' /\ BodyInStep(size)' /\ BufferInStep' /\ FramesInFlight(size)'
         /\ ReaderPlace(size)' = ReaderPlace(size)
<1>1. Base' = Base /\ ReaderLengths(size)' = ReaderLengths(size)
  BY DEF Base, ReaderLengths
<1>2. HeaderInStep(size)' /\ BodyInStep(size)'
  BY <1>1 DEF SyncWith, HeaderInStep, BodyInStep
<1>3. BufferInStep' /\ FramesInFlight(size)'
  BY <1>1 DEF SyncWith, BufferInStep, FramesInFlight
<1> QED BY <1>1, <1>2, <1>3 DEF ReaderPlace

LEMMA WriteHeaderSync ==
  ASSUME TypeOK, WriterInv, Sync, WriteHeader
  PROVE  Sync'
<1> PICK size \in [Nat -> Nat] : SyncWith(size)
  BY DEF Sync
<1> DEFINE b == WriterPlace(size)
<1>1. PICK n \in Taken(HeaderSize - header_sent, PipeSize - Len(pipe)) :
        /\ pipe' = pipe \o [i \in 1 .. n |-> HeaderByte(header_sent + i, w)]
        /\ header_sent' = header_sent + n
        /\ writing' = IF header_sent + n = HeaderSize THEN "body" ELSE "header"
  BY DEF WriteHeader
<1>2. /\ writing = "header" /\ misread' = misread
      /\ UNCHANGED <<w, r, reading, header_got, buffer, held, frames, inflight>>
  BY DEF WriteHeader, reader
<1>3. /\ w.bytes_written \in Nat /\ w.data_length \in Nat /\ w.total_bytes \in Nat
      /\ frames \in Nat /\ header_sent \in Nat /\ HeaderSize \in Nat
      /\ w.bytes_written <= w.total_bytes /\ w.bytes_written + w.data_length <= w.total_bytes
  <2>1. /\ w.bytes_written \in Nat /\ w.data_length \in Nat /\ w.total_bytes \in Nat
        /\ frames \in Nat /\ header_sent \in Nat /\ HeaderSize \in Nat
    BY SizesAssumption DEF TypeOK
  <2>2. w.bytes_written + w.data_length <= w.total_bytes
    BY <1>2 DEF WriterInv, WriterWithinFrame
  <2>3. \A x, y, z \in Nat : x + y <= z => x <= z
    OBVIOUS
  <2> QED BY <2>1, <2>2, <2>3
<1>4. /\ frames > 0 /\ w.frame = frames /\ w.total_bytes = size[frames]
      /\ w.data_length = 0 => w.bytes_written = w.total_bytes
      /\ header_sent < HeaderSize /\ w.data_length = PacketSize(size, frames, w.bytes_written)
  BY <1>2 DEF SyncWith, WriterInStep
<1>5. b = InHeader(frames, header_sent, w.bytes_written)
  BY <1>2 DEF WriterPlace
<1>6. /\ b \in Cursor /\ b.frame = frames /\ b.header = header_sent /\ b.at = w.bytes_written
      /\ b.left = 0
  BY <1>3, <1>5 DEF InHeader, Cursor
<1>7. Placed(size, b) /\ RunLength(b) = HeaderSize - header_sent
  BY <1>3, <1>4, <1>6 DEF Placed, RunLength
<1>8. n \in Nat /\ n <= HeaderSize - header_sent
  <2>1. HeaderSize - header_sent \in Nat
    BY <1>3, <1>4
  <2> QED BY <2>1 DEF Taken
<1>9. Run(size, b, n) = [i \in 1 .. n |-> HeaderByte(header_sent + i, w)]
  <2>1. \A i \in 1 .. n : HeaderByte(b.header + i, Lengths(size, b)) = HeaderByte(header_sent + i, w)
    BY <1>4, <1>6 DEF HeaderByte, Lengths
  <2> QED BY <1>4, <1>6, <2>1 DEF Run
<1>10. Run(size, b, n) \in [1 .. n -> Byte]
  <2>1. \A i \in 1 .. n : HeaderByte(header_sent + i, w) \in Byte
    BY <1>3, <1>8, BoundsAssumption DEF HeaderByte, Byte
  <2> QED BY <1>9, <2>1
<1> HIDE DEF b
<1>11. Linked(size, ReaderPlace(size), pipe', Further(size, b, n), frames)
  <2>1. /\ pipe \in Seq(Byte) /\ n <= RunLength(b) /\ b.frame <= frames
        /\ Linked(size, ReaderPlace(size), pipe, b, frames)
    BY <1>3, <1>6, <1>7, <1>8 DEF TypeOK, SyncWith, b
  <2>2. Linked(size, ReaderPlace(size), pipe \o Run(size, b, n), Further(size, b, n), frames)
    BY <1>7, <1>8, <1>10, <2>1, LinkedOn
  <2> QED BY <1>1, <1>9, <2>2
<1>12. WriterPlace(size)' = Further(size, b, n)
  <2>1. Further(size, b, n) = Heading(size, frames, header_sent + n, w.bytes_written)
    BY <1>4, <1>6 DEF Further
  <2>2. CASE header_sent + n = HeaderSize
    <3>1. writing' = "body"
      BY <1>1, <2>2
    <3>2. Heading(size, frames, header_sent + n, w.bytes_written)
            = Body(size, frames, w.bytes_written, w.data_length)
      BY <1>3, <1>4, <2>2 DEF Heading
    <3> QED BY <1>2, <2>1, <3>1, <3>2 DEF WriterPlace
  <2>3. CASE header_sent + n # HeaderSize
    <3>1. writing' = "header" /\ header_sent' = header_sent + n /\ header_sent + n < HeaderSize
      BY <1>1, <1>3, <1>8, <2>3
    <3> QED BY <1>2, <2>1, <3>1 DEF WriterPlace, Heading
  <2> QED BY <2>2, <2>3
<1>13. WriterInStep(size)'
  <2>1. writing' = "header" => header_sent' < HeaderSize
    BY <1>1, <1>3, <1>8
  <2> QED BY <1>2, <1>4, <2>1 DEF WriterInStep
<1>14. SyncWith(size)'
  BY <1>2, <1>11, <1>12, <1>13, ReaderSync DEF SyncWith
<1> QED BY <1>2, <1>14 DEF Sync

LEMMA WriteBodySync ==
  ASSUME TypeOK, WriterInv, Sync, WriteBody
  PROVE  Sync'
<1> PICK size \in [Nat -> Nat] : SyncWith(size)
  BY DEF Sync
<1> DEFINE b == WriterPlace(size)
<1>2. /\ writing = "body" /\ misread' = misread
      /\ UNCHANGED <<r, reading, header_got, buffer, held, frames, inflight>>
  BY DEF WriteBody, reader
<1>3. PICK at \in Nat, left \in Nat, total \in Nat :
        at = w.bytes_written /\ left = w.data_length /\ total = w.total_bytes
  BY DEF TypeOK
<1>11. frames \in Nat /\ HeaderSize \in Nat /\ at + left <= total
  BY <1>2, <1>3, SizesAssumption DEF WriterInv, WriterWithinFrame, TypeOK
<1>4. /\ frames > 0 /\ w.frame = frames /\ total = size[frames]
      /\ left = 0 => at = total
  BY <1>2, <1>3 DEF SyncWith, WriterInStep
<1>5. b = Body(size, frames, at, left)
  BY <1>2, <1>3 DEF WriterPlace
<1>6. PICK n \in Nat :
        /\ n <= left /\ (n = 0 <=> left = 0)
        /\ pipe' = pipe \o [i \in 1 .. n |-> BodyByte(w.frame, at + i)]
        /\ IF n # left
           THEN w' = OffsetPacket(w, n) /\ UNCHANGED <<writing, header_sent>>
           ELSE /\ header_sent' = 0
                /\ IF IsFinished(w) THEN writing' = "none" /\ w' = Counted(w)
                   ELSE writing' = "header" /\ w' = SetupNextHeader(Counted(w))
  <2>1. \A n \in Taken(left, PipeSize - Len(pipe)) : n \in Nat /\ n <= left /\ (n = 0 <=> left = 0)
    BY DEF Taken
  <2> QED BY <1>3, <2>1 DEF WriteBody
<1>1. n \in Nat /\ n <= left /\ (n = 0 <=> left = 0)
  BY <1>6
<1>7. [i \in 1 .. n |-> BodyByte(w.frame, at + i)] \in [1 .. n -> Byte]
  <2>1. \A i \in 1 .. n : BodyByte(w.frame, at + i) \in Byte
    <3>1. w.frame \in 0 .. MaxFrames /\ \A i \in 1 .. n : at + i \in Nat
      BY DEF TypeOK
    <3> QED BY <3>1 DEF BodyByte, Byte
  <2> QED BY <2>1
<1>8. Linked(size, ReaderPlace(size), pipe', Body(size, frames, at + n, left - n), frames)
  <2>1. Linked(size, ReaderPlace(size), pipe, b, frames) /\ pipe \in Seq(Byte)
    BY DEF SyncWith, TypeOK
  <2>2. CASE left = 0
    <3>1. n = 0 /\ at + n = at /\ left - n = left
      <4>1. n = 0
        BY <1>1, <2>2
      <4>2. at + n = at
        BY <4>1
      <4>3. left - n = left
        BY <2>2, <4>1
      <4> QED BY <4>1, <4>2, <4>3
    <3>2. [i \in 1 .. n |-> BodyByte(w.frame, at + i)] = <<>>
      <4>1. [i \in 1 .. n |-> BodyByte(w.frame, at + i)] \in Seq(Byte)
        BY <1>6, <1>7, Listed
      <4>2. Len([i \in 1 .. n |-> BodyByte(w.frame, at + i)]) = 0
        BY <1>6, <1>7, <3>1, Listed
      <4> QED BY <4>1, <4>2, EmptySeq
    <3>3. pipe' = pipe
      BY <1>6, <2>1, <3>2, ConcatEmptySeq
    <3> QED BY <1>5, <2>1, <3>1, <3>3
  <2>3. CASE left > 0
    <3>1. b = InBody(frames, at, left)
      BY <1>5, <2>3 DEF Body
    <3>2. /\ b \in Cursor /\ b.frame = frames /\ b.header = HeaderSize /\ b.at = at
          /\ b.left = left
      BY <1>11, <3>1 DEF InBody, Cursor
    <3>3. ~(b.header < HeaderSize)
      BY <1>11, <3>2
    <3>4. Placed(size, b) /\ RunLength(b) = left
      BY <2>3, <3>2, <3>3 DEF Placed, RunLength
    <3>5. Run(size, b, n) = [i \in 1 .. n |-> BodyByte(w.frame, at + i)]
      BY <1>4, <3>2, <3>3 DEF Run
    <3>6. Further(size, b, n) = Body(size, frames, at + n, left - n)
      BY <3>2, <3>3 DEF Further
    <3> HIDE DEF b
    <3>7. Run(size, b, n) \in [1 .. n -> Byte]
      BY <1>7, <3>5
    <3>9. n <= RunLength(b) /\ b.frame <= frames
      BY <1>1, <1>11, <3>2, <3>4
    <3>8. Linked(size, ReaderPlace(size), pipe \o Run(size, b, n), Further(size, b, n), frames)
      BY <2>1, <3>4, <3>7, <3>9, LinkedOn
    <3> QED BY <1>6, <3>5, <3>6, <3>8
  <2> QED BY <1>11, <2>2, <2>3
<1>9. WriterPlace(size)' = Body(size, frames, at + n, left - n) /\ WriterInStep(size)'
  <2>1. CASE n # left
    <3>1. w' = OffsetPacket(w, n) /\ writing' = "body"
      BY <1>6, <1>2, <2>1
    <3>2. /\ w'.bytes_written = at + n /\ w'.data_length = left - n
          /\ w'.frame = w.frame /\ w'.total_bytes = total
      BY <1>3, <3>1 DEF OffsetPacket, TypeOK
    <3>3. left - n # 0
      BY <1>11, <1>6, <2>1
    <3> QED BY <1>2, <1>4, <3>1, <3>2, <3>3 DEF WriterPlace, WriterInStep
  <2>2. CASE n = left
    <3> DEFINE x == at + left
    <3>1. /\ x \in Nat /\ at + n = x /\ ~(left - n > 0) /\ x <= total
      BY <1>11, <2>2
    <3>2. Body(size, frames, at + n, left - n) = Ended(size, frames, x)
      BY <3>1 DEF Body
    <3>3. /\ Counted(w).bytes_written = x /\ Counted(w).frame = w.frame
          /\ Counted(w).total_bytes = total
      BY <1>3 DEF Counted, TypeOK
    <3> HIDE DEF x
    <3>4. IsFinished(w) <=> ~(x < size[frames])
      <4>1. IsFinished(w) <=> x >= total
        BY <1>3, <3>3 DEF IsFinished
      <4> QED BY <1>11, <1>4, <3>1, <4>1
    <3>5. CASE IsFinished(w)
      <4>1. writing' = "none"
        BY <1>6, <2>2, <3>5
      <4> QED BY <1>2, <3>2, <3>4, <3>5, <4>1 DEF WriterPlace, WriterInStep, Ended
    <3>6. CASE ~IsFinished(w)
      <4>1. writing' = "header" /\ header_sent' = 0 /\ w' = SetupNextHeader(Counted(w))
        BY <1>6, <2>2, <3>6
      <4>2. /\ w'.bytes_written = x /\ w'.frame = w.frame /\ w'.total_bytes = total
            /\ w'.data_length = Smaller(total - x, MaxSize)
        <5>1. Counted(w) \in WriterType
          BY CountedType DEF TypeOK, WriterType
        <5> QED BY <3>3, <4>1, <5>1 DEF SetupNextHeader, WriterType
      <4>3. w'.data_length = PacketSize(size, frames, x)
        BY <1>4, <4>2 DEF PacketSize
      <4>4. w'.data_length # 0
        <5>1. x < total
          BY <1>4, <3>4, <3>6
        <5>2. total - x \in Nat /\ total - x # 0
          BY <1>11, <3>1, <5>1
        <5> QED BY <4>2, <5>2, SizesAssumption DEF Smaller
      <4>5. WriterInStep(size)'
        BY <1>2, <1>11, <1>4, <4>1, <4>2, <4>3, <4>4, SizesAssumption DEF WriterInStep
      <4>6. WriterPlace(size)' = Ended(size, frames, x)
        BY <1>2, <3>4, <3>6, <4>1, <4>2 DEF WriterPlace, Ended
      <4> QED BY <3>2, <4>5, <4>6
    <3> QED BY <3>5, <3>6
  <2> QED BY <2>1, <2>2
<1>10. SyncWith(size)'
  BY <1>2, <1>8, <1>9, ReaderSync DEF SyncWith
<1> QED BY <1>2, <1>10 DEF Sync

\* What a reader leaves alone.
LEMMA WriterSync ==
  ASSUME NEW size, SyncWith(size), UNCHANGED <<w, writing, header_sent, frames>>
  PROVE  WriterInStep(size)' /\ WriterPlace(size)' = WriterPlace(size)
  BY DEF SyncWith, WriterInStep, WriterPlace

\* A header that is complete is one, and its lengths fit the frame.
LEMMA ReadHeaderSync ==
  ASSUME TypeOK, Sync, ReadHeader
  PROVE  Sync'
<1> PICK size \in [Nat -> Nat] : SyncWith(size)
  BY DEF Sync
<1>1. PICK k \in Nat, at \in Nat, f \in Nat :
        k = Len(header_got) /\ at = r.bytes_written /\ f = Base + 1
  <2>1. Len(header_got) \in Nat /\ r.bytes_written \in Nat
    BY LenProperties DEF TypeOK
  <2>2. Base + 1 \in Nat
    BY DEF SyncWith, FramesInFlight
  <2> QED BY <2>1, <2>2
<1>2. PICK n \in Taken(HeaderSize - Len(header_got), Len(pipe)) :
        LET got == header_got \o SubSeq(pipe, 1, n) IN
        /\ pipe' = SubSeq(pipe, n + 1, Len(pipe))
        /\ \/ /\ Len(got) < HeaderSize
              /\ header_got' = got
              /\ UNCHANGED <<r, reading, buffer, held, free, misread>>
           \/ /\ Len(got) = HeaderSize
              /\ misread' = ~Ok(got)
              /\ r' = [r EXCEPT !.data_length = got[1].data_length, !.total_bytes = got[1].total_bytes]
              /\ reading' = "body" /\ header_got' = <<>> /\ TakeBuffer
  BY DEF ReadHeader
<1> DEFINE a == ReaderPlace(size)
           lengths == ReaderLengths(size)
           got == header_got \o SubSeq(pipe, 1, n)
<1>3. reading = "header" /\ UNCHANGED <<w, writing, header_sent, frames, inflight>>
  BY DEF ReadHeader, writer
<1>4. /\ k < HeaderSize /\ HeaderSize \in Nat
      /\ at > 0 => Base < frames /\ at < size[f]
      /\ \A i \in 1 .. k : header_got[i] = HeaderByte(i, lengths)
      /\ held = "none" <=> at = 0
  BY <1>1, <1>3, SizesAssumption DEF SyncWith, HeaderInStep
<1>5. n \in Nat /\ n > 0 /\ k + n <= HeaderSize /\ n <= Len(pipe)
  <2>1. HeaderSize - k \in Nat /\ HeaderSize - k > 0
    BY <1>4
  <2>2. n \in Nat /\ n <= HeaderSize - k /\ n <= Len(pipe) /\ (n = 0 <=> HeaderSize - k = 0)
    BY <1>1, <2>1 DEF Taken
  <2>3. n > 0
    BY <2>1, <2>2
  <2>4. k + n <= HeaderSize
    BY <1>4, <2>2
  <2> QED BY <2>2, <2>3, <2>4
<1>6. size[f] \in Nat /\ at <= size[f]
  <2>1. size[f] \in Nat
    OBVIOUS
  <2> QED BY <1>4, <2>1
<1>7. a = InHeader(f, k, at)
  BY <1>1, <1>3 DEF ReaderPlace
<1>8. a \in Cursor /\ a.frame = f /\ a.header = k /\ a.at = at /\ a.left = 0
  BY <1>7 DEF InHeader, Cursor
<1>9. Placed(size, a) /\ RunLength(a) = HeaderSize - k
  BY <1>4, <1>6, <1>8 DEF Placed, RunLength
<1>10. Lengths(size, a) = lengths
  BY <1>1, <1>8 DEF Lengths, ReaderLengths
<1> HIDE DEF a
<1>11. /\ SubSeq(pipe, 1, n) = Run(size, a, n)
       /\ Linked(size, Further(size, a, n), pipe', WriterPlace(size), frames)
       /\ f <= frames
  <2>1. n <= RunLength(a)
    BY <1>4, <1>5, <1>9
  <2>2. pipe \in Seq(Byte) /\ Linked(size, a, pipe, WriterPlace(size), frames)
    BY DEF TypeOK, SyncWith, a
  <2>3. /\ SubSeq(pipe, 1, n) = Run(size, a, n)
        /\ Linked(size, Further(size, a, n), SubSeq(pipe, n + 1, Len(pipe)), WriterPlace(size), frames)
        /\ n > 0 => a.frame <= frames
    BY <1>5, <1>9, <2>1, <2>2, LinkedFrom
  <2> QED BY <1>2, <1>5, <1>8, <2>3
<1>12. Base < frames /\ Base' = Base
  <2>1. Base \in Nat /\ frames \in Nat
    BY DEF SyncWith, FramesInFlight, TypeOK
  <2>2. Base < frames
    BY <1>1, <1>11, <2>1
  <2> QED BY <1>3, <2>2 DEF Base
<1>13. Len(got) = k + n /\ \A i \in 1 .. k + n : got[i] = HeaderByte(i, lengths)
  <2>1. SubSeq(pipe, 1, n) \in Seq(Byte) /\ Len(SubSeq(pipe, 1, n)) = n
    <3>1. pipe \in Seq(Byte) /\ n \in Nat /\ n <= Len(pipe)
      BY <1>5 DEF TypeOK
    <3> QED BY <3>1, PipeSplit
  <2>2. /\ Len(got) = k + n
        /\ \A i \in 1 .. k + n : got[i] = IF i <= k THEN header_got[i] ELSE SubSeq(pipe, 1, n)[i - k]
    <3>1. header_got \in Seq(Byte)
      BY DEF TypeOK
    <3>2. /\ Len(got) = Len(header_got) + n
          /\ \A i \in 1 .. Len(header_got) + n :
               got[i] = IF i <= Len(header_got) THEN header_got[i]
                        ELSE SubSeq(pipe, 1, n)[i - Len(header_got)]
      BY <2>1, <3>1, ConcatProperties, ZenonT(40)
    <3> QED BY <1>1, <3>2
  <2>3. \A i \in 1 .. n : SubSeq(pipe, 1, n)[i] = HeaderByte(k + i, lengths)
    BY <1>4, <1>8, <1>10, <1>11 DEF Run
  <2>4. ASSUME NEW i \in 1 .. k + n PROVE got[i] = HeaderByte(i, lengths)
    <3>1. CASE i <= k
      <4>1. i \in 1 .. k
        BY <3>1
      <4> QED BY <1>4, <2>2, <3>1, <4>1
    <3>2. CASE ~(i <= k)
      <4>1. i - k \in 1 .. n /\ k + (i - k) = i
        BY <1>5, <3>2
      <4> QED BY <2>2, <2>3, <3>2, <4>1
    <3> QED BY <3>1, <3>2
  <2> QED BY <2>2, <2>4
<1>14. Further(size, a, n) = Heading(size, f, k + n, at)
  BY <1>4, <1>8 DEF Further
<1>15. WriterInStep(size)' /\ WriterPlace(size)' = WriterPlace(size)
  BY <1>3, WriterSync
<1>16. FramesInFlight(size)'
  BY <1>3, <1>12 DEF SyncWith, FramesInFlight
<1> HIDE DEF got, lengths
<1>17. CASE Len(got) < HeaderSize /\ header_got' = got /\ UNCHANGED <<r, reading, buffer, held, misread>>
  <2>1. k + n < HeaderSize /\ Len(header_got') = k + n
    BY <1>13, <1>17
  <2>2. ReaderPlace(size)' = Further(size, a, n)
    BY <1>1, <1>3, <1>12, <1>14, <1>17, <2>1 DEF ReaderPlace, Heading
  <2>3. ReaderLengths(size)' = lengths
    BY <1>12, <1>17 DEF ReaderLengths, lengths
  <2>4. HeaderInStep(size)'
    BY <1>1, <1>3, <1>4, <1>12, <1>13, <1>17, <2>1, <2>3 DEF HeaderInStep
  <2>5. BodyInStep(size)' /\ BufferInStep'
    BY <1>3, <1>12, <1>17 DEF BodyInStep, BufferInStep, SyncWith
  <2>6. SyncWith(size)'
    BY <1>3, <1>11, <1>15, <1>16, <2>2, <2>4, <2>5 DEF SyncWith
  <2> QED BY <1>17, <2>6 DEF Sync
<1>18. CASE /\ Len(got) = HeaderSize
            /\ misread' = ~Ok(got)
            /\ r' = [r EXCEPT !.data_length = got[1].data_length, !.total_bytes = got[1].total_bytes]
            /\ reading' = "body" /\ header_got' = <<>> /\ TakeBuffer
  <2>1. k + n = HeaderSize
    BY <1>13, <1>18
  <2>2. Ok(got)
    <3>1. DOMAIN got = 1 .. k + n
      <4>1. got \in Seq(Byte)
        <5>1. SubSeq(pipe, 1, n) \in Seq(Byte)
          BY <1>5, PipeSplit DEF TypeOK
        <5> QED BY <5>1, ConcatProperties DEF TypeOK, got
      <4> QED BY <1>13, <4>1, LenProperties
    <3>2. \A i \in 1 .. k + n : got[i].kind = "header" /\ got[i].at = i
      <4>1. \A i : HeaderByte(i, lengths).kind = "header" /\ HeaderByte(i, lengths).at = i
        BY DEF HeaderByte
      <4> QED BY <1>13, <4>1
    <3> QED BY <3>1, <3>2 DEF Ok
  <2>3. got[1] = HeaderByte(1, lengths)
    <3>1. 1 \in 1 .. k + n
      BY <1>5
    <3> QED BY <1>13, <3>1
  <2>4. /\ r'.data_length = PacketSize(size, f, at) /\ r'.total_bytes = size[f]
        /\ r'.bytes_written = at
    BY <1>1, <1>18, <2>3 DEF TypeOK, HeaderByte, ReaderLengths, lengths
  <2>5. ReaderPlace(size)' = Further(size, a, n)
    <3>1. Heading(size, f, k + n, at) = Body(size, f, at, PacketSize(size, f, at))
      BY <1>4, <2>1 DEF Heading
    <3> QED BY <1>1, <1>12, <1>14, <1>18, <2>4, <3>1 DEF ReaderPlace
  <2>6. /\ at + PacketSize(size, f, at) <= size[f]
        /\ PacketSize(size, f, at) = 0 => at = size[f]
    BY <1>6, PacketSizeBounds
  <2>7. held' # "none" /\ BufferInStep'
    <3>1. CASE held # "none"
      BY <1>1, <1>12, <1>18, <2>4, <3>1 DEF TakeBuffer, SyncWith, BufferInStep
    <3>2. CASE held = "none"
      <4>1. at = 0 /\ buffer' = <<>> /\ held' # "none" /\ Len(<<>>) = 0
        BY <1>4, <1>18, <3>2, EmptySeq DEF TakeBuffer
      <4> QED BY <2>4, <4>1 DEF BufferInStep
    <3> QED BY <3>1, <3>2
  <2>8. HeaderInStep(size)' /\ BodyInStep(size)'
    BY <1>1, <1>3, <1>12, <1>18, <2>4, <2>6, <2>7 DEF HeaderInStep, BodyInStep
  <2>9. SyncWith(size)'
    BY <1>3, <1>11, <1>15, <1>16, <2>5, <2>7, <2>8 DEF SyncWith
  <2> QED BY <1>18, <2>2, <2>9 DEF Sync
<1> QED BY <1>2, <1>17, <1>18 DEF got

\* The bytes of a frame so far, and those just received.
Begun(f, data, n) ==
  data \in Seq(Byte) /\ Len(data) = n /\ \A i \in 1 .. n : data[i] = BodyByte(f, i)
Added(f, at, bytes, n) ==
  bytes \in Seq(Byte) /\ Len(bytes) = n /\ \A i \in 1 .. n : bytes[i] = BodyByte(f, at + i)

LEMMA PlaceContents ==
  ASSUME NEW f, NEW at \in Nat, NEW n \in Nat, NEW data, NEW bytes,
         Begun(f, data, at), Added(f, at, bytes, n)
  PROVE  Begun(f, Place(data, at, bytes), at + n)
<1> USE DEF Begun, Added
<1> DEFINE before == [i \in 1 .. at |-> IF i <= Len(data) THEN data[i] ELSE Stale]
           all == before \o bytes
<1>1. \A i \in 1 .. at : data[i] \in Byte
  BY ElementOfSeq
<1>2. before \in [1 .. at -> Byte] /\ \A i \in 1 .. at : before[i] = BodyByte(f, i)
  BY <1>1
<1> HIDE DEF before
<1>3. before \in Seq(Byte) /\ Len(before) = at
  BY <1>2, Listed
<1>4. /\ all \in Seq(Byte) /\ Len(all) = at + n
      /\ \A i \in 1 .. at + n : all[i] = IF i <= at THEN before[i] ELSE bytes[i - at]
  <2>1. /\ all \in Seq(Byte) /\ Len(all) = Len(before) + Len(bytes)
        /\ \A i \in 1 .. Len(before) + Len(bytes) :
             all[i] = IF i <= Len(before) THEN before[i] ELSE bytes[i - Len(before)]
    BY <1>3, ConcatProperties
  <2> QED BY <1>3, <2>1
<1>5. ASSUME NEW i \in 1 .. at + n PROVE all[i] = BodyByte(f, i)
  <2>1. CASE i <= at
    <3>1. i \in 1 .. at
      BY <2>1
    <3> QED BY <1>2, <1>4, <2>1, <3>1
  <2>2. CASE ~(i <= at)
    <3>1. i - at \in 1 .. n /\ at + (i - at) = i
      BY <2>2
    <3> QED BY <1>4, <2>2, <3>1
  <2> QED BY <2>1, <2>2
<1>6. Place(data, at, bytes) = all
  BY DEF Place, before
<1> QED BY <1>4, <1>5, <1>6

\* What the reader has after a receive of n bytes of a body.
ReceivedBody(size, f, at, left, n, data) ==
  /\ reading = "body" /\ f = Base + 1 /\ f <= frames
  /\ r.bytes_written = at /\ r.data_length = left /\ r.total_bytes = size[f]
  /\ at + left <= size[f] /\ (left = 0 => at = size[f])
  /\ n <= left /\ (n = 0 <=> left = 0)
  /\ Begun(f, data, at + n)
  /\ Linked(size, Body(size, f, at + n, left - n), pipe', WriterPlace(size), frames)
  /\ IF n # left
     THEN /\ r' = OffsetPacket(r, n) /\ buffer' = data
          /\ UNCHANGED <<reading, held, out, free, inflight, delivered>>
     ELSE /\ reading' = "header"
          /\ IF IsFinished(r) THEN r' = ResetHeader(Counted(r)) /\ PassOn(data)
             ELSE /\ r' = Counted(r) /\ buffer' = data
                  /\ UNCHANGED <<held, out, free, inflight, delivered>>

LEMMA BodyReceived ==
  ASSUME TypeOK, NEW size \in [Nat -> Nat], SyncWith(size), ReadBody
  PROVE  \E f, at, left, n \in Nat : \E data : ReceivedBody(size, f, at, left, n, data)
<1>1. PICK at \in Nat, left \in Nat, f \in Nat :
        at = r.bytes_written /\ left = r.data_length /\ f = Base + 1
  <2>1. r.bytes_written \in Nat /\ r.data_length \in Nat
    BY DEF TypeOK
  <2>2. Base + 1 \in Nat
    BY DEF SyncWith, FramesInFlight
  <2> QED BY <2>1, <2>2
<1>2. PICK n \in Nat :
        /\ n <= left /\ n <= Len(pipe) /\ (n = 0 <=> left = 0)
        /\ LET data == Place(buffer, r.bytes_written, SubSeq(pipe, 1, n)) IN
           /\ pipe' = SubSeq(pipe, n + 1, Len(pipe))
           /\ IF n # r.data_length
              THEN /\ r' = OffsetPacket(r, n) /\ buffer' = data
                   /\ UNCHANGED <<reading, held, out, free, inflight, delivered>>
              ELSE /\ reading' = "header"
                   /\ IF IsFinished(r) THEN r' = ResetHeader(Counted(r)) /\ PassOn(data)
                      ELSE /\ r' = Counted(r) /\ buffer' = data
                           /\ UNCHANGED <<held, out, free, inflight, delivered>>
  <2>1. \A n \in Taken(left, Len(pipe)) : n \in Nat /\ n <= left /\ n <= Len(pipe) /\ (n = 0 <=> left = 0)
    BY DEF Taken
  <2> QED BY <1>1, <2>1 DEF ReadBody
<1> DEFINE a == ReaderPlace(size)
           data == Place(buffer, at, SubSeq(pipe, 1, n))
<1>3. reading = "body" /\ pipe \in Seq(Byte) /\ HeaderSize \in Nat
  BY SizesAssumption DEF ReadBody, TypeOK
<1>4. /\ f <= frames /\ r.total_bytes = size[f]
      /\ at + left <= size[f] /\ (left = 0 => at = size[f])
  <2>1. Base < frames /\ Base \in Nat /\ frames \in Nat
    BY <1>3 DEF SyncWith, BodyInStep, FramesInFlight, TypeOK
  <2>2. f <= frames
    BY <1>1, <2>1
  <2> QED BY <1>1, <1>3, <2>2 DEF SyncWith, BodyInStep
<1>5. a = Body(size, f, at, left) /\ Linked(size, a, pipe, WriterPlace(size), frames)
  BY <1>1, <1>3 DEF ReaderPlace, SyncWith
<1>6. /\ n \in Nat /\ n <= Len(pipe)
      /\ SubSeq(pipe, 1, n) \in Seq(Byte) /\ Len(SubSeq(pipe, 1, n)) = n
      /\ pipe' = SubSeq(pipe, n + 1, Len(pipe))
  <2>1. n \in Nat /\ n <= Len(pipe)
    BY <1>2
  <2> QED BY <1>2, <1>3, <2>1, PipeSplit, SMTT(30)
<1> HIDE DEF a
<1>7. /\ Linked(size, Body(size, f, at + n, left - n), pipe', WriterPlace(size), frames)
      /\ \A i \in 1 .. n : SubSeq(pipe, 1, n)[i] = BodyByte(f, at + i)
  <2>1. CASE left = 0
    <3>1. n = 0
      BY <1>2, <2>1
    <3>2. at + n = at
      BY <3>1
    <3>3. left - n = left
      BY <2>1, <3>1
    <3>4. pipe' = pipe
      <4>1. pipe' = SubSeq(pipe, 1, Len(pipe))
        BY <1>6, <3>1
      <4> QED BY <1>3, <4>1, SubSeqFull
    <3> QED BY <1>5, <3>1, <3>2, <3>3, <3>4
  <2>2. CASE left # 0
    <3>1. left > 0
      BY <2>2
    <3>2. a = InBody(f, at, left)
      BY <1>5, <3>1 DEF Body
    <3>3. a \in Cursor /\ a.frame = f /\ a.header = HeaderSize /\ a.at = at /\ a.left = left
      BY <1>3, <3>2 DEF InBody, Cursor
    <3>4. ~(a.header < HeaderSize)
      BY <1>3, <3>3
    <3>5. Placed(size, a) /\ RunLength(a) = left
      BY <3>1, <3>3, <3>4 DEF Placed, RunLength
    <3>6. n <= RunLength(a)
      BY <1>2, <3>5
    <3>7. /\ SubSeq(pipe, 1, n) = Run(size, a, n)
          /\ Linked(size, Further(size, a, n), SubSeq(pipe, n + 1, Len(pipe)), WriterPlace(size), frames)
      BY <1>3, <1>5, <1>6, <3>5, <3>6, LinkedFrom, ZenonT(40)
    <3>8. Further(size, a, n) = Body(size, f, at + n, left - n)
      BY <3>3, <3>4 DEF Further
    <3>9. \A i \in 1 .. n : Run(size, a, n)[i] = BodyByte(f, at + i)
      BY <3>3, <3>4 DEF Run
    <3> QED BY <1>6, <3>7, <3>8, <3>9
  <2> QED BY <2>1, <2>2
<1>8. Begun(f, data, at + n)
  <2>1. Begun(f, buffer, at)
    BY <1>1 DEF Begun, TypeOK, SyncWith, BufferInStep
  <2>2. Added(f, at, SubSeq(pipe, 1, n), n)
    BY <1>6, <1>7 DEF Added
  <2> QED BY <2>1, <2>2, PlaceContents
<1>9. n <= left /\ (n = 0 <=> left = 0)
  BY <1>2
<1>10. IF n # left
       THEN /\ r' = OffsetPacket(r, n) /\ buffer' = data
            /\ UNCHANGED <<reading, held, out, free, inflight, delivered>>
       ELSE /\ reading' = "header"
            /\ IF IsFinished(r) THEN r' = ResetHeader(Counted(r)) /\ PassOn(data)
               ELSE /\ r' = Counted(r) /\ buffer' = data
                    /\ UNCHANGED <<held, out, free, inflight, delivered>>
  BY <1>1, <1>2
<1> HIDE DEF data
<1>11. ReceivedBody(size, f, at, left, n, data)
  BY <1>1, <1>3, <1>4, <1>7, <1>8, <1>9, <1>10 DEF ReceivedBody
<1> QED BY <1>11

\* On with the rest of a packet.
LEMMA PacketGoesOn ==
  ASSUME TypeOK, NEW size \in [Nat -> Nat], SyncWith(size), ReadBody,
         NEW f \in Nat, NEW at \in Nat, NEW left \in Nat, NEW n \in Nat, NEW data,
         ReceivedBody(size, f, at, left, n, data), n # left
  PROVE  SyncWith(size)' /\ UNCHANGED <<inflight, delivered>>
<1> USE DEF ReceivedBody
<1>1. /\ UNCHANGED <<w, writing, header_sent, frames, inflight, delivered, reading, held, header_got>>
      /\ reading = "body" /\ Base' = Base /\ f = Base + 1 /\ buffer' = data
  BY DEF ReadBody, writer, Base
<1>2. /\ r'.bytes_written = at + n /\ r'.data_length = left - n /\ r'.total_bytes = size[f]
  BY DEF OffsetPacket, TypeOK
<1>3. WriterInStep(size)' /\ WriterPlace(size)' = WriterPlace(size) /\ FramesInFlight(size)'
  BY <1>1, WriterSync DEF SyncWith, FramesInFlight
<1>4. ReaderPlace(size)' = Body(size, f, at + n, left - n)
  BY <1>1, <1>2 DEF ReaderPlace
<1>5. (at + n) + (left - n) = at + left /\ left - n # 0
  OBVIOUS
<1>6. HeaderInStep(size)' /\ BodyInStep(size)'
  BY <1>1, <1>2, <1>5 DEF SyncWith, HeaderInStep, BodyInStep
<1>7. BufferInStep'
  BY <1>1, <1>2 DEF BufferInStep, Begun
<1>8. Linked(size, ReaderPlace(size), pipe, WriterPlace(size), frames)'
  BY <1>1, <1>3, <1>4
<1> QED BY <1>1, <1>3, <1>6, <1>7, <1>8 DEF SyncWith

\* On with the next packet of the frame.
LEMMA FrameGoesOn ==
  ASSUME TypeOK, NEW size \in [Nat -> Nat], SyncWith(size), ReadBody,
         NEW f \in Nat, NEW at \in Nat, NEW left \in Nat, NEW n \in Nat, NEW data,
         ReceivedBody(size, f, at, left, n, data), n = left, ~IsFinished(r)
  PROVE  SyncWith(size)' /\ UNCHANGED <<inflight, delivered>>
<1> USE DEF ReceivedBody
<1>1. /\ UNCHANGED <<w, writing, header_sent, frames, inflight, delivered, held, header_got>>
      /\ reading = "body" /\ reading' = "header" /\ Base' = Base /\ f = Base + 1 /\ buffer' = data
  BY DEF ReadBody, writer, Base
<1>2. r' = Counted(r) /\ r'.bytes_written = at + left /\ r.total_bytes = size[f] /\ size[f] \in Nat
  BY DEF Counted, TypeOK
<1>3. WriterInStep(size)' /\ WriterPlace(size)' = WriterPlace(size) /\ FramesInFlight(size)'
  BY <1>1, WriterSync DEF SyncWith, FramesInFlight
<1>4. at + left < size[f]
  <2>1. Counted(r).bytes_written = at + left /\ Counted(r).data_length = left
    BY <1>2 DEF Counted, TypeOK
  <2>2. ~(at + left >= size[f])
    <3>1. IsFinished(r) <=> at + left >= r.total_bytes
      BY <2>1 DEF IsFinished
    <3> QED BY <3>1
  <2> QED BY <1>2, <2>2
<1>5. at + left > 0 /\ Base < frames
  <2>1. left # 0
    <3>1. left = 0 => at + left = at
      OBVIOUS
    <3> QED BY <1>2, <1>4, <3>1
  <2>2. Base < frames
    BY <1>1 DEF SyncWith, BodyInStep
  <2> QED BY <2>1, <2>2
<1>6. Len(header_got) = 0 /\ held # "none"
  BY <1>1, EmptySeq DEF SyncWith, BodyInStep
<1>7. HeaderInStep(size)' /\ BodyInStep(size)'
  BY <1>1, <1>2, <1>4, <1>5, <1>6, SizesAssumption DEF HeaderInStep, BodyInStep
<1>8. BufferInStep'
  BY <1>1, <1>2 DEF BufferInStep, Begun
<1>9. ReaderPlace(size)' = InHeader(f, 0, at + left)
  BY <1>1, <1>2, <1>6 DEF ReaderPlace
<1>10. Body(size, f, at + n, left - n) = InHeader(f, 0, at + left)
  <2>1. at + n = at + left /\ ~(left - n > 0)
    OBVIOUS
  <2> QED BY <1>4, <2>1 DEF Body, Ended
<1>11. Linked(size, ReaderPlace(size), pipe, WriterPlace(size), frames)'
  BY <1>1, <1>3, <1>9, <1>10
<1> QED BY <1>1, <1>3, <1>7, <1>8, <1>11 DEF SyncWith

FrameComplete(n, left) == n = left /\ IsFinished(r)

\* The frame is complete, and it is the first in flight.
LEMMA FrameEnds ==
  ASSUME TypeOK, NEW size \in [Nat -> Nat], SyncWith(size), ReadBody,
         NEW f \in Nat, NEW at \in Nat, NEW left \in Nat, NEW n \in Nat, NEW data,
         ReceivedBody(size, f, at, left, n, data), FrameComplete(n, left)
  PROVE  SyncWith(size)' /\ PassOn(Head(inflight))
<1> USE DEF ReceivedBody, FrameComplete
<1>1. /\ UNCHANGED <<w, writing, header_sent, frames, header_got>>
      /\ reading = "body" /\ reading' = "header" /\ f = Base + 1
      /\ PassOn(data) /\ r' = ResetHeader(Counted(r))
  BY DEF ReadBody, writer
<1>2. /\ held' = "none" /\ buffer' = <<>> /\ inflight' = Tail(inflight)
  BY <1>1 DEF PassOn
<1>3. r'.bytes_written = 0 /\ r.total_bytes = size[f] /\ size[f] \in Nat
  BY <1>1 DEF Counted, ResetHeader, TypeOK
<1>4. at + left = size[f]
  <2>1. Counted(r).bytes_written = at + left
    BY DEF Counted, TypeOK
  <2>2. at + left >= size[f]
    BY <2>1 DEF IsFinished
  <2> QED BY <1>3, <2>2
<1>5. /\ Len(inflight) \in Nat /\ Base \in Nat /\ frames \in Nat /\ Base < frames
      /\ Base = frames - Len(inflight) /\ inflight \in Seq(Seq(Byte))
  BY <1>1, LenProperties DEF SyncWith, FramesInFlight, BodyInStep, TypeOK, Base
<1>6. Len(inflight) > 0 /\ inflight # <<>>
  <2>1. Len(inflight) > 0
    BY <1>5
  <2> QED BY <2>1, EmptySeq
<1>7. /\ Len(inflight') = Len(inflight) - 1 /\ \A i \in 1 .. Len(inflight) - 1 : inflight'[i] = inflight[i + 1]
      /\ Head(inflight) = inflight[1]
  <2>1. /\ Len(Tail(inflight)) = Len(inflight) - 1
        /\ \A i \in 1 .. Len(Tail(inflight)) : Tail(inflight)[i] = inflight[i + 1]
    BY <1>5, <1>6, HeadTailProperties
  <2>2. Head(inflight) = inflight[1]
    BY <1>5, <1>6
  <2> QED BY <1>2, <2>1, <2>2
<1>8. Base' = f
  BY <1>1, <1>5, <1>7 DEF Base
<1>9. data = Head(inflight)
  <2>1. inflight[1] = Contents(f, size[f])
    <3>1. 1 \in 1 .. Len(inflight)
      BY <1>5, <1>6
    <3> QED BY <1>1, <3>1 DEF SyncWith, FramesInFlight
  <2>2. f \in 0 .. MaxFrames
    <3>1. f \in Nat /\ f <= frames /\ frames \in 0 .. MaxFrames
      BY DEF TypeOK
    <3> QED BY <3>1, BoundsAssumption
  <2>3. /\ Contents(f, size[f]) \in Seq(Byte) /\ Len(Contents(f, size[f])) = size[f]
        /\ \A i \in 1 .. size[f] : Contents(f, size[f])[i] = BodyByte(f, i)
    BY <1>3, <2>2, ContentsType DEF Contents
  <2>4. /\ data \in Seq(Byte) /\ Len(data) = size[f]
        /\ \A i \in 1 .. size[f] : data[i] = BodyByte(f, i)
    BY <1>4 DEF Begun
  <2>5. data = Contents(f, size[f])
    <3> DEFINE whole == Contents(f, size[f])
    <3>1. /\ whole \in Seq(Byte) /\ data \in Seq(Byte) /\ Len(data) = Len(whole)
          /\ \A i \in 1 .. Len(data) : data[i] = whole[i]
      BY <2>3, <2>4
    <3> HIDE DEF whole
    <3>2. data = whole
      BY <3>1, SeqEqual
    <3> QED BY <3>2 DEF whole
  <2> QED BY <1>7, <2>1, <2>5
<1>10. WriterInStep(size)' /\ WriterPlace(size)' = WriterPlace(size)
  BY <1>1, WriterSync
<1>11. FramesInFlight(size)'
  <2>1. ASSUME NEW i \in 1 .. Len(inflight) - 1 PROVE inflight'[i] = Contents(f + i, size[f + i])
    <3>1. i + 1 \in 1 .. Len(inflight) /\ Base + (i + 1) = f + i
      BY <1>1, <1>5
    <3>2. inflight[i + 1] = Contents(Base + (i + 1), size[Base + (i + 1)])
      BY <3>1 DEF SyncWith, FramesInFlight
    <3> QED BY <1>7, <3>1, <3>2
  <2> QED BY <1>7, <1>8, <2>1 DEF FramesInFlight
<1>12. Len(header_got) = 0 /\ Len(<<>>) = 0
  BY <1>1, EmptySeq DEF SyncWith, BodyInStep
<1>13. HeaderInStep(size)' /\ BodyInStep(size)' /\ BufferInStep'
  BY <1>1, <1>2, <1>3, <1>12, SizesAssumption DEF HeaderInStep, BodyInStep, BufferInStep
<1>14. ReaderPlace(size)' = InHeader(f + 1, 0, 0)
  BY <1>1, <1>3, <1>8, <1>12 DEF ReaderPlace
<1>15. Body(size, f, at + n, left - n) = InHeader(f + 1, 0, 0)
  <2>1. at + n = size[f] /\ ~(left - n > 0)
    BY <1>4
  <2>2. ~(size[f] < size[f])
    BY <1>3
  <2> QED BY <2>1, <2>2 DEF Body, Ended
<1>16. Linked(size, ReaderPlace(size), pipe, WriterPlace(size), frames)'
  BY <1>1, <1>10, <1>14, <1>15
<1>17. SyncWith(size)'
  BY <1>10, <1>11, <1>13, <1>16 DEF SyncWith
<1>18. PassOn(Head(inflight))
  BY <1>1, <1>9
<1> QED BY <1>17, <1>18

LEMMA ReadBodySync ==
  ASSUME TypeOK, Sync, ReadBody
  PROVE  /\ Sync' /\ inflight # <<>>
         /\ UNCHANGED <<inflight, delivered>> \/ PassOn(Head(inflight))
<1> PICK size \in [Nat -> Nat] : SyncWith(size)
  BY DEF Sync
<1>1. PICK f \in Nat, at \in Nat, left \in Nat, n \in Nat :
        \E data : ReceivedBody(size, f, at, left, n, data)
  BY BodyReceived
<1>2. PICK data : ReceivedBody(size, f, at, left, n, data)
  BY <1>1
<1>3. misread' = misread
  BY DEF ReadBody
<1>4. inflight # <<>>
  <2>1. reading = "body"
    BY DEF ReadBody
  <2>2. Base < frames /\ frames \in Nat
    BY <2>1 DEF SyncWith, BodyInStep, TypeOK
  <2>3. Len(inflight) # 0
    BY <2>2 DEF Base
  <2> QED BY <2>3, EmptySeq
<1>5. CASE n # left
  BY <1>2, <1>3, <1>4, <1>5, PacketGoesOn DEF Sync
<1>6. CASE n = left /\ ~IsFinished(r)
  BY <1>2, <1>3, <1>4, <1>6, FrameGoesOn DEF Sync
<1>7. CASE FrameComplete(n, left)
  <2>1. SyncWith(size)' /\ PassOn(Head(inflight))
    BY <1>2, <1>7, FrameEnds
  <2> QED BY <1>3, <1>4, <2>1 DEF Sync
<1> QED BY <1>5, <1>6, <1>7 DEF FrameComplete

\* The invariant: of itself TypeOK is not inductive, as a frame is taken from
\* inflight when the counters of the reader say that one is complete.
Inv == TypeOK /\ WriterInv /\ PoolInv /\ Sync

LEMMA InitInv == Init => Inv
  BY InitType, InitWriter, InitPool, InitSync DEF Inv

LEMMA NextInv == Inv /\ [Next]_vars => Inv'
<1> SUFFICES ASSUME Inv, [Next]_vars PROVE Inv'
  OBVIOUS
<1>1. TypeOK /\ WriterInv /\ PoolInv /\ Sync
  BY DEF Inv
<1>2. ReadBody => inflight # <<>>
  BY <1>1, ReadBodySync
<1>3. TypeOK' /\ WriterInv' /\ PoolInv'
  BY <1>1, <1>2, NextType, NextWriter, NextPool
<1>4. ASSUME NEW bytes \in Sizes, Begin(bytes) PROVE Sync'
  BY <1>1, <1>4, BeginSync
<1>5. ASSUME WriteHeader PROVE Sync'
  BY <1>1, <1>5, WriteHeaderSync
<1>6. ASSUME WriteBody PROVE Sync'
  BY <1>1, <1>6, WriteBodySync
<1>12. ASSUME ReadHeader PROVE Sync'
  BY <1>1, <1>12, ReadHeaderSync
<1>13. ASSUME ReadBody PROVE Sync'
  BY <1>1, <1>13, ReadBodySync
<1>7. ASSUME UNCHANGED <<pipe, writer, reader, frames, inflight, misread>> PROVE Sync'
  <2> PICK size \in [Nat -> Nat] : SyncWith(size)
    BY <1>1 DEF Sync
  <2>1. UNCHANGED <<w, writing, header_sent, r, reading, header_got, buffer, held>>
    BY <1>7 DEF writer, reader
  <2>2. /\ WriterInStep(size)' /\ WriterPlace(size)' = WriterPlace(size)
        /\ HeaderInStep(size)' /\ BodyInStep(size)' /\ BufferInStep' /\ FramesInFlight(size)'
        /\ ReaderPlace(size)' = ReaderPlace(size)
    BY <1>7, <2>1, ReaderSync, WriterSync
  <2>3. Linked(size, ReaderPlace(size), pipe, WriterPlace(size), frames)'
    BY <1>7, <2>2 DEF SyncWith
  <2> QED BY <1>1, <1>7, <2>2, <2>3 DEF Sync, SyncWith
<1>8. ASSUME Release PROVE Sync'
  <2>1. UNCHANGED <<pipe, writer, reader, frames, inflight, misread>>
    BY <1>8 DEF Release
  <2> QED BY <1>7, <2>1
<1>9. ASSUME Reconnect PROVE Sync'
  <2>1. Lost /\ r' = ResetHeader(r)
    BY <1>9 DEF Reconnect
  <2>2. r'.bytes_written = 0
    BY <1>1, <2>1 DEF ResetHeader, TypeOK
  <2> QED BY <1>1, <2>1, <2>2, LostSync
<1>10. ASSUME NewSession PROVE Sync'
  <2>1. Lost /\ r'.bytes_written = 0
    BY <1>10 DEF NewSession
  <2> QED BY <1>1, <2>1, LostSync
<1>11. ASSUME UNCHANGED vars PROVE Sync'
  <2>1. UNCHANGED <<pipe, writer, reader, frames, inflight, misread>>
    BY <1>11 DEF vars
  <2> QED BY <1>7, <2>1
<1> QED BY <1>3, <1>4, <1>5, <1>6, <1>8, <1>9, <1>10, <1>11, <1>12, <1>13
  DEF Next, Write, Read, Inv

\* What the reader is asked to receive is within the frame.
LEMMA InvInStep == Inv => InStep
<1> SUFFICES ASSUME Inv PROVE InStep
  OBVIOUS
<1> PICK size \in [Nat -> Nat] : SyncWith(size)
  BY DEF Inv, Sync
<1>1. ReaderWithinFrame
  BY DEF ReaderWithinFrame, SyncWith, BodyInStep
<1> QED BY <1>1 DEF Inv, WriterInv, Sync, InStep

\* Whatever the sizes of header, packets and frames, and however sends and receives
\* are cut short, the reader takes no byte of a frame for one of a header: nothing
\* but the counters of its _header tells it which is which.
THEOREM ReaderInStep == Spec => []InStep
<1> QED BY InitInv, NextInv, InvInStep, PTL DEF Spec

-----------------------------------------------------------------------------
(* Whole frames *)

LEMMA InitChannel == Init => Channel!Init
  BY DEF Init, Channel!Init

LEMMA NextChannel == Inv /\ [Next]_vars => [Channel!Next]_(Channel!vars)
<1> SUFFICES ASSUME Inv, [Next]_vars PROVE [Channel!Next]_(Channel!vars)
  OBVIOUS
<1> USE DEF Channel!Next, Channel!vars
<1>1. ASSUME NEW bytes \in Sizes, Begin(bytes) PROVE \E f \in Frame : Channel!Send(f)
  <2>1. frames + 1 \in 1 .. MaxFrames
    <3>1. frames \in 0 .. MaxFrames /\ frames < MaxFrames
      BY <1>1 DEF Begin, Inv, TypeOK
    <3> QED BY <3>1, BoundsAssumption
  <2>2. Contents(frames + 1, bytes) \in Frame
    BY <2>1 DEF Frame
  <2> QED BY <1>1, <2>2 DEF Begin, Channel!Send
<1>2. ASSUME UNCHANGED <<inflight, delivered>> PROVE UNCHANGED Channel!vars
  BY <1>2
<1>3. CASE ReadBody
  <2>1. inflight # <<>> /\ (UNCHANGED <<inflight, delivered>> \/ PassOn(Head(inflight)))
    BY <1>3, ReadBodySync DEF Inv
  <2>2. PassOn(Head(inflight)) => Channel!Deliver \/ Channel!Drop
    BY <2>1 DEF PassOn, Channel!Deliver, Channel!Drop
  <2> QED BY <1>2, <2>1, <2>2
<1>4. CASE Reconnect \/ NewSession
  BY <1>4 DEF Reconnect, NewSession, Lost, Channel!Break
<1>5. CASE Write \/ ReadHeader \/ Release \/ UNCHANGED vars
  <2>1. UNCHANGED <<inflight, delivered>>
    BY <1>5 DEF Write, WriteHeader, WriteBody, ReadHeader, Release, vars
  <2> QED BY <1>2, <2>1
<1> QED BY <1>1, <1>3, <1>4, <1>5 DEF Next, Read

\* The connection is a channel of whole frames: each is put in when it is begun, and
\* comes out unaltered and in order or not at all, at every size of packets.
THEOREM FramesAreWhole == Spec => Implements
<1> QED BY InitInv, NextInv, InitChannel, NextChannel, PTL
    DEF Spec, Implements, Channel!Spec
=============================================================================
