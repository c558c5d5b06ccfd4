-------------------------- MODULE TcpClientProofs --------------------------
(***************************************************************************)
(* Proofs about TcpClient: a client that was started gives up only when an *)
(* exception left its attempt, has one connection at a time, and one       *)
(* buffer under way; for any bounds.                                       *)
(***************************************************************************)
EXTENDS TcpClient, FiniteSetTheorems, SequenceTheorems, TLAPS

-----------------------------------------------------------------------------
(* Counting the elements of a sequence *)

Places(s, hs) == {i \in DOMAIN s : s[i] \in hs}
Occurs(s, hs) == Cardinality(Places(s, hs))

\* The places are finitely many.
LEMMA PlacesFinite ==
  ASSUME NEW S, NEW s \in Seq(S), NEW hs
  PROVE IsFiniteSet(Places(s, hs)) /\ Occurs(s, hs) \in Nat
<1>1. DOMAIN s = 1 .. Len(s) /\ 1 \in Int /\ Len(s) \in Int
  OBVIOUS
<1>2. IsFiniteSet(1 .. Len(s))
  BY <1>1, FS_Interval
<1>3. Places(s, hs) \in SUBSET (1 .. Len(s))
  BY <1>1 DEF Places
<1>4. IsFiniteSet(Places(s, hs))
  BY <1>2, <1>3, FS_Subset
<1> QED BY <1>4, FS_CardinalityType DEF Occurs

\* There are none exactly when the count is zero.
LEMMA OccursNone ==
  ASSUME NEW S, NEW s \in Seq(S), NEW hs
  PROVE Occurs(s, hs) = 0 <=> \A i \in 1 .. Len(s) : s[i] \notin hs
<1>1. DOMAIN s = 1 .. Len(s)
  OBVIOUS
<1>2. Cardinality(Places(s, hs)) = 0 <=> Places(s, hs) = {}
  BY PlacesFinite, FS_EmptySet
<1> QED BY <1>1, <1>2 DEF Occurs, Places

\* An element more at the end.
LEMMA OccursAppend ==
  ASSUME NEW S, NEW s \in Seq(S), NEW e \in S, NEW hs
  PROVE Occurs(Append(s, e), hs) = Occurs(s, hs) + IF e \in hs THEN 1 ELSE 0
<1> DEFINE n == Len(s) + 1
<1>1. DOMAIN s = 1 .. Len(s) /\ Len(s) \in Nat /\ DOMAIN Append(s, e) = 1 .. n
  OBVIOUS
<1>2. Append(s, e)[n] = e /\ \A i \in 1 .. Len(s) : Append(s, e)[i] = s[i]
  OBVIOUS
<1>3. n \notin Places(s, hs)
  BY <1>1 DEF Places
<1>4. IsFiniteSet(Places(s, hs)) /\ Occurs(s, hs) \in Nat
  BY PlacesFinite
<1>5. CASE e \in hs
  <2>1. Places(Append(s, e), hs) = Places(s, hs) \union {n}
    BY <1>1, <1>2, <1>5 DEF Places
  <2> QED BY <1>3, <1>4, <1>5, <2>1, FS_AddElement DEF Occurs
<1>6. CASE e \notin hs
  <2>1. Places(Append(s, e), hs) = Places(s, hs)
    BY <1>1, <1>2, <1>6 DEF Places
  <2> QED BY <1>4, <1>6, <2>1 DEF Occurs
<1> QED BY <1>5, <1>6

\* One sequence after another.
LEMMA OccursConcat ==
  ASSUME NEW S, NEW s \in Seq(S), NEW t \in Seq(S), NEW hs
  PROVE Occurs(s \o t, hs) = Occurs(s, hs) + Occurs(t, hs)
<1> DEFINE m == Len(s)
           A == Places(s, hs)
           B == Places(t, hs)
           C == {i \in (m + 1) .. (m + Len(t)) : t[i - m] \in hs}
<1>1. /\ DOMAIN s = 1 .. m /\ m \in Nat /\ DOMAIN t = 1 .. Len(t) /\ Len(t) \in Nat
      /\ DOMAIN (s \o t) = 1 .. (m + Len(t))
  OBVIOUS
<1>2. \A i \in 1 .. (m + Len(t)) : (s \o t)[i] = IF i <= m THEN s[i] ELSE t[i - m]
  OBVIOUS
<1>3. Places(s \o t, hs) = A \union C
  <2>1. ASSUME NEW i \in Places(s \o t, hs) PROVE i \in A \union C
    <3>1. i \in 1 .. (m + Len(t)) /\ (s \o t)[i] \in hs
      BY <1>1 DEF Places
    <3>2. CASE i <= m
      BY <1>1, <1>2, <3>1, <3>2 DEF Places
    <3>3. CASE ~(i <= m)
      BY <1>1, <1>2, <3>1, <3>3
    <3> QED BY <3>2, <3>3
  <2>2. ASSUME NEW i \in A PROVE i \in Places(s \o t, hs)
    <3>1. i \in 1 .. m /\ s[i] \in hs /\ i \in 1 .. (m + Len(t)) /\ i <= m
      BY <1>1 DEF Places
    <3> QED BY <1>1, <1>2, <3>1 DEF Places
  <2>3. ASSUME NEW i \in C PROVE i \in Places(s \o t, hs)
    <3>1. i \in 1 .. (m + Len(t)) /\ ~(i <= m) /\ t[i - m] \in hs
      BY <1>1
    <3> QED BY <1>1, <1>2, <3>1 DEF Places
  <2> QED BY <2>1, <2>2, <2>3
<1>4. A \cap C = {}
  BY <1>1 DEF Places
<1>5. IsFiniteSet(A) /\ IsFiniteSet(B)
  BY PlacesFinite
<1>6. IsFiniteSet(C) /\ Cardinality(C) = Cardinality(B)
  <2> DEFINE f == [i \in B |-> i + m]
  <2>1. \A i \in B : i \in 1 .. Len(t) /\ t[i] \in hs
    BY <1>1 DEF Places
  <2>2. \A i \in B : f[i] \in C
    <3> TAKE i \in B
    <3>1. i + m \in (m + 1) .. (m + Len(t)) /\ (i + m) - m = i
      BY <1>1, <2>1
    <3> QED BY <2>1, <3>1
  <2>3. \A i, j \in B : f[i] = f[j] => i = j
    BY <1>1, <2>1
  <2>4. \A i \in C : \E j \in B : f[j] = i
    <3> TAKE i \in C
    <3>1. i - m \in 1 .. Len(t) /\ (i - m) + m = i
      BY <1>1
    <3>2. i - m \in B
      BY <1>1, <3>1 DEF Places
    <3> QED BY <3>1, <3>2
  <2>5. f \in [B -> C]
    BY <2>2
  <2>6. f \in Bijection(B, C)
    BY <2>3, <2>4, <2>5, Zenon DEF Bijection, Injection, Surjection, IsInjective
  <2>7. ExistsBijection(B, C)
    BY <2>6, Zenon DEF ExistsBijection
  <2> HIDE DEF C, B, f
  <2> QED BY <1>5, <2>7, FS_Bijection
<1>7. Cardinality(A \union C) = Cardinality(A) + Cardinality(C) - Cardinality(A \cap C)
  <2> HIDE DEF C, A
  <2> QED BY <1>5, <1>6, FS_Union
<1>8. Cardinality(A \cap C) = 0
  BY <1>4, FS_EmptySet
<1>9. Cardinality(A) \in Nat /\ Cardinality(C) \in Nat
  BY <1>5, <1>6, FS_CardinalityType
<1> HIDE DEF A, B, C
<1>10. Occurs(s, hs) = Cardinality(A) /\ Occurs(t, hs) = Cardinality(B)
  BY DEF Occurs, A, B
<1> QED BY <1>3, <1>6, <1>7, <1>8, <1>9, <1>10 DEF Occurs

\* The first element, and the others.
LEMMA OccursHead ==
  ASSUME NEW S, NEW s \in Seq(S), s # <<>>, NEW hs
  PROVE Occurs(s, hs) = Occurs(Tail(s), hs) + IF Head(s) \in hs THEN 1 ELSE 0
<1>1. s = <<Head(s)>> \o Tail(s) /\ Head(s) \in S /\ Tail(s) \in Seq(S)
  BY HeadTailProperties
<1>2. PICK none \in Seq(S) : none = <<>> /\ Len(none) = 0
  BY EmptySeq, Zenon
<1>3. Occurs(none, hs) = 0
  <2>1. \A i \in 1 .. Len(none) : none[i] \notin hs
    BY <1>2
  <2> QED BY <2>1, OccursNone
<1>4. PICK one \in Seq(S) : one = <<Head(s)>> /\ one = Append(none, Head(s))
  <2>1. Append(none, Head(s)) \in Seq(S)
    BY <1>1, <1>2, AppendProperties
  <2>2. Append(none, Head(s)) = <<Head(s)>>
    BY <1>2
  <2> QED BY <2>1, <2>2, Zenon
<1>5. Occurs(one, hs) = 0 + IF Head(s) \in hs THEN 1 ELSE 0
  <2>1. Occurs(Append(none, Head(s)), hs) = Occurs(none, hs) + IF Head(s) \in hs THEN 1 ELSE 0
    BY <1>1, OccursAppend
  <2> QED BY <1>3, <1>4, <2>1
<1>6. Occurs(s, hs) = Occurs(one, hs) + Occurs(Tail(s), hs)
  <2>1. Occurs(one \o Tail(s), hs) = Occurs(one, hs) + Occurs(Tail(s), hs)
    BY <1>1, OccursConcat
  <2> QED BY <1>1, <1>4, <2>1
<1>7. Occurs(Tail(s), hs) \in Nat
  BY <1>1, PlacesFinite
<1> QED BY <1>5, <1>6, <1>7

-----------------------------------------------------------------------------
(* The handlers of each kind that are posted *)

ConnectHandlers == {"connect_ok", "connect_error"}

Attempts == Waiting(ConnectHandlers)
Oks == Waiting({"connect_ok"})
Readers == Waiting(ReadHandlers)
Senders == Waiting(SendHandlers)
Timers == Waiting({"timer"})
Stops == Waiting({"stop"})

\* No handler of hs is posted behind a connection's.
After(hs) ==
  \A i, j \in 1 .. Len(strand) : i < j /\ strand[i] = "connect_ok" => strand[j] \notin hs

LEMMA WaitingOccurs ==
  ASSUME NEW hs
  PROVE Waiting(hs) = Occurs(strand, hs) /\ Waiting(hs)' = Occurs(strand', hs)
BY DEF Waiting, Occurs, Places

LEMMA CountsType ==
  ASSUME strand \in Seq(Handlers)
  PROVE /\ Attempts \in Nat /\ Oks \in Nat /\ Readers \in Nat /\ Senders \in Nat
        /\ Timers \in Nat /\ Stops \in Nat
<1>1. \A hs : Waiting(hs) \in Nat
  BY PlacesFinite, WaitingOccurs
<1> QED BY <1>1 DEF Attempts, Oks, Readers, Senders, Timers, Stops

LEMMA CountsTypePrimed ==
  ASSUME strand' \in Seq(Handlers)
  PROVE /\ Attempts' \in Nat /\ Oks' \in Nat /\ Readers' \in Nat /\ Senders' \in Nat
        /\ Timers' \in Nat /\ Stops' \in Nat
<1>1. \A hs : Waiting(hs)' \in Nat
  BY PlacesFinite, WaitingOccurs
<1> QED BY <1>1 DEF Attempts, Oks, Readers, Senders, Timers, Stops

\* A handler is posted.
LEMMA Posted ==
  ASSUME strand \in Seq(Handlers), NEW h \in Handlers, strand' = Append(strand, h)
  PROVE /\ strand' \in Seq(Handlers)
        /\ Attempts' = Attempts + IF h \in ConnectHandlers THEN 1 ELSE 0
        /\ Oks' = Oks + IF h = "connect_ok" THEN 1 ELSE 0
        /\ Readers' = Readers + IF h \in ReadHandlers THEN 1 ELSE 0
        /\ Senders' = Senders + IF h \in SendHandlers THEN 1 ELSE 0
        /\ Timers' = Timers + IF h = "timer" THEN 1 ELSE 0
        /\ Stops' = Stops + IF h = "stop" THEN 1 ELSE 0
<1>1. strand' \in Seq(Handlers)
  BY AppendProperties
<1>2. \A hs : Waiting(hs)' = Waiting(hs) + IF h \in hs THEN 1 ELSE 0
  BY OccursAppend, WaitingOccurs
<1> QED BY <1>1, <1>2 DEF Attempts, Oks, Readers, Senders, Timers, Stops

\* A handler runs.
LEMMA Taken ==
  ASSUME strand \in Seq(Handlers), NEW h \in Handlers, Runs(h), strand' = Rest
  PROVE /\ strand' \in Seq(Handlers)
        /\ Attempts = Attempts' + IF h \in ConnectHandlers THEN 1 ELSE 0
        /\ Oks = Oks' + IF h = "connect_ok" THEN 1 ELSE 0
        /\ Readers = Readers' + IF h \in ReadHandlers THEN 1 ELSE 0
        /\ Senders = Senders' + IF h \in SendHandlers THEN 1 ELSE 0
        /\ Timers = Timers' + IF h = "timer" THEN 1 ELSE 0
        /\ Stops = Stops' + IF h = "stop" THEN 1 ELSE 0
<1>1. strand # <<>> /\ Head(strand) = h /\ strand' = Tail(strand)
  BY DEF Runs, Rest
<1>2. strand' \in Seq(Handlers)
  BY <1>1, HeadTailProperties
<1>3. \A hs : Waiting(hs) = Waiting(hs)' + IF h \in hs THEN 1 ELSE 0
  BY <1>1, OccursHead, WaitingOccurs
<1> QED BY <1>2, <1>3 DEF Attempts, Oks, Readers, Senders, Timers, Stops

\* What a socket that is destroyed leaves behind: its connection attempt, and no
\* other handlers than of sends.
LEMMA AbortedCounts ==
  ASSUME TypeOK, NEW hs
  PROVE /\ Aborted \in Seq(Handlers)
        /\ "send_error" \notin hs \/ sends = 0 =>
             Occurs(Aborted, hs) = IF socket = "connecting" /\ "connect_error" \in hs THEN 1 ELSE 0
<1>1. PICK none \in Seq(Handlers) : none = <<>> /\ Len(none) = 0
  BY EmptySeq, Zenon
<1>2. Occurs(none, hs) = 0
  <2>1. \A i \in 1 .. Len(none) : none[i] \notin hs
    BY <1>1
  <2> QED BY <2>1, OccursNone
<1>3. PICK one \in Seq(Handlers) : one = <<"connect_error">> /\ one = Append(none, "connect_error")
  <2>1. "connect_error" \in Handlers
    BY DEF Handlers
  <2>2. Append(none, "connect_error") \in Seq(Handlers)
    BY <1>1, <2>1, AppendProperties
  <2>3. Append(none, "connect_error") = <<"connect_error">>
    BY <1>1
  <2> QED BY <2>2, <2>3, Zenon
<1>4. Occurs(one, hs) = 0 + IF "connect_error" \in hs THEN 1 ELSE 0
  <2>1. "connect_error" \in Handlers
    BY DEF Handlers
  <2>2. Occurs(Append(none, "connect_error"), hs)
           = Occurs(none, hs) + IF "connect_error" \in hs THEN 1 ELSE 0
    BY <2>1, OccursAppend
  <2> QED BY <1>2, <1>3, <2>2, Zenon
<1>5. PICK c \in Seq(Handlers) : c = (IF socket = "connecting" THEN <<"connect_error">> ELSE <<>>)
                                /\ c = IF socket = "connecting" THEN one ELSE none
  BY <1>1, <1>3
<1>6. PICK d \in Seq(Handlers) : /\ d = [i \in 1 .. sends |-> "send_error"]
                                /\ Len(d) = sends /\ \A i \in 1 .. Len(d) : d[i] = "send_error"
  <2>1. sends \in Nat /\ "send_error" \in Handlers
    BY DEF TypeOK, Handlers, SendHandlers
  <2> DEFINE d == [i \in 1 .. sends |-> "send_error"]
  <2>2. d \in Seq(Handlers) /\ Len(d) = sends
    BY <2>1
  <2>3. \A i \in 1 .. Len(d) : d[i] = "send_error"
    BY <2>2
  <2> QED BY <2>2, <2>3
<1>7. Aborted = c \o d
  BY <1>5, <1>6 DEF Aborted
<1>8. c \o d \in Seq(Handlers) /\ Occurs(c \o d, hs) = Occurs(c, hs) + Occurs(d, hs)
  BY OccursConcat, ConcatProperties
<1>9. Occurs(c, hs) = IF socket = "connecting" /\ "connect_error" \in hs THEN 1 ELSE 0
  BY <1>2, <1>4, <1>5
<1>10. ASSUME "send_error" \notin hs \/ sends = 0 PROVE Occurs(d, hs) = 0
  <2>1. Len(d) = sends /\ \A i \in 1 .. Len(d) : d[i] = "send_error"
    BY <1>6
  <2>2. sends = 0 => 1 .. Len(d) = {}
    BY <2>1
  <2>3. \A i \in 1 .. Len(d) : d[i] \notin hs
    BY <1>10, <2>1, <2>2, Zenon
  <2> QED BY <2>3, OccursNone
<1> QED BY <1>7, <1>8, <1>9, <1>10

\* A handler runs and destroys the socket.
LEMMA Lost ==
  ASSUME TypeOK, NEW h \in Handlers, Runs(h), Disconnect
  PROVE /\ strand' \in Seq(Handlers)
        /\ Attempts' + (IF h \in ConnectHandlers THEN 1 ELSE 0)
             = Attempts + IF socket = "connecting" THEN 1 ELSE 0
        /\ Oks = Oks' + IF h = "connect_ok" THEN 1 ELSE 0
        /\ Readers = Readers' + IF h \in ReadHandlers THEN 1 ELSE 0
        /\ sends = 0 => Senders = Senders' + IF h \in SendHandlers THEN 1 ELSE 0
        /\ Timers = Timers' + IF h = "timer" THEN 1 ELSE 0
        /\ Stops = Stops' + IF h = "stop" THEN 1 ELSE 0
<1>1. /\ strand \in Seq(Handlers) /\ strand # <<>> /\ Head(strand) = h
      /\ strand' = Tail(strand) \o Aborted
  BY DEF Runs, Rest, Disconnect, TypeOK
<1>2. Tail(strand) \in Seq(Handlers) /\ Aborted \in Seq(Handlers)
  BY <1>1, HeadTailProperties, AbortedCounts
<1>3. strand' \in Seq(Handlers)
  BY <1>1, <1>2, ConcatProperties
<1>4. ASSUME NEW hs, "send_error" \notin hs \/ sends = 0
      PROVE Waiting(hs)' + (IF h \in hs THEN 1 ELSE 0)
              = Waiting(hs) + IF socket = "connecting" /\ "connect_error" \in hs THEN 1 ELSE 0
  <2>1. Occurs(strand, hs) = Occurs(Tail(strand), hs) + IF h \in hs THEN 1 ELSE 0
    BY <1>1, OccursHead
  <2>2. Occurs(Tail(strand) \o Aborted, hs) = Occurs(Tail(strand), hs) + Occurs(Aborted, hs)
    BY <1>2, OccursConcat
  <2>3. Occurs(Aborted, hs) = IF socket = "connecting" /\ "connect_error" \in hs THEN 1 ELSE 0
    BY <1>4, AbortedCounts
  <2>4. Occurs(Tail(strand), hs) \in Nat
    BY <1>2, PlacesFinite
  <2> QED BY <1>1, <2>1, <2>2, <2>3, <2>4, WaitingOccurs
<1>5. /\ Attempts' + (IF h \in ConnectHandlers THEN 1 ELSE 0)
             = Attempts + IF socket = "connecting" THEN 1 ELSE 0
  BY <1>4 DEF Attempts, ConnectHandlers
<1>6. /\ Oks' + (IF h \in {"connect_ok"} THEN 1 ELSE 0) = Oks + 0
      /\ Timers' + (IF h \in {"timer"} THEN 1 ELSE 0) = Timers + 0
      /\ Stops' + (IF h \in {"stop"} THEN 1 ELSE 0) = Stops + 0
  BY <1>4 DEF Oks, Timers, Stops
<1>7. Readers' + (IF h \in ReadHandlers THEN 1 ELSE 0) = Readers + 0
  <2>1. "send_error" \notin ReadHandlers /\ "connect_error" \notin ReadHandlers
    BY DEF ReadHandlers
  <2> QED BY <1>4, <2>1 DEF Readers
<1>8. sends = 0 => Senders' + (IF h \in SendHandlers THEN 1 ELSE 0) = Senders + 0
  <2>1. "connect_error" \notin SendHandlers
    BY DEF SendHandlers
  <2> QED BY <1>4, <2>1 DEF Senders
<1> QED BY <1>1, <1>3, <1>5, <1>6, <1>7, <1>8, CountsType, CountsTypePrimed, SMTT(30)

\* No attempt that ended, no connection that was made.
LEMMA NoOks ==
  ASSUME strand \in Seq(Handlers), Attempts = 0
  PROVE Oks = 0
<1>1. \A i \in 1 .. Len(strand) : strand[i] \notin ConnectHandlers
  BY OccursNone, WaitingOccurs DEF Attempts
<1>2. \A i \in 1 .. Len(strand) : strand[i] \notin {"connect_ok"}
  BY <1>1 DEF ConnectHandlers
<1> QED BY <1>2, OccursNone, WaitingOccurs DEF Oks

LEMMA NoneAfterPrimed ==
  ASSUME strand' \in Seq(Handlers), Oks' = 0, NEW hs
  PROVE After(hs)'
<1>1. \A i \in 1 .. Len(strand') : strand'[i] \notin {"connect_ok"}
  BY OccursNone, WaitingOccurs DEF Oks
<1> QED BY <1>1 DEF After

LEMMA AfterPosted ==
  ASSUME strand \in Seq(Handlers), NEW hs, After(hs), NEW h \in Handlers,
         strand' = Append(strand, h), h \notin hs \/ Oks = 0
  PROVE After(hs)'
<1>1. /\ Len(strand) \in Nat /\ Len(strand') = Len(strand) + 1 /\ strand'[Len(strand) + 1] = h
      /\ \A i \in 1 .. Len(strand) : strand'[i] = strand[i]
  OBVIOUS
<1>2. ASSUME Oks = 0 PROVE \A i \in 1 .. Len(strand) : strand[i] # "connect_ok"
  <2>1. \A i \in 1 .. Len(strand) : strand[i] \notin {"connect_ok"}
    BY <1>2, OccursNone, WaitingOccurs DEF Oks
  <2> QED BY <2>1
<1>3. ASSUME NEW i \in 1 .. Len(strand'), NEW j \in 1 .. Len(strand'),
             i < j, strand'[i] = "connect_ok"
      PROVE strand'[j] \notin hs
  <2>1. i \in 1 .. Len(strand) /\ strand[i] = "connect_ok"
    BY <1>1, <1>3
  <2>2. CASE j \in 1 .. Len(strand)
    BY <1>1, <1>3, <2>1, <2>2 DEF After
  <2>3. CASE j = Len(strand) + 1
    BY <1>1, <1>2, <2>1, <2>3
  <2> QED BY <1>1, <2>2, <2>3
<1> QED BY <1>3 DEF After

LEMMA AfterTaken ==
  ASSUME strand \in Seq(Handlers), strand # <<>>, strand' = Tail(strand), NEW hs, After(hs)
  PROVE After(hs)'
<1>1. /\ Len(strand) \in Nat /\ Len(strand') = Len(strand) - 1
      /\ \A i \in 1 .. Len(strand') : strand'[i] = strand[i + 1] /\ i + 1 \in 1 .. Len(strand)
  OBVIOUS
<1>2. ASSUME NEW i \in 1 .. Len(strand'), NEW j \in 1 .. Len(strand'),
             i < j, strand'[i] = "connect_ok"
      PROVE strand'[j] \notin hs
  <2>1. /\ i + 1 \in 1 .. Len(strand) /\ j + 1 \in 1 .. Len(strand) /\ i + 1 < j + 1
        /\ strand'[i] = strand[i + 1] /\ strand'[j] = strand[j + 1]
    BY <1>1, <1>2
  <2> QED BY <1>2, <2>1 DEF After
<1> QED BY <1>2 DEF After

\* Behind the connection that is handled there is none.
LEMMA NoneBehind ==
  ASSUME strand \in Seq(Handlers), Runs("connect_ok"), strand' = Rest, NEW hs, After(hs)
  PROVE Waiting(hs)' = 0
<1>1. strand # <<>> /\ Head(strand) = "connect_ok" /\ strand' = Tail(strand)
  BY DEF Runs, Rest
<1>2. /\ strand' \in Seq(Handlers) /\ 1 \in 1 .. Len(strand) /\ strand[1] = "connect_ok"
      /\ \A i \in 1 .. Len(strand') : /\ strand'[i] = strand[i + 1]
                                       /\ i + 1 \in 1 .. Len(strand) /\ 1 < i + 1
  BY <1>1
<1>3. \A i \in 1 .. Len(strand') : strand'[i] \notin hs
  BY <1>2 DEF After
<1> QED BY <1>2, <1>3, OccursNone, WaitingOccurs

\* A socket that is destroyed leaves no handler of hs, as of a read, behind.
LEMMA AfterLost ==
  ASSUME TypeOK, NEW h, Runs(h), Disconnect, After(ReadHandlers)
  PROVE After(ReadHandlers)'
<1>1. /\ strand \in Seq(Handlers) /\ strand # <<>> /\ strand' = Tail(strand) \o Aborted
  BY DEF Runs, Rest, Disconnect, TypeOK
<1>2. PICK rest \in Seq(Handlers) : rest = Tail(strand) /\ Len(rest) = Len(strand) - 1
  BY <1>1, HeadTailProperties
<1>3. Aborted \in Seq(Handlers) /\ Occurs(Aborted, ReadHandlers) = 0
         /\ Occurs(Aborted, {"connect_ok"}) = 0
  <2>1. /\ "send_error" \notin ReadHandlers /\ "connect_error" \notin ReadHandlers
        /\ "send_error" \notin {"connect_ok"} /\ "connect_error" \notin {"connect_ok"}
    BY DEF ReadHandlers
  <2> QED BY <2>1, AbortedCounts
<1>4. PICK behind \in Seq(Handlers) : behind = Aborted
  BY <1>3
<1>5. /\ \A i \in 1 .. Len(behind) : behind[i] \notin ReadHandlers
      /\ \A i \in 1 .. Len(behind) : behind[i] \notin {"connect_ok"}
  BY <1>3, <1>4, OccursNone
<1>6. /\ Len(rest) \in Nat /\ Len(behind) \in Nat /\ Len(strand') = Len(rest) + Len(behind)
      /\ \A i \in 1 .. Len(strand') :
           strand'[i] = IF i <= Len(rest) THEN rest[i] ELSE behind[i - Len(rest)]
  BY <1>1, <1>2, <1>4
<1>7. \A i \in 1 .. Len(rest) : rest[i] = strand[i + 1] /\ i + 1 \in 1 .. Len(strand)
  BY <1>1, <1>2
<1>8. ASSUME NEW i \in 1 .. Len(strand'), NEW j \in 1 .. Len(strand'),
             i < j, strand'[i] = "connect_ok"
      PROVE strand'[j] \notin ReadHandlers
  <2>1. CASE j <= Len(rest)
    <3>1. i \in 1 .. Len(rest) /\ j \in 1 .. Len(rest) /\ strand'[i] = rest[i] /\ strand'[j] = rest[j]
      BY <1>6, <1>8, <2>1
    <3>2. /\ i + 1 \in 1 .. Len(strand) /\ j + 1 \in 1 .. Len(strand) /\ i + 1 < j + 1
          /\ strand'[i] = strand[i + 1] /\ strand'[j] = strand[j + 1]
      BY <1>7, <1>8, <3>1
    <3> QED BY <1>8, <3>2 DEF After
  <2>2. CASE ~(j <= Len(rest))
    <3>1. j - Len(rest) \in 1 .. Len(behind) /\ strand'[j] = behind[j - Len(rest)]
      BY <1>6, <1>8, <2>2
    <3> QED BY <1>5, <3>1
  <2> QED BY <2>1, <2>2
<1> QED BY <1>8 DEF After

-----------------------------------------------------------------------------
(* The inductive invariant *)

\* Attempts to connect: Chains, by the count of handlers.
Trials ==
  Attempts + (IF socket = "connecting" THEN 1 ELSE 0) + (IF sleeping THEN 1 ELSE 0)
    + (IF starter = "starting" /\ ~is_stopped THEN 1 ELSE 0)

\* A camera does not read and a headset does not write.
Kinds ==
  /\ connection_type = "camera" => ~armed /\ reads = 0 /\ ~late /\ Readers = 0 /\ Timers = 0
  /\ connection_type = "headset" => post = "idle" /\ queue = 0 /\ sends = 0 /\ Senders = 0

\* Stop waits for the one handler it posted, and leaves nothing behind; between
\* connections no frame is begun; a buffer that is about to be queued has room.
Stopping ==
  /\ Stops = IF stopper = "waiting" THEN 1 ELSE 0
  /\ is_stopped /\ stopper = "idle" => socket = "null" /\ ~is_connected /\ ~sleeping
  /\ stopper # "idle" /\ ~overlapped => is_stopped
  /\ ~is_connected => frame = "none"
  /\ post = "checked" => queue < MaxQueue

\* One attempt or one connection, and one read, which is the connection's own: none
\* is left from an earlier one when a connection is handled.
Single ==
  ~late /\ ~overlapped =>
    /\ Trials + (IF is_connected THEN 1 ELSE 0) <= 1
    /\ reads + Readers <= 1 /\ frame # "torn"
    /\ ~is_connected => reads = 0
    /\ is_connected => socket # "null"
    /\ After(ReadHandlers)

\* There is a socket unless the attempt that makes it is yet to come or was left by
\* an exception.  Where the timer's handler has made a second chain of attempts, a
\* connection may then be without one.
HasSocket ==
  ~overlapped /\ ~is_stopped =>
    \/ socket # "null" \/ sleeping
    \/ starter = "starting" /\ ~is_connected /\ Oks = 0
    \/ threw /\ (late \/ (~is_connected /\ Oks = 0))

\* What is not connected is trying, unless its last attempt was left by an exception,
\* and what is connected reads.
Trying ==
  ~overlapped /\ ~is_stopped /\ ~fault =>
    /\ ~is_connected /\ ~threw => Trials > 0
    /\ is_connected /\ connection_type = "headset" => reads + Readers > 0

\* Without a connection nothing is queued or under way, and no send is left for the
\* next one to take for its own; with one there is a send for what is queued,
\* unless Post is about to start it.
Posting ==
  connection_type = "camera" /\ ~raced /\ ~overlapped /\ ~fault =>
    /\ ~is_connected => /\ queue = 0 /\ post = "idle" /\ sends = 0
                        /\ is_stopped \/ After(SendHandlers)
    /\ is_connected /\ post \in {"first", "send"} => queue > 0
    /\ Live => sends + Senders = IF queue > 0 /\ post \notin {"first", "send"} THEN 1 ELSE 0

Inv ==
  TypeOK /\ Kinds /\ Stopping /\ Single /\ HasSocket /\ Trying /\ Posting /\ FaultOnlyRaced

LEMMA SameStrand ==
  ASSUME UNCHANGED strand
  PROVE /\ Attempts' = Attempts /\ Oks' = Oks /\ Readers' = Readers /\ Senders' = Senders
        /\ Timers' = Timers /\ Stops' = Stops
        /\ \A hs : After(hs) => After(hs)'
BY DEF Attempts, Oks, Readers, Senders, Timers, Stops, Waiting, After

LEMMA InvCounts ==
  ASSUME Inv
  PROVE /\ strand \in Seq(Handlers)
        /\ Attempts \in Nat /\ Oks \in Nat /\ Readers \in Nat /\ Senders \in Nat
        /\ Timers \in Nat /\ Stops \in Nat
        /\ Attempts = 0 => Oks = 0
<1>1. strand \in Seq(Handlers)
  BY DEF Inv, TypeOK
<1> QED BY <1>1, CountsType, NoOks

LEMMA TrialsType ==
  /\ strand \in Seq(Handlers) => Trials \in Nat
  /\ strand' \in Seq(Handlers) => Trials' \in Nat
<1>1. strand \in Seq(Handlers) => Trials \in Nat
  BY CountsType DEF Trials
<1>2. ASSUME strand' \in Seq(Handlers) PROVE Trials' \in Nat
  <2>1. PICK a \in Nat : a = Attempts'
    BY <1>2, CountsTypePrimed
  <2>2. PICK b \in {0, 1} : b = IF socket' = "connecting" THEN 1 ELSE 0
    OBVIOUS
  <2>3. PICK c \in {0, 1} : c = IF sleeping' THEN 1 ELSE 0
    OBVIOUS
  <2>4. PICK d \in {0, 1} : d = IF starter' = "starting" /\ ~is_stopped' THEN 1 ELSE 0
    OBVIOUS
  <2>5. Trials' = a + b + c + d
    BY <2>1, <2>2, <2>3, <2>4, Zenon DEF Trials
  <2> QED BY <2>5
<1> QED BY <1>1, <1>2

\* The handler that runs is counted.
LEMMA HeadCounted ==
  ASSUME strand \in Seq(Handlers), NEW h, Runs(h)
  PROVE /\ h \in ReadHandlers => Readers > 0
        /\ h \in SendHandlers => Senders > 0
        /\ h = "timer" => Timers > 0
        /\ h = "stop" => Stops > 0
<1>1. 1 \in 1 .. Len(strand) /\ strand[1] = h
  BY DEF Runs
<1>2. ASSUME NEW hs, h \in hs PROVE Waiting(hs) > 0
  <2>1. Occurs(strand, hs) # 0
    BY <1>1, <1>2, OccursNone
  <2>2. Occurs(strand, hs) \in Nat
    BY PlacesFinite
  <2> QED BY <2>1, <2>2, WaitingOccurs
<1>3. h = "timer" => Waiting({"timer"}) > 0
  BY <1>2
<1>4. h = "stop" => Waiting({"stop"}) > 0
  BY <1>2
<1> QED BY <1>2, <1>3, <1>4 DEF Readers, Senders, Timers, Stops

\* The handler of a read, or of a send, leaves the other counts as they are.
LEMMA ReadTaken ==
  ASSUME Inv, NEW h \in Handlers, Runs(h), strand' = Rest, h \in ReadHandlers
  PROVE /\ strand' \in Seq(Handlers) /\ Attempts' = Attempts /\ Oks' = Oks
        /\ Readers' = Readers - 1 /\ Senders' = Senders /\ Timers' = Timers /\ Stops' = Stops
<1>1. /\ h \notin ConnectHandlers /\ h \notin SendHandlers /\ h # "connect_ok" /\ h # "timer"
      /\ h # "stop"
  BY DEF ConnectHandlers, ReadHandlers, SendHandlers
<1>2. strand' \in Seq(Handlers)
  BY InvCounts, Taken
<1>3. /\ Attempts = Attempts' + 0 /\ Oks = Oks' + 0 /\ Readers = Readers' + 1
      /\ Senders = Senders' + 0 /\ Timers = Timers' + 0 /\ Stops = Stops' + 0
  BY <1>1, InvCounts, Taken
<1> QED BY <1>2, <1>3, CountsTypePrimed

LEMMA SendTaken ==
  ASSUME Inv, NEW h \in Handlers, Runs(h), strand' = Rest, h \in SendHandlers
  PROVE /\ strand' \in Seq(Handlers) /\ Attempts' = Attempts /\ Oks' = Oks
        /\ Readers' = Readers /\ Senders' = Senders - 1 /\ Timers' = Timers /\ Stops' = Stops
<1>1. /\ h \notin ConnectHandlers /\ h \notin ReadHandlers /\ h # "connect_ok" /\ h # "timer"
      /\ h # "stop"
  BY DEF ConnectHandlers, ReadHandlers, SendHandlers
<1>2. strand' \in Seq(Handlers)
  BY InvCounts, Taken
<1>3. /\ Attempts = Attempts' + 0 /\ Oks = Oks' + 0 /\ Readers = Readers' + 0
      /\ Senders = Senders' + 1 /\ Timers = Timers' + 0 /\ Stops = Stops' + 0
  BY <1>1, InvCounts, Taken
<1> QED BY <1>2, <1>3, CountsTypePrimed

-----------------------------------------------------------------------------
(* Every step keeps it: the socket and the timer *)

LEMMA ConnectDoneStep ==
  ASSUME Inv, NEW ok \in BOOLEAN, ConnectDone(ok)
  PROVE Inv'
<1> DEFINE h == IF ok THEN "connect_ok" ELSE "connect_error"
<1>1. /\ ~fault /\ socket = "connecting" /\ socket' \in {"connected", "open"}
      /\ strand' = Append(strand, h) /\ h \in Handlers /\ h \in ConnectHandlers
      /\ h \notin ReadHandlers /\ h \notin SendHandlers
      /\ UNCHANGED <<connection_type, timeouts, starts, late, overlapped, threw, is_stopped, is_connected,
                     reads, sends, sleeping, frame, queue, raced, armed, post, starter, stopper, fault>>
  BY DEF ConnectDone, fixed, threads, Handlers, ConnectHandlers, ReadHandlers, SendHandlers
<1> HIDE DEF h
<1>2. /\ strand' \in Seq(Handlers) /\ Attempts' = Attempts + 1
      /\ Readers' = Readers /\ Senders' = Senders /\ Timers' = Timers /\ Stops' = Stops
  BY <1>1, InvCounts, Posted DEF h
<1>3. TypeOK'
  BY <1>1, <1>2 DEF Inv, TypeOK
<1>4. Kinds' /\ Stopping'
  BY <1>1, <1>2 DEF Inv, Kinds, Stopping
<1>5. Trials' = Trials
  BY <1>1, <1>2, InvCounts DEF Trials
<1>6. \A hs \in {ReadHandlers, SendHandlers} : After(hs) => After(hs)'
  BY <1>1, InvCounts, AfterPosted
<1>7. Single'
  BY <1>1, <1>2, <1>5, <1>6 DEF Inv, Single
<1>8. HasSocket' /\ Trying' /\ FaultOnlyRaced'
  BY <1>1, <1>2, <1>5 DEF Inv, HasSocket, Trying, FaultOnlyRaced
<1>9. Posting'
  BY <1>1, <1>2, <1>6 DEF Inv, Posting, Live
<1> QED BY <1>3, <1>4, <1>7, <1>8, <1>9 DEF Inv

LEMMA TransferDoneStep ==
  ASSUME Inv, NEW h \in Handlers, TransferDone(h)
  PROVE Inv'
<1>1. /\ ~fault /\ strand' = Append(strand, h)
      /\ \/ h \in ReadHandlers /\ reads > 0 /\ reads' = reads - 1 /\ sends' = sends
         \/ h \in SendHandlers /\ sends > 0 /\ sends' = sends - 1 /\ reads' = reads
      /\ UNCHANGED <<connection_type, timeouts, starts, late, overlapped, threw, is_stopped, is_connected,
                     socket, sleeping, frame, queue, raced, armed, post, starter, stopper, fault>>
  BY DEF TransferDone, fixed, threads
<1>2. /\ h \notin ConnectHandlers /\ h # "connect_ok" /\ h # "timer" /\ h # "stop"
      /\ ~(h \in ReadHandlers /\ h \in SendHandlers)
  BY <1>1 DEF ConnectHandlers, ReadHandlers, SendHandlers
<1>3. /\ strand' \in Seq(Handlers) /\ Attempts' = Attempts /\ Oks' = Oks
      /\ Timers' = Timers /\ Stops' = Stops
      /\ Readers' = Readers + IF h \in ReadHandlers THEN 1 ELSE 0
      /\ Senders' = Senders + IF h \in SendHandlers THEN 1 ELSE 0
  BY <1>1, <1>2, InvCounts, Posted
<1>4. TypeOK'
  BY <1>1, <1>3 DEF Inv, TypeOK
<1>5. reads \in Nat /\ sends \in Nat /\ connection_type \in {"camera", "headset"}
  BY DEF Inv, TypeOK
<1>6. Kinds' /\ Stopping'
  BY <1>1, <1>2, <1>3, <1>5 DEF Inv, Kinds, Stopping
<1>7. Trials' = Trials
  BY <1>1, <1>3 DEF Trials
<1>8. is_connected /\ ~late /\ ~overlapped => Oks = 0
  BY InvCounts DEF Inv, Single, Trials
<1>9. \A hs : After(hs) /\ (h \notin hs \/ Oks = 0) => After(hs)'
  BY <1>1, InvCounts, AfterPosted
<1>10. Single'
  BY <1>1, <1>2, <1>3, <1>5, <1>7, <1>8, <1>9, InvCounts DEF Inv, Single
<1>11. HasSocket' /\ FaultOnlyRaced'
  BY <1>1, <1>3 DEF Inv, HasSocket, FaultOnlyRaced
<1>12. Trying'
  BY <1>1, <1>2, <1>3, <1>5, <1>7, InvCounts DEF Inv, Trying, Kinds
<1>13. Posting'
  <2>1. connection_type = "camera" => ~late /\ h \in SendHandlers
    BY <1>1, <1>5 DEF Inv, Kinds
  <2> QED BY <1>1, <1>2, <1>3, <1>5, <1>8, <1>9, <2>1, InvCounts DEF Inv, Posting, Live
<1> QED BY <1>4, <1>6, <1>10, <1>11, <1>12, <1>13 DEF Inv

LEMMA TimerFiresStep ==
  ASSUME Inv, TimerFires
  PROVE Inv'
<1>1. /\ ~fault /\ armed /\ timeouts < MaxTimeouts /\ timeouts' = timeouts + 1 /\ armed' = FALSE
      /\ strand' = Append(strand, "timer")
      /\ UNCHANGED <<connection_type, starts, late, overlapped, threw, is_stopped, is_connected, socket,
                     reads, sends, sleeping, frame, queue, raced, post, starter, stopper, fault>>
  BY DEF TimerFires, conn, ops, threads
<1>2. /\ "timer" \in Handlers /\ "timer" \notin ConnectHandlers
      /\ "timer" \notin ReadHandlers /\ "timer" \notin SendHandlers
  BY DEF Handlers, ConnectHandlers, ReadHandlers, SendHandlers
<1>3. /\ strand' \in Seq(Handlers) /\ Attempts' = Attempts /\ Oks' = Oks
      /\ Readers' = Readers /\ Senders' = Senders /\ Timers' = Timers + 1 /\ Stops' = Stops
  BY <1>1, <1>2, InvCounts, Posted
<1>4. TypeOK'
  <2>1. timeouts' \in 0 .. MaxTimeouts
    BY <1>1, BoundsAssumption DEF Inv, TypeOK
  <2>2. armed' \in BOOLEAN
    BY <1>1
  <2> QED BY <1>1, <1>3, <2>1, <2>2 DEF Inv, TypeOK
<1>5. Kinds' /\ Stopping'
  BY <1>1, <1>3 DEF Inv, Kinds, Stopping
<1>6. Trials' = Trials
  BY <1>1, <1>3 DEF Trials
<1>7. \A hs \in {ReadHandlers, SendHandlers} : After(hs) => After(hs)'
  BY <1>1, <1>2, InvCounts, AfterPosted
<1>8. Single' /\ HasSocket' /\ Trying' /\ FaultOnlyRaced'
  BY <1>1, <1>3, <1>6, <1>7 DEF Inv, Single, HasSocket, Trying, FaultOnlyRaced
<1>9. Posting'
  BY <1>1, <1>3, <1>7 DEF Inv, Posting, Live
<1> QED BY <1>4, <1>5, <1>8, <1>9 DEF Inv

-----------------------------------------------------------------------------
(* Every step keeps it: connecting *)

LEMMA StartStep ==
  ASSUME Inv, Start
  PROVE Inv'
<1>1. /\ ~fault /\ starter = "idle" /\ starts < MaxStarts /\ is_stopped
      /\ starts' = starts + 1 /\ starter' = "starting" /\ is_stopped' = FALSE
      /\ overlapped' = (overlapped \/ stopper # "idle" \/ strand # <<>>)
      /\ UNCHANGED <<connection_type, timeouts, late, threw, is_connected, socket, reads, sends, sleeping,
                     frame, queue, raced, strand, armed, post, stopper, fault>>
  BY DEF Start, MayStart, conn, ops
<1>2. /\ Attempts' = Attempts /\ Oks' = Oks /\ Readers' = Readers /\ Senders' = Senders
      /\ Timers' = Timers /\ Stops' = Stops /\ \A hs : After(hs) => After(hs)'
  BY <1>1, SameStrand
<1>3. TypeOK'
  <2>1. overlapped' \in BOOLEAN
    BY <1>1, Zenon
  <2>2. starts' \in 0 .. MaxStarts
    BY <1>1, BoundsAssumption DEF Inv, TypeOK
  <2>3. is_stopped' \in BOOLEAN /\ starter' \in {"idle", "starting"}
    BY <1>1
  <2> QED BY <1>1, <2>1, <2>2, <2>3 DEF Inv, TypeOK
<1>4. ASSUME strand = <<>>
      PROVE Attempts = 0 /\ Oks = 0 /\ Readers = 0 /\ Senders = 0 /\ \A hs : After(hs)'
  <2>1. strand \in Seq(Handlers) /\ \A i \in 1 .. Len(strand) : FALSE
    BY <1>4, InvCounts
  <2>2. \A hs : Waiting(hs) = 0
    BY <2>1, OccursNone, WaitingOccurs
  <2>3. strand' \in Seq(Handlers) /\ Oks' = 0
    BY <1>1, <1>2, <2>1, <2>2 DEF Oks
  <2> QED BY <2>2, <2>3, NoneAfterPrimed DEF Attempts, Oks, Readers, Senders
<1>5. /\ overlapped => overlapped'
      /\ ~overlapped' => /\ stopper = "idle" /\ strand = <<>> /\ socket = "null"
                         /\ ~is_connected /\ ~sleeping
  BY <1>1 DEF Inv, Stopping
<1>6. Kinds' /\ Stopping'
  BY <1>1, <1>2, <1>5 DEF Inv, Kinds, Stopping
<1>7. ~overlapped' => Trials' = 1
  BY <1>1, <1>2, <1>4, <1>5 DEF Trials
<1>8. Single'
  BY <1>1, <1>2, <1>4, <1>5, <1>7, Zenon, SMT DEF Inv, Single
<1>9. HasSocket' /\ Trying' /\ FaultOnlyRaced'
  BY <1>1, <1>2, <1>4, <1>5, <1>7 DEF Inv, HasSocket, Trying, FaultOnlyRaced
<1>10. Posting'
  BY <1>1, <1>2, <1>4, <1>5 DEF Inv, Posting, Live
<1> QED BY <1>3, <1>6, <1>8, <1>9, <1>10 DEF Inv

\* The end of startConnection: an attempt more, unless the client is stopped or the
\* constructor of the socket throws.
LEMMA ConnectCounts ==
  ASSUME Inv, Connect
  PROVE /\ strand' \in Seq(Handlers) /\ socket' \in {"null", "open", "connecting", "connected"}
        /\ threw' \in BOOLEAN
        /\ is_stopped => socket' = socket /\ frame' = frame /\ threw' = threw
        /\ ~is_stopped /\ threw' => socket' = "null" /\ socket = "null" /\ Attempts' = Attempts
        /\ ~is_stopped /\ ~threw' => socket' # "null"
        /\ frame' = frame \/ (~is_stopped /\ frame = "part" /\ frame' = "torn")
        /\ Attempts' + (IF socket' = "connecting" THEN 1 ELSE 0)
             = Attempts + (IF socket = "connecting" THEN 1 ELSE 0)
                 + (IF is_stopped \/ threw' THEN 0 ELSE 1)
        /\ Oks' = Oks /\ Readers' = Readers /\ Senders' = Senders
        /\ Timers' = Timers /\ Stops' = Stops
        /\ \A hs \in {ReadHandlers, SendHandlers} : After(hs) => After(hs)'
<1>1. socket \in {"null", "open", "connecting", "connected"} /\ threw \in BOOLEAN
  BY DEF Inv, TypeOK
<1>2. CASE is_stopped
  <2>1. UNCHANGED <<socket, strand, frame, threw>>
    BY <1>2 DEF Connect
  <2> QED BY <1>1, <1>2, <2>1, SameStrand, InvCounts
<1>3. CASE ~is_stopped /\ threw'
  <2>1. socket = "null" /\ UNCHANGED <<socket, strand, frame>> /\ threw' = TRUE
    BY <1>3 DEF Connect
  <2>2. /\ strand' \in Seq(Handlers) /\ Attempts' = Attempts /\ Oks' = Oks /\ Readers' = Readers
        /\ Senders' = Senders /\ Timers' = Timers /\ Stops' = Stops
        /\ \A hs : After(hs) => After(hs)'
    BY <2>1, SameStrand, InvCounts
  <2>3. /\ socket' = "null" /\ frame' = frame /\ (is_stopped \/ threw')
        /\ Attempts' + (IF socket' = "connecting" THEN 1 ELSE 0)
             = Attempts + (IF socket = "connecting" THEN 1 ELSE 0) + 0
    BY <1>3, <2>1, <2>2, InvCounts
  <2> QED BY <1>1, <1>3, <2>1, <2>2, <2>3
<1>4. CASE ~is_stopped /\ ~threw'
  <2>1. /\ IF socket \in {"null", "open"}
           THEN socket' = "connecting" /\ UNCHANGED strand
           ELSE strand' = Append(strand, "connect_error") /\ UNCHANGED socket
        /\ frame' = IF frame = "part" THEN "torn" ELSE frame
        /\ threw' = FALSE
    BY <1>4, Zenon DEF Connect
  <2>2. frame' = frame \/ (frame = "part" /\ frame' = "torn")
    BY <2>1
  <2>3. CASE socket \in {"null", "open"}
    <3>1. socket' = "connecting" /\ UNCHANGED strand
      BY <2>1, <2>3
    <3>2. /\ strand' \in Seq(Handlers) /\ Attempts' = Attempts /\ Oks' = Oks
          /\ Readers' = Readers /\ Senders' = Senders /\ Timers' = Timers /\ Stops' = Stops
          /\ \A hs : After(hs) => After(hs)'
      BY <3>1, SameStrand, InvCounts
    <3>3. socket # "connecting" /\ socket' = "connecting" /\ ~(is_stopped \/ threw')
      BY <1>4, <2>3, <3>1
    <3>4. Attempts' + (IF socket' = "connecting" THEN 1 ELSE 0)
            = Attempts + (IF socket = "connecting" THEN 1 ELSE 0) + 1
      BY <3>2, <3>3, InvCounts
    <3> QED BY <1>4, <2>1, <2>2, <3>2, <3>3, <3>4
  <2>4. CASE socket \notin {"null", "open"}
    <3>1. strand' = Append(strand, "connect_error") /\ UNCHANGED socket
      BY <2>1, <2>4
    <3>2. /\ "connect_error" \in Handlers /\ "connect_error" \in ConnectHandlers
          /\ "connect_error" \notin ReadHandlers /\ "connect_error" \notin SendHandlers
      BY DEF Handlers, ConnectHandlers, ReadHandlers, SendHandlers
    <3>3. /\ strand' \in Seq(Handlers) /\ Attempts' = Attempts + 1 /\ Oks' = Oks
          /\ Readers' = Readers /\ Senders' = Senders /\ Timers' = Timers /\ Stops' = Stops
      BY <3>1, <3>2, InvCounts, Posted
    <3>4. \A hs \in {ReadHandlers, SendHandlers} : After(hs) => After(hs)'
      BY <3>1, <3>2, InvCounts, AfterPosted
    <3>5. ~(is_stopped \/ threw') /\ socket' # "null"
      BY <1>4, <2>4, <3>1
    <3>6. Attempts' + (IF socket' = "connecting" THEN 1 ELSE 0)
            = Attempts + (IF socket = "connecting" THEN 1 ELSE 0) + 1
      BY <3>1, <3>3, InvCounts
    <3> QED BY <1>1, <1>4, <2>1, <2>2, <3>1, <3>3, <3>4, <3>5, <3>6
  <2> QED BY <2>3, <2>4
<1> QED BY <1>2, <1>3, <1>4

LEMMA StartConnectionStep ==
  ASSUME Inv, StartConnection
  PROVE Inv'
<1>1. /\ ~fault /\ starter = "starting" /\ starter' = "idle" /\ Connect
      /\ UNCHANGED <<connection_type, timeouts, starts, late, overlapped, is_stopped, is_connected,
                     reads, sends, sleeping, queue, raced, armed, post, stopper, fault>>
  BY DEF StartConnection, fixed
<1>2. TypeOK'
  BY <1>1, ConnectCounts DEF Inv, TypeOK
<1>3. Trials' = Trials - (IF ~is_stopped /\ threw' THEN 1 ELSE 0)
  <2>1. Attempts' \in Nat
    BY ConnectCounts, <1>1, CountsTypePrimed
  <2>2. CASE is_stopped
    BY <1>1, <2>1, <2>2, ConnectCounts, InvCounts DEF Trials
  <2>3. CASE ~is_stopped /\ threw'
    BY <1>1, <2>1, <2>3, ConnectCounts, InvCounts DEF Trials
  <2>4. CASE ~is_stopped /\ ~threw'
    BY <1>1, <2>1, <2>4, ConnectCounts, InvCounts DEF Trials
  <2> QED BY <2>2, <2>3, <2>4
<1>4. Kinds'
  BY <1>1, ConnectCounts DEF Inv, Kinds
<1>5. Stopping'
  BY <1>1, ConnectCounts DEF Inv, Stopping
<1>6. Trials \in Nat /\ (~is_stopped => Trials > 0)
  BY <1>1, InvCounts DEF Trials
<1>7. Single'
  <2>1. Trials' \in Nat /\ Trials' <= Trials
    BY <1>3, <1>6
  <2>2. ASSUME ~late, ~overlapped PROVE ~is_stopped => frame # "part" /\ ~is_connected
    <3>1. ~is_stopped => ~is_connected
      BY <1>6, <2>2 DEF Inv, Single
    <3> QED BY <3>1 DEF Inv, Stopping
  <2>3. ASSUME ~late, ~overlapped PROVE frame' = frame /\ (is_connected => socket' # "null")
    BY <1>1, <2>2, <2>3, ConnectCounts DEF Inv, Single
  <2>4. After(ReadHandlers) => After(ReadHandlers)'
    BY <1>1, ConnectCounts
  <2>5. ASSUME ~late, ~overlapped PROVE Trials' + (IF is_connected' THEN 1 ELSE 0) <= 1
    <3>1. is_connected' = is_connected /\ Trials + (IF is_connected THEN 1 ELSE 0) <= 1
      BY <1>1, <2>5 DEF Inv, Single
    <3>2. PICK n \in Nat : n = Trials' /\ n <= Trials
      BY <2>1
    <3>3. PICK c \in Nat : c = IF is_connected THEN 1 ELSE 0
      OBVIOUS
    <3>4. Trials + c <= 1
      BY <3>1, <3>3, Zenon
    <3>5. PICK t \in Nat : t = Trials /\ n <= t /\ t + c <= 1
      BY <1>6, <3>2, <3>4, Zenon
    <3>6. n + c <= 1
      BY <3>5
    <3> QED BY <3>1, <3>2, <3>3, <3>6, Zenon
  <2> QED BY <1>1, <2>3, <2>4, <2>5, ConnectCounts DEF Inv, Single
<1>8. HasSocket' /\ Trying' /\ FaultOnlyRaced'
  <2>1. ~is_stopped /\ threw' => late \/ overlapped \/ (~is_connected' /\ Oks' = 0)
    <3> SUFFICES ASSUME ~is_stopped, threw', ~late, ~overlapped
                 PROVE ~is_connected' /\ Oks' = 0
      OBVIOUS
    <3>1. ~is_connected /\ Trials = 1
      BY <1>6 DEF Inv, Single
    <3>2. Attempts = 0
      BY <1>1, <3>1, InvCounts DEF Trials
    <3> QED BY <1>1, <3>1, <3>2, ConnectCounts, InvCounts
  <2>2. HasSocket'
    BY <1>1, <2>1, ConnectCounts DEF HasSocket
  <2>3. Trying'
    BY <1>1, <1>3, <1>6, ConnectCounts DEF Inv, Trying
  <2>4. FaultOnlyRaced'
    BY <1>1 DEF FaultOnlyRaced
  <2> QED BY <2>2, <2>3, <2>4
<1>9. Posting'
  BY <1>1, ConnectCounts DEF Inv, Posting, Live
<1> QED BY <1>2, <1>4, <1>5, <1>7, <1>8, <1>9 DEF Inv

LEMMA WakeStep ==
  ASSUME Inv, Wake
  PROVE Inv'
<1>1. /\ ~fault /\ sleeping /\ sleeping' = FALSE /\ Connect
      /\ UNCHANGED <<connection_type, timeouts, starts, late, overlapped, is_stopped, is_connected,
                     reads, sends, queue, raced, armed, post, starter, stopper, fault>>
  BY DEF Wake, fixed, threads
<1>2. TypeOK'
  <2>1. /\ strand' \in Seq(Handlers) /\ socket' \in {"null", "open", "connecting", "connected"}
        /\ frame' \in {"none", "part", "torn"} /\ sleeping' \in BOOLEAN
    BY <1>1, ConnectCounts DEF Inv, TypeOK
  <2>2. threw' \in BOOLEAN
    BY <1>1, ConnectCounts
  <2> QED BY <1>1, <2>1, <2>2 DEF Inv, TypeOK
<1>3. Trials' = Trials - (IF is_stopped \/ threw' THEN 1 ELSE 0) /\ Trials > 0
  <2>1. Trials' = Trials - (IF is_stopped \/ threw' THEN 1 ELSE 0)
    <3>1. CASE is_stopped
      BY <1>1, <3>1, ConnectCounts, InvCounts DEF Trials
    <3>2. CASE ~is_stopped /\ threw'
      BY <1>1, <3>2, ConnectCounts, InvCounts DEF Trials
    <3>3. CASE ~is_stopped /\ ~threw'
      BY <1>1, <3>3, ConnectCounts, InvCounts DEF Trials
    <3> QED BY <3>1, <3>2, <3>3
  <2>2. Trials > 0
    BY <1>1, InvCounts DEF Trials
  <2> QED BY <2>1, <2>2
<1>4. Kinds'
  BY <1>1, ConnectCounts DEF Inv, Kinds
<1>5. Stopping'
  BY <1>1, ConnectCounts DEF Inv, Stopping
<1>6. Single'
  <2>1. Trials \in Nat /\ Trials' \in Nat /\ Trials' <= Trials
    BY <1>3, InvCounts, TrialsType
  <2> QED BY <1>1, <1>3, <2>1, ConnectCounts DEF Inv, Single, Stopping
<1>7. HasSocket' /\ Trying' /\ FaultOnlyRaced'
  <2>1. ~is_stopped /\ ~threw' => Trials' > 0
    BY <1>3, InvCounts, TrialsType
  <2>2. HasSocket' /\ FaultOnlyRaced'
    <3>1. ~is_stopped /\ threw' => late \/ overlapped \/ (~is_connected' /\ Oks' = 0)
      <4> SUFFICES ASSUME ~is_stopped, threw', ~late, ~overlapped
                   PROVE ~is_connected' /\ Oks' = 0
        OBVIOUS
      <4>1. ~is_connected /\ Trials = 1
        BY <1>3, InvCounts, TrialsType DEF Inv, Single
      <4>2. Attempts = 0
        BY <1>1, <4>1, InvCounts DEF Trials
      <4> QED BY <1>1, <4>1, <4>2, ConnectCounts, InvCounts
    <3>2. HasSocket'
      BY <1>1, <3>1, ConnectCounts DEF HasSocket
    <3>3. FaultOnlyRaced'
      BY <1>1 DEF FaultOnlyRaced
    <3> QED BY <3>2, <3>3
  <2>3. Trying'
    BY <1>1, <2>1, ConnectCounts DEF Inv, Trying
  <2> QED BY <2>2, <2>3
<1>8. Posting'
  BY <1>1, ConnectCounts DEF Inv, Posting, Live
<1> QED BY <1>2, <1>4, <1>5, <1>6, <1>7, <1>8 DEF Inv

LEMMA RunConnectOkStep ==
  ASSUME Inv, RunConnectOk
  PROVE Inv'
<1>1. /\ ~fault /\ ~sleeping /\ strand # <<>> /\ Runs("connect_ok") /\ strand' = Rest
      /\ strand' = Tail(strand)
      /\ UNCHANGED <<connection_type, timeouts, starts, late, overlapped, threw, is_stopped, socket, sends,
                     sleeping, frame, queue, raced, post, starter, stopper>>
  BY DEF RunConnectOk, Runs, Rest, fixed, threads
<1>2. /\ "connect_ok" \in Handlers /\ "connect_ok" \in ConnectHandlers
      /\ "connect_ok" \notin ReadHandlers /\ "connect_ok" \notin SendHandlers
  BY DEF Handlers, ConnectHandlers, ReadHandlers, SendHandlers
<1>3. /\ strand' \in Seq(Handlers) /\ Attempts' = Attempts - 1 /\ Oks > 0
      /\ Readers' = Readers /\ Senders' = Senders /\ Timers' = Timers /\ Stops' = Stops
  <2>1. strand' \in Seq(Handlers)
    BY <1>1, <1>2, InvCounts, Taken
  <2>2. Attempts = Attempts' + 1 /\ Oks = Oks' + 1
    BY <1>1, <1>2, InvCounts, Taken
  <2>3. /\ Readers = Readers' + 0 /\ Senders = Senders' + 0 /\ Timers = Timers' + 0
        /\ Stops = Stops' + 0
    BY <1>1, <1>2, InvCounts, Taken
  <2> QED BY <2>1, <2>2, <2>3, CountsTypePrimed, InvCounts, SMTT(30)
<1>4. \A hs : After(hs) => After(hs)' /\ Waiting(hs)' = 0
  BY <1>1, InvCounts, AfterTaken, NoneBehind
<1>5. Trials' = Trials - 1 /\ Trials > 0 /\ Trials \in Nat
  <2>1. Trials' = Trials - 1
    BY <1>1, <1>3, InvCounts DEF Trials
  <2>2. Trials' \in Nat /\ Trials \in Nat
    BY <1>3, InvCounts, TrialsType
  <2> QED BY <2>1, <2>2
<1>6. connection_type \in {"camera", "headset"} /\ reads \in Nat /\ is_connected \in BOOLEAN
  BY DEF Inv, TypeOK
<1>7. CASE is_stopped
  <2>1. UNCHANGED <<is_connected, reads, armed, fault>>
    BY <1>7 DEF RunConnectOk
  <2>2. TypeOK'
    BY <1>1, <1>3, <2>1 DEF Inv, TypeOK
  <2>3. Kinds' /\ Stopping'
    BY <1>1, <1>3, <2>1 DEF Inv, Kinds, Stopping
  <2>4. Single'
    BY <1>1, <1>3, <1>4, <1>5, <2>1 DEF Inv, Single
  <2>5. HasSocket' /\ Trying' /\ FaultOnlyRaced'
    BY <1>1, <1>7, <2>1 DEF Inv, HasSocket, Trying, FaultOnlyRaced
  <2>6. Posting'
    BY <1>1, <1>7, <2>1 DEF Inv, Posting, Live
  <2> QED BY <2>2, <2>3, <2>4, <2>5, <2>6 DEF Inv
<1>8. CASE ~is_stopped
  <2>1. /\ is_connected' = TRUE
        /\ connection_type = "camera" =>
             fault' = (socket = "null") /\ reads' = reads /\ armed' = armed
        /\ connection_type = "headset" =>
             /\ armed' = TRUE
             /\ \/ socket # "null" /\ reads' = reads + 1 /\ fault' = fault
                \/ socket = "null" /\ fault' = TRUE /\ reads' = reads
    BY <1>1, <1>8 DEF RunConnectOk, StartRead
  <2>2. ~overlapped /\ ~(late /\ threw) => socket # "null" /\ ~fault'
    <3>1. ~overlapped /\ ~(late /\ threw) => socket # "null"
      BY <1>1, <1>3, <1>8, InvCounts DEF Inv, HasSocket
    <3> QED BY <1>1, <1>6, <2>1, <3>1
  <2>3. TypeOK'
    <3>1. reads' \in Nat
      BY <1>6, <2>1
    <3>2. fault' \in BOOLEAN /\ armed' \in BOOLEAN
      BY <1>1, <1>6, <2>1 DEF Inv, TypeOK
    <3> QED BY <1>1, <1>3, <2>1, <3>1, <3>2 DEF Inv, TypeOK
  <2>4. Kinds' /\ Stopping'
    BY <1>1, <1>3, <1>6, <1>8, <2>1 DEF Inv, Kinds, Stopping
  <2>5. ~late /\ ~overlapped => ~is_connected /\ reads = 0 /\ Trials = 1
    BY <1>5, <1>6 DEF Inv, Single
  <2>6. Single'
    <3>1. ~late /\ ~overlapped => Readers' = 0
      BY <1>4 DEF Inv, Single, Readers
    <3> QED BY <1>1, <1>4, <1>5, <1>6, <2>1, <2>2, <2>5, <3>1 DEF Inv, Single
  <2>7. HasSocket' /\ FaultOnlyRaced'
    BY <1>1, <2>1, <2>2 DEF HasSocket, FaultOnlyRaced
  <2>8. Trying'
    <3>1. Readers' \in Nat
      BY <1>3, InvCounts
    <3> QED BY <1>1, <1>6, <2>1, <2>2, <3>1 DEF Trying
  <2>9. Posting'
    <3>1. ASSUME connection_type = "camera", ~raced, ~overlapped
          PROVE queue = 0 /\ post = "idle" /\ sends = 0 /\ Senders' = 0
      <4>1. ~is_connected
        BY <2>5, <3>1 DEF Inv, Kinds
      <4>2. queue = 0 /\ post = "idle" /\ sends = 0 /\ After(SendHandlers)
        BY <1>1, <1>8, <3>1, <4>1 DEF Inv, Posting
      <4> QED BY <1>4, <4>2 DEF Senders
    <3> QED BY <1>1, <2>1, <3>1 DEF Posting, Live
  <2> QED BY <2>3, <2>4, <2>6, <2>7, <2>8, <2>9 DEF Inv
<1> QED BY <1>7, <1>8

LEMMA RunConnectErrorStep ==
  ASSUME Inv, RunConnectError
  PROVE Inv'
<1>1. /\ ~fault /\ ~sleeping /\ strand # <<>> /\ Runs("connect_error") /\ strand' = Rest
      /\ strand' = Tail(strand) /\ sleeping' = ~is_stopped
      /\ UNCHANGED <<connection_type, timeouts, starts, late, overlapped, threw, is_stopped, is_connected,
                     socket, reads, sends, frame, queue, raced, armed, post, starter, stopper, fault>>
  BY DEF RunConnectError, Retries, Runs, Rest, fixed, threads, ops
<1>2. /\ "connect_error" \in Handlers /\ "connect_error" \in ConnectHandlers
      /\ "connect_error" \notin ReadHandlers /\ "connect_error" \notin SendHandlers
  BY DEF Handlers, ConnectHandlers, ReadHandlers, SendHandlers
<1>3. /\ strand' \in Seq(Handlers) /\ Attempts' = Attempts - 1 /\ Oks' = Oks
      /\ Readers' = Readers /\ Senders' = Senders /\ Timers' = Timers /\ Stops' = Stops
  <2>1. strand' \in Seq(Handlers)
    BY <1>1, <1>2, InvCounts, Taken
  <2>2. Attempts = Attempts' + 1 /\ Oks = Oks' + 0
    BY <1>1, <1>2, InvCounts, Taken
  <2>3. /\ Readers = Readers' + 0 /\ Senders = Senders' + 0 /\ Timers = Timers' + 0
        /\ Stops = Stops' + 0
    BY <1>1, <1>2, InvCounts, Taken
  <2> QED BY <2>1, <2>2, <2>3, CountsTypePrimed, InvCounts, SMTT(30)
<1>4. \A hs : After(hs) => After(hs)'
  BY <1>1, InvCounts, AfterTaken
<1>5. (is_stopped => Trials' = Trials - 1) /\ (~is_stopped => Trials' = Trials /\ Trials > 0)
  <2>1. ASSUME is_stopped PROVE Trials' = Trials - 1
    <3>1. ~sleeping /\ ~sleeping' /\ is_stopped'
      BY <1>1, <2>1
    <3> QED BY <1>1, <1>3, <2>1, <3>1, InvCounts, SMTT(30) DEF Trials
  <2>2. ASSUME ~is_stopped PROVE Trials' = Trials
    <3>1. ~sleeping /\ sleeping' /\ ~is_stopped'
      BY <1>1, <2>2
    <3> QED BY <1>1, <1>3, <2>2, <3>1, InvCounts DEF Trials
  <2>3. ~is_stopped => Trials > 0
    <3>1. Attempts > 0
      BY <1>1, <1>2, <1>3, InvCounts, CountsTypePrimed
    <3> QED BY <3>1, InvCounts DEF Trials
  <2> QED BY <2>1, <2>2, <2>3
<1>6. TypeOK'
  <2>1. sleeping' \in BOOLEAN
    BY <1>1
  <2> QED BY <1>1, <1>3, <2>1 DEF Inv, TypeOK
<1>7. Kinds' /\ Stopping'
  BY <1>1, <1>3 DEF Inv, Kinds, Stopping
<1>8. Single'
  <2>1. Trials \in Nat
    BY InvCounts, TrialsType
  <2> QED BY <1>1, <1>3, <1>4, <1>5, <2>1 DEF Inv, Single
<1>9. HasSocket' /\ Trying' /\ FaultOnlyRaced'
  BY <1>1, <1>3, <1>5 DEF Inv, HasSocket, Trying, FaultOnlyRaced
<1>10. Posting'
  BY <1>1, <1>3, <1>4 DEF Inv, Posting, Live
<1> QED BY <1>6, <1>7, <1>8, <1>9, <1>10 DEF Inv

-----------------------------------------------------------------------------
(* Every step keeps it: losing a connection *)

\* What Disconnect leaves, whichever handler calls it.
LEMMA Lose ==
  ASSUME Inv, NEW h \in Handlers, Runs(h), Disconnect, h \notin ConnectHandlers
  PROVE /\ ~fault /\ ~sleeping
        /\ is_connected' = FALSE /\ socket' = "null" /\ reads' = 0 /\ sends' = 0 /\ queue' = 0
        /\ frame' = "none" /\ raced' = (post # "idle") /\ strand' \in Seq(Handlers)
        /\ Attempts' = Attempts + IF socket = "connecting" THEN 1 ELSE 0
        /\ Oks' = Oks
        /\ Readers' = Readers \/ Readers' = Readers - 1
        /\ IF h = "stop" THEN Stops' = Stops - 1 ELSE Stops' = Stops
        /\ connection_type = "headset" => Senders' = 0
        /\ connection_type = "camera" => Readers' = 0 /\ Timers' = 0
        /\ After(ReadHandlers) => After(ReadHandlers)'
<1>1. /\ ~fault /\ ~sleeping /\ is_connected' = FALSE /\ socket' = "null" /\ reads' = 0
      /\ sends' = 0 /\ queue' = 0 /\ frame' = "none" /\ raced' = (post # "idle")
  BY DEF Runs, Disconnect, Emptied
<1>2. TypeOK
  BY DEF Inv
<1>3. strand' \in Seq(Handlers)
  BY <1>2, Lost
<1>4. PICK oks \in Nat, readers \in Nat, senders \in Nat, timers \in Nat, stops \in Nat :
        oks = Oks' /\ readers = Readers' /\ senders = Senders' /\ timers = Timers' /\ stops = Stops'
  BY <1>3, CountsTypePrimed, Zenon
<1>5. Attempts' = Attempts + IF socket = "connecting" THEN 1 ELSE 0
  <2>1. PICK attempts \in Nat : attempts = Attempts'
    BY <1>3, CountsTypePrimed
  <2>2. attempts + (IF h \in ConnectHandlers THEN 1 ELSE 0)
          = Attempts + IF socket = "connecting" THEN 1 ELSE 0
    BY <1>2, <2>1, Lost, Zenon
  <2>3. attempts = Attempts + IF socket = "connecting" THEN 1 ELSE 0
    BY <2>2, InvCounts
  <2> QED BY <2>1, <2>3, Zenon
<1>6. Oks' = Oks
  <2>1. Oks = oks + IF h = "connect_ok" THEN 1 ELSE 0
    BY <1>2, <1>4, Lost, Zenon
  <2>2. Oks = oks
    BY <2>1 DEF ConnectHandlers
  <2> QED BY <1>4, <2>2, Zenon
<1>7. Readers = readers + IF h \in ReadHandlers THEN 1 ELSE 0
  BY <1>2, <1>4, Lost, Zenon
<1>8. Readers' = Readers \/ Readers' = Readers - 1
  <2>1. readers = Readers \/ readers = Readers - 1
    BY <1>7
  <2> QED BY <1>4, <2>1, Zenon
<1>9. IF h = "stop" THEN Stops' = Stops - 1 ELSE Stops' = Stops
  <2>1. Stops = stops + IF h = "stop" THEN 1 ELSE 0
    BY <1>2, <1>4, Lost, Zenon
  <2>2. IF h = "stop" THEN stops = Stops - 1 ELSE stops = Stops
    BY <2>1
  <2> QED BY <1>4, <2>2, Zenon
<1>10. ASSUME connection_type = "headset" PROVE Senders' = 0
  <2>1. Senders = 0 /\ sends = 0
    BY <1>10 DEF Inv, Kinds
  <2>2. Senders = senders + IF h \in SendHandlers THEN 1 ELSE 0
    BY <1>2, <1>4, <2>1, Lost, Zenon
  <2>3. senders = 0
    BY <2>1, <2>2
  <2> QED BY <1>4, <2>3, Zenon
<1>11. ASSUME connection_type = "camera" PROVE Readers' = 0 /\ Timers' = 0
  <2>1. Readers = 0 /\ Timers = 0
    BY <1>11 DEF Inv, Kinds
  <2>2. Timers = timers + IF h = "timer" THEN 1 ELSE 0
    BY <1>2, <1>4, Lost, Zenon
  <2>3. readers = 0 /\ timers = 0
    BY <1>7, <2>1, <2>2
  <2> QED BY <1>4, <2>3, Zenon
<1>12. After(ReadHandlers) => After(ReadHandlers)'
  BY <1>2, AfterLost
<1> QED BY <1>1, <1>3, <1>5, <1>6, <1>8, <1>9, <1>10, <1>11, <1>12, Zenon

\* What is true of every handler that reconnects: it finds the client connected, or
\* it is the timer's and says so.
LEMMA ReconnectStep ==
  ASSUME Inv, NEW h \in Handlers, Runs(h), Reconnect, h \notin ConnectHandlers, h # "stop",
         UNCHANGED <<connection_type, timeouts, starts, overlapped, threw, is_stopped, post, starter,
                     stopper, fault>>,
         armed' = armed \/ armed' = FALSE,
         ~late' => ~late /\ is_connected, late' \in BOOLEAN, connection_type = "camera" => late' = late
  PROVE Inv'
<1>1. Disconnect /\ sleeping' = ~is_stopped
  BY DEF Reconnect
<1>2. /\ ~fault /\ ~sleeping
      /\ is_connected' = FALSE /\ socket' = "null" /\ reads' = 0 /\ sends' = 0 /\ queue' = 0
      /\ frame' = "none" /\ raced' = (post # "idle") /\ strand' \in Seq(Handlers)
      /\ Attempts' = Attempts + IF socket = "connecting" THEN 1 ELSE 0
      /\ Oks' = Oks /\ Stops' = Stops
      /\ Readers' = Readers \/ Readers' = Readers - 1
      /\ connection_type = "headset" => Senders' = 0
      /\ connection_type = "camera" => Readers' = 0 /\ Timers' = 0
      /\ After(ReadHandlers) => After(ReadHandlers)'
  BY <1>1, Lose, Zenon
<1>3. connection_type \in {"camera", "headset"} /\ post \in {"idle", "checked", "first", "send"}
  BY DEF Inv, TypeOK
<1>4. TypeOK'
  <2>1. sleeping' \in BOOLEAN /\ raced' \in BOOLEAN
    BY <1>1, <1>2
  <2>2. queue' \in 0 .. MaxQueue
    BY <1>2, BoundsAssumption
  <2>3. armed' \in BOOLEAN
    BY DEF Inv, TypeOK
  <2> QED BY <1>2, <2>1, <2>2, <2>3 DEF Inv, TypeOK
<1>5. Kinds'
  BY <1>2, <1>3 DEF Inv, Kinds
<1>6. Stopping'
  <2>1. post = "checked" => 0 < MaxQueue
    BY <1>3, BoundsAssumption DEF Inv, Stopping, TypeOK
  <2> QED BY <1>1, <1>2, <2>1 DEF Inv, Stopping
<1>7. Trials' = Trials + IF is_stopped THEN 0 ELSE 1
  <2>1. ASSUME is_stopped PROVE Trials' = Trials
    <3>1. ~sleeping' /\ is_stopped'
      BY <1>1, <2>1
    <3> QED BY <1>2, <2>1, <3>1, InvCounts DEF Trials
  <2>2. ASSUME ~is_stopped PROVE Trials' = Trials + 1
    <3>1. sleeping' /\ ~is_stopped'
      BY <1>1, <2>2
    <3> QED BY <1>2, <2>2, <3>1, InvCounts DEF Trials
  <2> QED BY <2>1, <2>2, TrialsType, InvCounts
<1>8. Single'
  <2>1. ASSUME ~late', ~overlapped'
        PROVE Trials = 0 /\ reads + Readers <= 1 /\ ~late /\ After(ReadHandlers)
    BY <2>1, InvCounts, TrialsType DEF Inv, Single
  <2>2. ASSUME ~late', ~overlapped' PROVE Trials' = 0 \/ Trials' = 1
    BY <1>7, <2>1, <2>2
  <2>3. reads \in Nat
    BY DEF Inv, TypeOK
  <2>4. ASSUME ~late', ~overlapped' PROVE reads' + Readers' <= 1
    BY <1>2, <2>1, <2>3, <2>4, InvCounts
  <2> QED BY <1>2, <2>1, <2>2, <2>4 DEF Single
<1>9. HasSocket' /\ FaultOnlyRaced'
  <2>1. ~is_stopped' => sleeping'
    BY <1>1
  <2> QED BY <1>2, <2>1 DEF HasSocket, FaultOnlyRaced
<1>10. Trying'
  <2>1. ~is_stopped => Trials' > 0
    BY <1>7, InvCounts, TrialsType
  <2> QED BY <1>2, <2>1 DEF Trying
<1>11. Posting'
  <2>1. connection_type = "camera" /\ ~overlapped => Oks' = 0
    <3>1. connection_type = "camera" => ~late /\ ~late'
      BY DEF Inv, Kinds
    <3> QED BY <1>2, <3>1, InvCounts DEF Inv, Single, Trials
  <2>2. connection_type = "camera" /\ ~overlapped => After(SendHandlers)'
    BY <1>2, <2>1, NoneAfterPrimed
  <2> QED BY <1>1, <1>2, <2>2 DEF Posting, Live
<1> QED BY <1>4, <1>5, <1>6, <1>8, <1>9, <1>10, <1>11 DEF Inv

LEMMA RunTimerStep ==
  ASSUME Inv, RunTimer
  PROVE Inv'
<1>1. /\ Runs("timer") /\ Reconnect /\ late' = (late \/ ~is_connected)
      /\ UNCHANGED <<connection_type, timeouts, starts, overlapped, threw, is_stopped, armed, post, starter,
                     stopper, fault>>
  BY DEF RunTimer, threads
<1>2. "timer" \in Handlers /\ "timer" \notin ConnectHandlers /\ "timer" # "stop"
  BY DEF Handlers, ConnectHandlers
<1>3. connection_type # "camera"
  BY <1>1, InvCounts, HeadCounted DEF Inv, Kinds
<1>4. late' \in BOOLEAN /\ (~late' => ~late /\ is_connected)
  BY <1>1, Zenon
<1> QED BY <1>1, <1>2, <1>3, <1>4, ReconnectStep, Zenon

LEMMA StopStep ==
  ASSUME Inv, Stop
  PROVE Inv'
<1>1. /\ ~fault /\ stopper = "idle" /\ ~is_stopped /\ is_stopped' = TRUE /\ stopper' = "flagged"
      /\ UNCHANGED <<connection_type, timeouts, starts, late, overlapped, threw, is_connected, socket, reads,
                     sends, sleeping, frame, queue, raced, strand, armed, post, starter, fault>>
  BY DEF Stop, fixed, conn, ops
<1>2. /\ Attempts' = Attempts /\ Oks' = Oks /\ Readers' = Readers /\ Senders' = Senders
      /\ Timers' = Timers /\ Stops' = Stops /\ \A hs : After(hs) => After(hs)'
  BY <1>1, SameStrand
<1>3. TypeOK'
  BY <1>1 DEF Inv, TypeOK
<1>4. Kinds' /\ Stopping'
  BY <1>1, <1>2 DEF Inv, Kinds, Stopping
<1>5. Trials' = Trials \/ Trials' = Trials - 1
  BY <1>1, <1>2, InvCounts DEF Trials
<1>6. Single'
  BY <1>1, <1>2, <1>5, InvCounts, TrialsType DEF Inv, Single
<1>7. HasSocket' /\ Trying' /\ FaultOnlyRaced'
  BY <1>1 DEF Inv, HasSocket, Trying, FaultOnlyRaced
<1>8. Posting'
  BY <1>1 DEF Inv, Posting, Live
<1> QED BY <1>3, <1>4, <1>6, <1>7, <1>8 DEF Inv

LEMMA PostStopStep ==
  ASSUME Inv, PostStop
  PROVE Inv'
<1>1. /\ ~fault /\ stopper = "flagged" /\ stopper' = "waiting" /\ strand' = Append(strand, "stop")
      /\ UNCHANGED <<connection_type, timeouts, starts, late, overlapped, threw, is_stopped, is_connected,
                     socket, reads, sends, sleeping, frame, queue, raced, armed, post, starter, fault>>
  BY DEF PostStop, fixed, conn, ops
<1>2. /\ "stop" \in Handlers /\ "stop" \notin ConnectHandlers
      /\ "stop" \notin ReadHandlers /\ "stop" \notin SendHandlers
  BY DEF Handlers, ConnectHandlers, ReadHandlers, SendHandlers
<1>3. /\ strand' \in Seq(Handlers) /\ Attempts' = Attempts /\ Oks' = Oks
      /\ Readers' = Readers /\ Senders' = Senders /\ Timers' = Timers /\ Stops' = Stops + 1
  BY <1>1, <1>2, InvCounts, Posted
<1>4. TypeOK'
  BY <1>1, <1>3 DEF Inv, TypeOK
<1>5. Kinds' /\ Stopping'
  BY <1>1, <1>3 DEF Inv, Kinds, Stopping
<1>6. Trials' = Trials
  BY <1>1, <1>3 DEF Trials
<1>7. \A hs \in {ReadHandlers, SendHandlers} : After(hs) => After(hs)'
  BY <1>1, <1>2, InvCounts, AfterPosted
<1>8. Single' /\ HasSocket' /\ Trying' /\ FaultOnlyRaced'
  BY <1>1, <1>3, <1>6, <1>7 DEF Inv, Single, HasSocket, Trying, FaultOnlyRaced
<1>9. Posting'
  BY <1>1, <1>3, <1>7 DEF Inv, Posting, Live
<1> QED BY <1>4, <1>5, <1>8, <1>9 DEF Inv

LEMMA RunStopStep ==
  ASSUME Inv, RunStop
  PROVE Inv'
<1>1. /\ Runs("stop") /\ Disconnect /\ stopper' = "idle"
      /\ UNCHANGED <<connection_type, timeouts, starts, late, overlapped, threw, is_stopped, sleeping, armed,
                     post, starter, fault>>
  BY DEF RunStop, Kept, fixed
<1>2. "stop" \in Handlers /\ "stop" \notin ConnectHandlers
  BY DEF Handlers, ConnectHandlers
<1>3. /\ ~fault /\ ~sleeping
      /\ is_connected' = FALSE /\ socket' = "null" /\ reads' = 0 /\ sends' = 0 /\ queue' = 0
      /\ frame' = "none" /\ raced' = (post # "idle") /\ strand' \in Seq(Handlers)
      /\ Attempts' = Attempts + IF socket = "connecting" THEN 1 ELSE 0
      /\ Oks' = Oks
      /\ Readers' = Readers \/ Readers' = Readers - 1
      /\ Stops' = Stops - 1
      /\ connection_type = "headset" => Senders' = 0
      /\ connection_type = "camera" => Readers' = 0 /\ Timers' = 0
      /\ After(ReadHandlers) => After(ReadHandlers)'
  BY <1>1, <1>2, Lose, Zenon
<1>4. stopper = "waiting" /\ Stops = 1
  <2>1. Stops > 0
    BY <1>1, InvCounts, HeadCounted
  <2> QED BY <2>1 DEF Inv, Stopping
<1>5. ~overlapped => is_stopped
  BY <1>4 DEF Inv, Stopping
<1>6. TypeOK'
  <2>1. raced' \in BOOLEAN
    BY <1>3
  <2>2. queue' \in 0 .. MaxQueue
    BY <1>3, BoundsAssumption
  <2> QED BY <1>1, <1>3, <2>1, <2>2 DEF Inv, TypeOK
<1>7. Kinds'
  BY <1>1, <1>3 DEF Inv, Kinds
<1>8. Stopping'
  <2>1. post = "checked" => 0 < MaxQueue
    BY BoundsAssumption DEF Inv, Stopping, TypeOK
  <2> QED BY <1>1, <1>3, <1>4, <2>1 DEF Inv, Stopping
<1>9. Trials' = Trials
  BY <1>1, <1>3, InvCounts DEF Trials
<1>10. Single'
  <2>1. ASSUME ~late, ~overlapped
        PROVE  Trials <= 1 /\ Readers <= 1 /\ After(ReadHandlers)
    <3>1. reads \in Nat /\ Readers \in Nat /\ Trials \in Nat
      BY InvCounts, TrialsType DEF Inv, TypeOK
    <3>2. reads + Readers <= 1 /\ Trials + (IF is_connected THEN 1 ELSE 0) <= 1
      BY <2>1 DEF Inv, Single
    <3> QED BY <2>1, <3>1, <3>2 DEF Inv, Single
  <2>2. Readers \in Nat /\ Trials \in Nat
    BY InvCounts, TrialsType
  <2>3. ASSUME ~late, ~overlapped
        PROVE  reads' + Readers' <= 1
    <3> QED BY <1>3, <2>1, <2>2, <2>3
  <2>4. ASSUME ~late, ~overlapped
        PROVE  Trials' + (IF is_connected' THEN 1 ELSE 0) <= 1
    BY <1>3, <1>9, <2>1, <2>2, <2>4
  <2> QED BY <1>1, <1>3, <2>1, <2>3, <2>4 DEF Single
<1>11. HasSocket' /\ Trying' /\ FaultOnlyRaced'
  BY <1>1, <1>3, <1>5 DEF HasSocket, Trying, FaultOnlyRaced
<1>12. Posting'
  BY <1>1, <1>3, <1>5 DEF Posting, Live
<1> QED BY <1>6, <1>7, <1>8, <1>10, <1>11, <1>12 DEF Inv

-----------------------------------------------------------------------------
(* Every step keeps it: reading *)

LEMMA RunReadStep ==
  ASSUME Inv, NEW h \in Handlers, RunRead(h)
  PROVE Inv'
<1>1. /\ ~fault /\ ~sleeping /\ strand # <<>> /\ Runs(h) /\ strand' = Rest /\ strand' = Tail(strand)
      /\ h \in ReadHandlers
      /\ UNCHANGED <<connection_type, timeouts, starts, late, overlapped, threw, is_stopped, is_connected,
                     socket, sends, sleeping, queue, raced, post, starter, stopper>>
  BY DEF RunRead, Runs, Rest, ReadHandlers, fixed, threads
<1>2. connection_type = "headset" /\ Readers > 0
  BY <1>1, InvCounts, HeadCounted DEF Inv, Kinds, TypeOK
<1>3. /\ strand' \in Seq(Handlers) /\ Attempts' = Attempts /\ Oks' = Oks
      /\ Readers' = Readers - 1 /\ Senders' = Senders /\ Timers' = Timers /\ Stops' = Stops
  BY <1>1, ReadTaken
<1>4. \A hs : After(hs) => After(hs)'
  BY <1>1, InvCounts, AfterTaken
<1>5. Trials' = Trials
  BY <1>1, <1>3 DEF Trials
<1>6. reads \in Nat
  BY DEF Inv, TypeOK
<1>7. CASE Live
  <2>1. /\ armed' = TRUE
        /\ \/ socket # "null" /\ reads' = reads + 1 /\ fault' = fault
           \/ socket = "null" /\ fault' = TRUE /\ reads' = reads
        /\ frame' = IF frame = "torn" THEN "torn" ELSE IF h = "read_part" THEN "part" ELSE "none"
    BY <1>7 DEF RunRead, StartRead
  <2>2. /\ is_connected /\ ~is_stopped
        /\ ~overlapped /\ ~(late /\ threw) => socket # "null"
    BY <1>1, <1>7 DEF Inv, HasSocket, Live
  <2>3. TypeOK'
    <3>1. reads' \in Nat
      BY <1>6, <2>1
    <3>2. fault' \in BOOLEAN /\ armed' \in BOOLEAN
      BY <2>1 DEF Inv, TypeOK
    <3>3. frame' \in {"none", "part", "torn"}
      BY <2>1
    <3> QED BY <1>1, <1>3, <3>1, <3>2, <3>3 DEF Inv, TypeOK
  <2>4. Kinds' /\ Stopping'
    BY <1>1, <1>2, <1>3, <2>2 DEF Inv, Kinds, Stopping
  <2>5. ~overlapped /\ ~fault' => reads' + Readers' = reads + Readers
    BY <1>1, <1>3, <1>6, <2>1, <2>2, InvCounts
  <2>6. Single'
    <3>1. ~late /\ ~overlapped => reads' + Readers' = reads + Readers
      BY <1>1, <2>1, <2>2, <2>5
    <3> QED BY <1>1, <1>4, <1>5, <2>1, <2>2, <3>1 DEF Inv, Single
  <2>7. HasSocket' /\ Trying' /\ FaultOnlyRaced'
    <3>1. HasSocket'
      BY <1>1, <1>3, <2>2 DEF Inv, HasSocket
    <3>2. Trying'
      BY <1>1, <2>2, <2>5 DEF Inv, Trying
    <3>3. FaultOnlyRaced'
      BY <1>1, <2>1, <2>2 DEF FaultOnlyRaced
    <3> QED BY <3>1, <3>2, <3>3
  <2>8. Posting'
    BY <1>1, <1>2 DEF Posting
  <2> QED BY <2>3, <2>4, <2>6, <2>7, <2>8 DEF Inv
<1>8. CASE ~Live
  <2>1. armed' = FALSE /\ UNCHANGED <<reads, frame, fault>>
    BY <1>8 DEF RunRead
  <2>2. TypeOK'
    <3>1. armed' \in BOOLEAN
      BY <2>1
    <3> QED BY <1>1, <1>3, <2>1, <3>1 DEF Inv, TypeOK
  <2>3. Kinds' /\ Stopping'
    BY <1>1, <1>2, <1>3, <2>1 DEF Inv, Kinds, Stopping
  <2>4. Single'
    BY <1>1, <1>3, <1>4, <1>5, <1>6, <2>1, InvCounts DEF Inv, Single
  <2>5. HasSocket' /\ Trying' /\ FaultOnlyRaced'
    BY <1>1, <1>3, <1>5, <1>8, <2>1 DEF Inv, HasSocket, Trying, FaultOnlyRaced, Live
  <2>6. Posting'
    BY <1>1, <1>2 DEF Posting
  <2> QED BY <2>2, <2>3, <2>4, <2>5, <2>6 DEF Inv
<1> QED BY <1>7, <1>8

LEMMA RunReadErrorStep ==
  ASSUME Inv, RunReadError
  PROVE Inv'
<1>1. /\ ~fault /\ Runs("read_error") /\ armed' = FALSE
      /\ UNCHANGED <<connection_type, timeouts, starts, late, overlapped, threw, is_stopped, post, starter,
                     stopper, fault>>
  BY DEF RunReadError, Runs, fixed, threads
<1>2. /\ "read_error" \in Handlers /\ "read_error" \in ReadHandlers
      /\ "read_error" \notin ConnectHandlers /\ "read_error" # "stop"
  BY DEF Handlers, ConnectHandlers, ReadHandlers
<1>3. CASE Live
  <2>1. Reconnect /\ is_connected
    BY <1>3 DEF RunReadError, Live
  <2>2. late' \in BOOLEAN /\ (~late' => ~late /\ is_connected)
    BY <1>1, <2>1 DEF Inv, TypeOK
  <2> QED BY <1>1, <1>2, <2>1, <2>2, ReconnectStep, Zenon
<1>4. CASE ~Live
  <2>1. /\ strand' = Rest /\ strand' = Tail(strand) /\ strand # <<>>
        /\ UNCHANGED <<is_connected, socket, reads, sends, sleeping, frame, queue, raced>>
    BY <1>1, <1>4 DEF RunReadError, Runs, Rest, conn, ops
  <2>2. connection_type = "headset" /\ Readers > 0
    BY <1>1, <1>2, InvCounts, HeadCounted DEF Inv, Kinds, TypeOK
  <2>3. /\ strand' \in Seq(Handlers) /\ Attempts' = Attempts /\ Oks' = Oks
        /\ Readers' = Readers - 1 /\ Senders' = Senders /\ Timers' = Timers /\ Stops' = Stops
    BY <1>1, <1>2, <2>1, ReadTaken
  <2>4. \A hs : After(hs) => After(hs)'
    BY <2>1, InvCounts, AfterTaken
  <2>5. Trials' = Trials
    BY <1>1, <2>1, <2>3 DEF Trials
  <2>6. TypeOK'
    <3>1. armed' \in BOOLEAN
      BY <1>1
    <3> QED BY <1>1, <2>1, <2>3, <3>1 DEF Inv, TypeOK
  <2>7. Kinds' /\ Stopping'
    BY <1>1, <2>1, <2>2, <2>3 DEF Inv, Kinds, Stopping
  <2>8. Single'
    <3>1. reads \in Nat
      BY DEF Inv, TypeOK
    <3> QED BY <1>1, <2>1, <2>3, <2>4, <2>5, <3>1, InvCounts DEF Inv, Single
  <2>9. HasSocket' /\ Trying' /\ FaultOnlyRaced'
    BY <1>1, <1>4, <2>1, <2>3, <2>5 DEF Inv, HasSocket, Trying, FaultOnlyRaced, Live
  <2>10. Posting'
    BY <1>1, <2>2 DEF Posting
  <2> QED BY <2>6, <2>7, <2>8, <2>9, <2>10 DEF Inv
<1> QED BY <1>3, <1>4

-----------------------------------------------------------------------------
(* Every step keeps it: writing *)

\* Where a camera stands that is connected and has not lost a Post.
LEMMA CameraLive ==
  ASSUME Inv, connection_type = "camera", Live, ~raced, ~overlapped, ~fault
  PROVE /\ ~late /\ socket # "null"
        /\ post \in {"first", "send"} => queue > 0
        /\ sends + Senders = IF queue > 0 /\ post \notin {"first", "send"} THEN 1 ELSE 0
<1>1. ~late /\ is_connected /\ ~is_stopped
  BY DEF Inv, Kinds, Live
<1>2. socket # "null"
  BY <1>1 DEF Inv, Single
<1> QED BY <1>1, <1>2 DEF Inv, Posting

LEMMA PostCheckStep ==
  ASSUME Inv, PostCheck
  PROVE Inv'
<1>1. /\ ~fault /\ connection_type = "camera" /\ post = "idle" /\ queue < MaxQueue /\ Live
      /\ post' = "checked"
      /\ UNCHANGED <<connection_type, timeouts, starts, late, overlapped, threw, is_stopped, is_connected,
                     socket, reads, sends, sleeping, frame, queue, raced, strand, armed, starter,
                     stopper, fault>>
  BY DEF PostCheck, fixed, conn, ops
<1>2. /\ Attempts' = Attempts /\ Oks' = Oks /\ Readers' = Readers /\ Senders' = Senders
      /\ Timers' = Timers /\ Stops' = Stops /\ \A hs : After(hs) => After(hs)'
  BY <1>1, SameStrand
<1>3. TypeOK'
  BY <1>1 DEF Inv, TypeOK
<1>4. Kinds' /\ Stopping'
  BY <1>1, <1>2 DEF Inv, Kinds, Stopping
<1>5. Trials' = Trials
  BY <1>1, <1>2 DEF Trials
<1>6. Single' /\ HasSocket' /\ Trying' /\ FaultOnlyRaced'
  BY <1>1, <1>2, <1>5 DEF Inv, Single, HasSocket, Trying, FaultOnlyRaced
<1>7. Posting'
  BY <1>1, <1>2 DEF Inv, Posting, Live
<1> QED BY <1>3, <1>4, <1>6, <1>7 DEF Inv

LEMMA PostPushStep ==
  ASSUME Inv, PostPush
  PROVE Inv'
<1>1. /\ ~fault /\ post = "checked" /\ queue' = queue + 1
      /\ post' = IF queue = 0 THEN "first" ELSE "idle"
      /\ UNCHANGED <<connection_type, timeouts, starts, late, overlapped, threw, is_stopped, is_connected,
                     socket, reads, sends, sleeping, frame, raced, strand, armed, starter, stopper,
                     fault>>
  BY DEF PostPush, Push, fixed, ops
<1>2. /\ Attempts' = Attempts /\ Oks' = Oks /\ Readers' = Readers /\ Senders' = Senders
      /\ Timers' = Timers /\ Stops' = Stops /\ \A hs : After(hs) => After(hs)'
  BY <1>1, SameStrand
<1>3. connection_type = "camera" /\ queue \in Nat /\ queue < MaxQueue
  BY <1>1, BoundsAssumption DEF Inv, Kinds, TypeOK, Stopping
<1>4. TypeOK'
  <2>1. queue' \in 0 .. MaxQueue
    BY <1>1, <1>3, BoundsAssumption
  <2>2. post' \in {"idle", "checked", "first", "send"}
    BY <1>1
  <2> QED BY <1>1, <2>1, <2>2 DEF Inv, TypeOK
<1>5. Kinds' /\ Stopping'
  BY <1>1, <1>2, <1>3 DEF Inv, Kinds, Stopping
<1>6. Trials' = Trials
  BY <1>1, <1>2 DEF Trials
<1>7. Single' /\ HasSocket' /\ Trying' /\ FaultOnlyRaced'
  BY <1>1, <1>2, <1>6 DEF Inv, Single, HasSocket, Trying, FaultOnlyRaced
<1>8. Posting'
  <2>1. ASSUME ~raced, ~overlapped PROVE is_connected
    BY <1>1, <1>3, <2>1 DEF Inv, Posting
  <2>2. queue' > 0
    BY <1>1, <1>3
  <2>3. ASSUME ~raced, ~overlapped, Live
        PROVE sends + Senders = IF post' \in {"first", "send"} THEN 0 ELSE 1
    BY <1>1, <1>3, <2>3, CameraLive
  <2> QED BY <1>1, <1>2, <2>1, <2>2, <2>3 DEF Posting, Live
<1> QED BY <1>4, <1>5, <1>7, <1>8 DEF Inv

LEMMA PostSetupStep ==
  ASSUME Inv, PostSetup
  PROVE Inv'
<1>1. /\ ~fault /\ post = "first" /\ fault' = (queue = 0)
      /\ post' = IF Live THEN "send" ELSE "idle"
      /\ UNCHANGED <<connection_type, timeouts, starts, late, overlapped, threw, is_stopped, is_connected,
                     socket, reads, sends, sleeping, frame, queue, raced, strand, armed, starter,
                     stopper>>
  BY DEF PostSetup, fixed, conn, ops
<1>2. /\ Attempts' = Attempts /\ Oks' = Oks /\ Readers' = Readers /\ Senders' = Senders
      /\ Timers' = Timers /\ Stops' = Stops /\ \A hs : After(hs) => After(hs)'
  BY <1>1, SameStrand
<1>3. connection_type = "camera" /\ queue \in Nat
  BY <1>1, BoundsAssumption DEF Inv, Kinds, TypeOK
<1>4. ASSUME ~raced, ~overlapped PROVE is_connected /\ queue > 0
  BY <1>1, <1>3, <1>4 DEF Inv, Posting
<1>5. TypeOK'
  <2>1. fault' \in BOOLEAN /\ post' \in {"idle", "checked", "first", "send"}
    BY <1>1
  <2> QED BY <1>1, <2>1 DEF Inv, TypeOK
<1>6. Kinds' /\ Stopping'
  BY <1>1, <1>2, <1>3 DEF Inv, Kinds, Stopping
<1>7. Trials' = Trials
  BY <1>1, <1>2 DEF Trials
<1>8. Single' /\ HasSocket' /\ Trying'
  BY <1>1, <1>2, <1>7 DEF Inv, Single, HasSocket, Trying
<1>9. FaultOnlyRaced'
  <2>1. ASSUME ~raced, ~overlapped PROVE ~fault'
    <3>1. (queue = 0) = FALSE
      BY <1>3, <1>4, <2>1
    <3> QED BY <1>1, <3>1, Zenon
  <2> QED BY <1>1, <2>1 DEF FaultOnlyRaced
<1>10. Posting'
  <2>1. ASSUME ~raced, ~overlapped, Live PROVE sends + Senders = 0 /\ post' = "send"
    BY <1>1, <1>3, <2>1, CameraLive
  <2> QED BY <1>1, <1>2, <1>4, <2>1 DEF Posting, Live
<1> QED BY <1>5, <1>6, <1>8, <1>9, <1>10 DEF Inv

LEMMA PostSendStep ==
  ASSUME Inv, PostSend
  PROVE Inv'
<1>1. /\ ~fault /\ post = "send" /\ post' = "idle"
      /\ \/ socket # "null" /\ sends' = sends + 1 /\ fault' = fault
         \/ socket = "null" /\ fault' = TRUE /\ sends' = sends
      /\ UNCHANGED <<connection_type, timeouts, starts, late, overlapped, threw, is_stopped, is_connected,
                     socket, reads, sleeping, frame, queue, raced, strand, armed, starter, stopper>>
  BY DEF PostSend, StartSend, fixed
<1>2. /\ Attempts' = Attempts /\ Oks' = Oks /\ Readers' = Readers /\ Senders' = Senders
      /\ Timers' = Timers /\ Stops' = Stops /\ \A hs : After(hs) => After(hs)'
  BY <1>1, SameStrand
<1>3. connection_type = "camera" /\ sends \in Nat
  BY <1>1 DEF Inv, Kinds, TypeOK
<1>4. ASSUME ~raced, ~overlapped PROVE is_connected /\ queue > 0 /\ socket # "null"
  <2>1. is_connected /\ queue > 0
    BY <1>1, <1>3, <1>4 DEF Inv, Posting
  <2> QED BY <1>3, <1>4, <2>1 DEF Inv, Kinds, Single
<1>5. TypeOK'
  <2>1. sends' \in Nat
    BY <1>1, <1>3
  <2>2. fault' \in BOOLEAN
    BY <1>1 DEF Inv, TypeOK
  <2> QED BY <1>1, <2>1, <2>2 DEF Inv, TypeOK
<1>6. Kinds' /\ Stopping'
  BY <1>1, <1>2, <1>3 DEF Inv, Kinds, Stopping
<1>7. Trials' = Trials
  BY <1>1, <1>2 DEF Trials
<1>8. Single' /\ HasSocket' /\ Trying'
  BY <1>1, <1>2, <1>7 DEF Inv, Single, HasSocket, Trying
<1>9. FaultOnlyRaced'
  BY <1>1, <1>4 DEF FaultOnlyRaced
<1>10. Posting'
  <2>1. ASSUME ~raced, ~overlapped, Live PROVE sends + Senders = 0
    BY <1>1, <1>3, <2>1, CameraLive
  <2>2. ASSUME ~raced, ~overlapped, Live PROVE sends' + Senders = 1
    BY <1>1, <1>3, <1>4, <2>1, <2>2, InvCounts
  <2> QED BY <1>1, <1>2, <1>4, <2>2 DEF Posting, Live
<1> QED BY <1>5, <1>6, <1>8, <1>9, <1>10 DEF Inv

LEMMA RunSendStep ==
  ASSUME Inv, NEW h \in Handlers, RunSend(h)
  PROVE Inv'
<1>1. /\ ~fault /\ ~sleeping /\ strand # <<>> /\ Runs(h) /\ strand' = Rest /\ strand' = Tail(strand)
      /\ h \in SendHandlers
      /\ UNCHANGED <<connection_type, timeouts, starts, late, overlapped, threw, is_stopped, is_connected,
                     socket, reads, sleeping, frame, raced, armed, post, starter, stopper>>
  BY DEF RunSend, Runs, Rest, SendHandlers, fixed, threads
<1>2. connection_type = "camera" /\ Senders > 0
  BY <1>1, InvCounts, HeadCounted DEF Inv, Kinds, TypeOK
<1>3. /\ strand' \in Seq(Handlers) /\ Attempts' = Attempts /\ Oks' = Oks
      /\ Readers' = Readers /\ Senders' = Senders - 1 /\ Timers' = Timers /\ Stops' = Stops
  BY <1>1, SendTaken
<1>4. \A hs : After(hs) => After(hs)'
  BY <1>1, InvCounts, AfterTaken
<1>5. Trials' = Trials
  BY <1>1, <1>3 DEF Trials
<1>6. sends \in Nat /\ queue \in Nat /\ queue <= MaxQueue /\ MaxQueue \in Nat
  BY BoundsAssumption DEF Inv, TypeOK
<1>7. \/ ~Live /\ sends' = sends /\ queue' = queue /\ fault' = fault
      \/ Live /\ queue = 0 /\ fault' = TRUE /\ queue' = queue /\ sends' = sends
      \/ Live /\ queue = 1 /\ queue' = 0 /\ sends' = sends /\ fault' = fault
      \/ /\ Live /\ (queue' = queue \/ (queue > 1 /\ queue' = queue - 1))
         /\ \/ socket # "null" /\ sends' = sends + 1 /\ fault' = fault
            \/ socket = "null" /\ fault' = TRUE /\ sends' = sends
  <2>1. CASE ~Live
    BY <2>1 DEF RunSend
  <2>2. CASE Live /\ h = "send_frame"
    <3>1. PopFrame
      BY <2>2 DEF RunSend
    <3> QED BY <2>2, <3>1 DEF PopFrame, StartSend
  <2>3. CASE Live /\ h = "send_part"
    BY <2>3 DEF RunSend, StartSend
  <2> QED BY <2>1, <2>2, <2>3 DEF RunSend
<1>8. TypeOK'
  <2>1. sends' \in Nat
    BY <1>6, <1>7
  <2>2. queue' \in 0 .. MaxQueue
    BY <1>6, <1>7
  <2>3. fault' \in BOOLEAN
    BY <1>7 DEF Inv, TypeOK
  <2> QED BY <1>1, <1>3, <2>1, <2>2, <2>3 DEF Inv, TypeOK
<1>9. Kinds'
  BY <1>1, <1>2, <1>3 DEF Inv, Kinds
<1>10. Stopping'
  <2>1. queue' <= queue
    BY <1>6, <1>7
  <2>2. post = "checked" => queue' < MaxQueue
    <3>1. PICK q \in 0 .. MaxQueue : q = queue'
      BY <1>8 DEF TypeOK
    <3> QED BY <1>6, <2>1, <3>1 DEF Inv, Stopping
  <2> QED BY <1>1, <1>3, <2>2 DEF Inv, Stopping
<1>11. Single' /\ HasSocket'
  BY <1>1, <1>3, <1>4, <1>5 DEF Inv, Single, HasSocket
<1>12. Trying'
  BY <1>1, <1>2, <1>5 DEF Inv, Trying
<1>13. ASSUME ~raced, ~overlapped, Live
       PROVE /\ socket # "null" /\ queue > 0 /\ post \notin {"first", "send"} /\ sends = 0 /\ Senders = 1
  BY <1>1, <1>2, <1>6, <1>13, InvCounts, CameraLive
<1>14. FaultOnlyRaced'
  <2>1. ASSUME ~raced, ~overlapped PROVE ~fault'
    <3>1. CASE Live
      BY <1>1, <1>7, <1>13, <2>1, <3>1
    <3>2. CASE ~Live
      BY <1>1, <1>7, <3>2
    <3> QED BY <3>1, <3>2
  <2> QED BY <1>1, <2>1 DEF FaultOnlyRaced
<1>15. Posting'
  <2>1. ASSUME ~raced, ~overlapped, Live
        PROVE \/ queue' = 0 /\ sends' = 0
              \/ queue' > 0 /\ sends' = 1
    BY <1>6, <1>7, <1>13, <2>1
  <2>2. ASSUME ~raced, ~overlapped, Live PROVE Senders' = 0
    BY <1>3, <1>13, <2>2
  <2>3. ASSUME ~Live PROVE sends' = sends /\ queue' = queue
    BY <1>7, <2>3
  <2>4. ASSUME ~raced, ~overlapped, ~is_connected
        PROVE /\ queue' = 0 /\ post' = "idle" /\ sends' = 0
              /\ is_stopped' \/ After(SendHandlers)'
    BY <1>1, <1>2, <1>4, <2>3, <2>4 DEF Inv, Posting, Live
  <2>5. ASSUME ~raced, ~overlapped, is_connected, post \in {"first", "send"} PROVE queue' > 0
    BY <1>1, <1>2, <1>13, <2>3, <2>5 DEF Inv, Posting
  <2> QED BY <1>1, <1>13, <2>1, <2>2, <2>4, <2>5 DEF Posting, Live
<1> QED BY <1>8, <1>9, <1>10, <1>11, <1>12, <1>14, <1>15 DEF Inv

LEMMA RunSendErrorStep ==
  ASSUME Inv, RunSendError
  PROVE Inv'
<1>1. /\ ~fault /\ Runs("send_error")
      /\ UNCHANGED <<connection_type, timeouts, starts, late, overlapped, threw, is_stopped, armed, post,
                     starter, stopper, fault>>
  BY DEF RunSendError, Runs, fixed, threads
<1>2. /\ "send_error" \in Handlers /\ "send_error" \in SendHandlers
      /\ "send_error" \notin ConnectHandlers /\ "send_error" # "stop"
  BY DEF Handlers, ConnectHandlers, SendHandlers
<1>3. CASE Live
  <2>1. Reconnect /\ is_connected
    BY <1>3 DEF RunSendError, Live
  <2>2. late' \in BOOLEAN /\ (~late' => ~late /\ is_connected)
    BY <1>1, <2>1 DEF Inv, TypeOK
  <2> QED BY <1>1, <1>2, <2>1, <2>2, ReconnectStep, Zenon
<1>4. CASE ~Live
  <2>1. /\ strand' = Rest /\ strand' = Tail(strand) /\ strand # <<>>
        /\ UNCHANGED <<is_connected, socket, reads, sends, sleeping, frame, queue, raced>>
    BY <1>1, <1>4 DEF RunSendError, Runs, Rest, conn, ops
  <2>2. connection_type = "camera" /\ Senders > 0
    BY <1>1, <1>2, InvCounts, HeadCounted DEF Inv, Kinds, TypeOK
  <2>3. /\ strand' \in Seq(Handlers) /\ Attempts' = Attempts /\ Oks' = Oks
        /\ Readers' = Readers /\ Senders' = Senders - 1 /\ Timers' = Timers /\ Stops' = Stops
    BY <1>1, <1>2, <2>1, SendTaken
  <2>4. \A hs : After(hs) => After(hs)'
    BY <2>1, InvCounts, AfterTaken
  <2>5. Trials' = Trials
    BY <1>1, <2>1, <2>3 DEF Trials
  <2>6. TypeOK'
    BY <1>1, <2>1, <2>3 DEF Inv, TypeOK
  <2>7. Kinds' /\ Stopping'
    BY <1>1, <2>1, <2>2, <2>3 DEF Inv, Kinds, Stopping
  <2>8. Single' /\ HasSocket' /\ Trying' /\ FaultOnlyRaced'
    BY <1>1, <2>1, <2>3, <2>4, <2>5 DEF Inv, Single, HasSocket, Trying, FaultOnlyRaced
  <2>9. Posting'
    BY <1>1, <1>4, <2>1, <2>4 DEF Inv, Posting, Live
  <2> QED BY <2>6, <2>7, <2>8, <2>9 DEF Inv
<1> QED BY <1>3, <1>4

-----------------------------------------------------------------------------
(* The invariant holds *)

LEMMA InitInv == Init => Inv
<1> SUFFICES ASSUME Init PROVE Inv
  OBVIOUS
<1>1. PICK none \in Seq(Handlers) : none = <<>> /\ Len(none) = 0
  BY EmptySeq, Zenon
<1>2. strand = none
  BY <1>1 DEF Init
<1>3. \A hs : Waiting(hs) = 0
  <2>1. \A i \in 1 .. Len(none) : FALSE
    BY <1>1
  <2>2. \A hs : Occurs(none, hs) = 0
    BY <2>1, OccursNone
  <2> QED BY <1>2, <2>2, WaitingOccurs
<1>4. /\ Attempts = 0 /\ Oks = 0 /\ Readers = 0 /\ Senders = 0 /\ Timers = 0 /\ Stops = 0
  BY <1>3 DEF Attempts, Oks, Readers, Senders, Timers, Stops
<1>5. TypeOK
  <2>1. strand \in Seq(Handlers)
    BY <1>2
  <2>2. queue \in 0 .. MaxQueue /\ timeouts \in 0 .. MaxTimeouts /\ starts \in 0 .. MaxStarts
    BY BoundsAssumption DEF Init
  <2>3. reads \in Nat /\ sends \in Nat
    BY DEF Init
  <2> QED BY <2>1, <2>2, <2>3 DEF Init, TypeOK
<1>6. Trials = 0
  BY <1>4 DEF Init, Trials
<1>7. After(ReadHandlers) /\ After(SendHandlers)
  BY <1>1, <1>2 DEF After
<1>8. Kinds /\ Stopping
  BY <1>4 DEF Init, Kinds, Stopping
<1>9. Single
  BY <1>4, <1>6, <1>7 DEF Init, Single
<1>10. HasSocket /\ Trying /\ Posting /\ FaultOnlyRaced
  BY <1>7 DEF Init, HasSocket, Trying, Posting, FaultOnlyRaced, Live
<1> QED BY <1>5, <1>8, <1>9, <1>10 DEF Inv

LEMMA NextInv == Inv /\ [Next]_vars => Inv'
<1> SUFFICES ASSUME Inv, [Next]_vars PROVE Inv'
  OBVIOUS
<1>1. CASE Next
  <2>1. CASE \E ok \in BOOLEAN : ConnectDone(ok)
    BY <2>1, ConnectDoneStep
  <2>2. CASE \E h \in Handlers : TransferDone(h)
    BY <2>2, TransferDoneStep
  <2>3. CASE TimerFires \/ Start \/ StartConnection
    BY <2>3, TimerFiresStep, StartStep, StartConnectionStep
  <2>4. CASE Stop \/ PostStop
    BY <2>4, StopStep, PostStopStep
  <2>5. CASE PostCheck \/ PostPush \/ PostSetup \/ PostSend
    BY <2>5, PostCheckStep, PostPushStep, PostSetupStep, PostSendStep
  <2>6. CASE Wake \/ RunConnectOk \/ RunConnectError \/ RunTimer \/ RunStop
    BY <2>6, WakeStep, RunConnectOkStep, RunConnectErrorStep, RunTimerStep, RunStopStep
  <2>7. CASE \E h \in Handlers : RunRead(h) \/ RunSend(h)
    BY <2>7, RunReadStep, RunSendStep
  <2>8. CASE RunReadError \/ RunSendError
    BY <2>8, RunReadErrorStep, RunSendErrorStep
  <2> QED BY <1>1, <2>1, <2>2, <2>3, <2>4, <2>5, <2>6, <2>7, <2>8, Zenon DEF Next, Strand
<1>2. CASE UNCHANGED vars
  <2>1. UNCHANGED <<connection_type, timeouts, starts, late, overlapped, threw, is_stopped, is_connected,
                    socket, reads, sends, sleeping, frame, queue, raced, strand, armed, post, starter,
                    stopper, fault>>
    BY <1>2 DEF vars, fixed, conn, ops, threads
  <2>2. /\ Attempts' = Attempts /\ Oks' = Oks /\ Readers' = Readers /\ Senders' = Senders
        /\ Timers' = Timers /\ Stops' = Stops /\ \A hs : After(hs) => After(hs)'
    BY <2>1, SameStrand
  <2>3. Trials' = Trials
    BY <2>1, <2>2 DEF Trials
  <2>4. TypeOK' /\ Kinds' /\ Stopping'
    BY <2>1, <2>2 DEF Inv, TypeOK, Kinds, Stopping
  <2>5. Single' /\ HasSocket' /\ Trying' /\ FaultOnlyRaced'
    BY <2>1, <2>2, <2>3 DEF Inv, Single, HasSocket, Trying, FaultOnlyRaced
  <2>6. Posting'
    BY <2>1, <2>2 DEF Inv, Posting, Live
  <2> QED BY <2>4, <2>5, <2>6 DEF Inv
<1> QED BY <1>1, <1>2

LEMMA InvHolds == Spec => []Inv
BY InitInv, NextInv, PTL DEF Spec

-----------------------------------------------------------------------------
(* What it says *)

LEMMA CountsAre ==
  Chains = Trials /\ Reads = reads + Readers /\ Sends = sends + Senders
BY DEF Chains, Trials, Attempts, ConnectHandlers, Reads, Readers, Sends, Senders

\* A client that was started gives up only when the exception of a fixed port left its
\* last attempt: otherwise startConnection and reconnect leave an attempt behind
\* whatever fails, and a headset that is connected is reading.
THEOREM ClientNeverGivesUp == Spec => []NeverAbandoned
<1>1. Inv => NeverAbandoned
  BY CountsAre, TrialsType, InvCounts DEF Inv, Trying, NeverAbandoned
<1> QED BY <1>1, InvHolds, PTL

\* A client has one attempt or one connection, one read, and never loses count within
\* a frame, until the read timer runs without a connection or Start overtakes Stop.
THEOREM ClientHasOneConnection == Spec => []OneConnection
<1>1. Inv => OneConnection
  BY CountsAre DEF Inv, Single, OneConnection
<1> QED BY <1>1, InvHolds, PTL

\* What a connected camera has queued is being sent, one buffer at a time, but for a
\* Post under way when a connection was lost or a Start that overtook a Stop.
THEOREM CameraSendsWhatIsQueued == Spec => []Sending
<1>1. Inv => Sending
  <2> SUFFICES ASSUME Inv, ~raced, ~overlapped, Live
               PROVE Sends <= 1 /\ (queue > 0 /\ post = "idle" => Sends = 1)
    BY DEF Sending
  <2>2. CASE connection_type = "camera"
    <3>1. ~fault
      BY <2>2 DEF Inv, Kinds, FaultOnlyRaced
    <3> QED BY <2>2, <3>1, CameraLive, CountsAre
  <2>3. CASE connection_type = "headset"
    BY <2>3, CountsAre DEF Inv, Kinds
  <2> QED BY <2>2, <2>3 DEF Inv, TypeOK
<1> QED BY <1>1, InvHolds, PTL

\* writeHeader, writeBody and Post find the queue empty, and a call finds no socket,
\* only after such a Post or Start, or a late timer and an attempt left by an exception.
THEOREM ClientFaultsOnlyRaced == Spec => []FaultOnlyRaced
<1>1. Inv => FaultOnlyRaced
  BY DEF Inv
<1> QED BY <1>1, InvHolds, PTL

=============================================================================
