----------------------- MODULE WebsocketClientProofs -----------------------
(***************************************************************************)
(* Proofs about WebsocketClient: one chain of attempts, one write at a     *)
(* time, and every message written once and in order; for any bounds.      *)
(***************************************************************************)
EXTENDS WebsocketClient, FiniteSetTheorems, SequenceTheorems, TLAPS

-----------------------------------------------------------------------------
(* Counting the elements of a sequence *)

Places(s, hs) == {i \in DOMAIN s : s[i] \in hs}
Occurs(s, hs) == Cardinality(Places(s, hs))

\* The places are finitely many.
LEMMA PlacesFinite ==
  ASSUME NEW S, NEW s \in Seq(S), NEW hs
  PROVE IsFiniteSet(Places(s, hs)) /\ Occurs(s, hs) \in Nat
<1>1. DOMAIN s = 1 .. Len(s) /\ 1 \in Int /\ Len(s) \in Int
  OBVIOUS
<1>2. IsFiniteSet(1 .. Len(s))
  BY <1>1, FS_Interval
<1>3. Places(s, hs) \in SUBSET (1 .. Len(s))
  BY <1>1 DEF Places
<1>4. IsFiniteSet(Places(s, hs))
  BY <1>2, <1>3, FS_Subset
<1> QED BY <1>4, FS_CardinalityType DEF Occurs

\* There are none exactly when the count is zero.
LEMMA OccursNone ==
  ASSUME NEW S, NEW s \in Seq(S), NEW hs
  PROVE Occurs(s, hs) = 0 <=> \A i \in 1 .. Len(s) : s[i] \notin hs
<1>1. DOMAIN s = 1 .. Len(s)
  OBVIOUS
<1>2. Cardinality(Places(s, hs)) = 0 <=> Places(s, hs) = {}
  BY PlacesFinite, FS_EmptySet
<1> QED BY <1>1, <1>2 DEF Occurs, Places

\* An element more at the end.
LEMMA OccursAppend ==
  ASSUME NEW S, NEW s \in Seq(S), NEW e \in S, NEW hs
  PROVE Occurs(Append(s, e), hs) = Occurs(s, hs) + IF e \in hs THEN 1 ELSE 0
<1> DEFINE n == Len(s) + 1
<1>1. DOMAIN s = 1 .. Len(s) /\ Len(s) \in Nat /\ DOMAIN Append(s, e) = 1 .. n
  OBVIOUS
<1>2. Append(s, e)[n] = e /\ \A i \in 1 .. Len(s) : Append(s, e)[i] = s[i]
  OBVIOUS
<1>3. n \notin Places(s, hs)
  BY <1>1 DEF Places
<1>4. IsFiniteSet(Places(s, hs)) /\ Occurs(s, hs) \in Nat
  BY PlacesFinite
<1>5. CASE e \in hs
  <2>1. Places(Append(s, e), hs) = Places(s, hs) \union {n}
    BY <1>1, <1>2, <1>5 DEF Places
  <2> QED BY <1>3, <1>4, <1>5, <2>1, FS_AddElement DEF Occurs
<1>6. CASE e \notin hs
  <2>1. Places(Append(s, e), hs) = Places(s, hs)
    BY <1>1, <1>2, <1>6 DEF Places
  <2> QED BY <1>4, <1>6, <2>1 DEF Occurs
<1> QED BY <1>5, <1>6

\* One sequence after another.
LEMMA OccursConcat ==
  ASSUME NEW S, NEW s \in Seq(S), NEW t \in Seq(S), NEW hs
  PROVE Occurs(s \o t, hs) = Occurs(s, hs) + Occurs(t, hs)
<1> DEFINE m == Len(s)
           A == Places(s, hs)
           B == Places(t, hs)
           C == {i \in (m + 1) .. (m + Len(t)) : t[i - m] \in hs}
<1>1. /\ DOMAIN s = 1 .. m /\ m \in Nat /\ DOMAIN t = 1 .. Len(t) /\ Len(t) \in Nat
      /\ DOMAIN (s \o t) = 1 .. (m + Len(t))
  OBVIOUS
<1>2. \A i \in 1 .. (m + Len(t)) : (s \o t)[i] = IF i <= m THEN s[i] ELSE t[i - m]
  OBVIOUS
<1>3. Places(s \o t, hs) = A \union C
  <2>1. ASSUME NEW i \in Places(s \o t, hs) PROVE i \in A \union C
    <3>1. i \in 1 .. (m + Len(t)) /\ (s \o t)[i] \in hs
      BY <1>1 DEF Places
    <3>2. CASE i <= m
      BY <1>1, <1>2, <3>1, <3>2 DEF Places
    <3>3. CASE ~(i <= m)
      BY <1>1, <1>2, <3>1, <3>3
    <3> QED BY <3>2, <3>3
  <2>2. ASSUME NEW i \in A PROVE i \in Places(s \o t, hs)
    <3>1. i \in 1 .. m /\ s[i] \in hs /\ i \in 1 .. (m + Len(t)) /\ i <= m
      BY <1>1 DEF Places
    <3> QED BY <1>1, <1>2, <3>1 DEF Places
  <2>3. ASSUME NEW i \in C PROVE i \in Places(s \o t, hs)
    <3>1. i \in 1 .. (m + Len(t)) /\ ~(i <= m) /\ t[i - m] \in hs
      BY <1>1
    <3> QED BY <1>1, <1>2, <3>1 DEF Places
  <2> QED BY <2>1, <2>2, <2>3
<1>4. A \cap C = {}
  BY <1>1 DEF Places
<1>5. IsFiniteSet(A) /\ IsFiniteSet(B)
  BY PlacesFinite
<1>6. IsFiniteSet(C) /\ Cardinality(C) = Cardinality(B)
  <2> DEFINE f == [i \in B |-> i + m]
  <2>1. \A i \in B : i \in 1 .. Len(t) /\ t[i] \in hs
    BY <1>1 DEF Places
  <2>2. \A i \in B : f[i] \in C
    <3> TAKE i \in B
    <3>1. i + m \in (m + 1) .. (m + Len(t)) /\ (i + m) - m = i
      BY <1>1, <2>1
    <3> QED BY <2>1, <3>1
  <2>3. \A i, j \in B : f[i] = f[j] => i = j
    BY <1>1, <2>1
  <2>4. \A i \in C : \E j \in B : f[j] = i
    <3> TAKE i \in C
    <3>1. i - m \in 1 .. Len(t) /\ (i - m) + m = i
      BY <1>1
    <3>2. i - m \in B
      BY <1>1, <3>1 DEF Places
    <3> QED BY <3>1, <3>2
  <2>5. f \in [B -> C]
    BY <2>2
  <2>6. f \in Bijection(B, C)
    BY <2>3, <2>4, <2>5, Zenon DEF Bijection, Injection, Surjection, IsInjective
  <2>7. ExistsBijection(B, C)
    BY <2>6, Zenon DEF ExistsBijection
  <2> HIDE DEF C, B, f
  <2> QED BY <1>5, <2>7, FS_Bijection
<1>7. Cardinality(A \union C) = Cardinality(A) + Cardinality(C) - Cardinality(A \cap C)
  <2> HIDE DEF C, A
  <2> QED BY <1>5, <1>6, FS_Union
<1>8. Cardinality(A \cap C) = 0
  BY <1>4, FS_EmptySet
<1>9. Cardinality(A) \in Nat /\ Cardinality(C) \in Nat
  BY <1>5, <1>6, FS_CardinalityType
<1> HIDE DEF A, B, C
<1>10. Occurs(s, hs) = Cardinality(A) /\ Occurs(t, hs) = Cardinality(B)
  BY DEF Occurs, A, B
<1> QED BY <1>3, <1>6, <1>7, <1>8, <1>9, <1>10 DEF Occurs

\* The first element, and the others.
LEMMA OccursHead ==
  ASSUME NEW S, NEW s \in Seq(S), s # <<>>, NEW hs
  PROVE Occurs(s, hs) = Occurs(Tail(s), hs) + IF Head(s) \in hs THEN 1 ELSE 0
<1>1. s = <<Head(s)>> \o Tail(s) /\ Head(s) \in S /\ Tail(s) \in Seq(S)
  BY HeadTailProperties
<1>2. PICK none \in Seq(S) : none = <<>> /\ Len(none) = 0
  BY EmptySeq, Zenon
<1>3. Occurs(none, hs) = 0
  <2>1. \A i \in 1 .. Len(none) : none[i] \notin hs
    BY <1>2
  <2> QED BY <2>1, OccursNone
<1>4. PICK one \in Seq(S) : one = <<Head(s)>> /\ one = Append(none, Head(s))
  <2>1. Append(none, Head(s)) \in Seq(S)
    BY <1>1, <1>2, AppendProperties
  <2>2. Append(none, Head(s)) = <<Head(s)>>
    BY <1>2
  <2> QED BY <2>1, <2>2, Zenon
<1>5. Occurs(one, hs) = 0 + IF Head(s) \in hs THEN 1 ELSE 0
  <2>1. Occurs(Append(none, Head(s)), hs) = Occurs(none, hs) + IF Head(s) \in hs THEN 1 ELSE 0
    BY <1>1, OccursAppend
  <2> QED BY <1>3, <1>4, <2>1
<1>6. Occurs(s, hs) = Occurs(one, hs) + Occurs(Tail(s), hs)
  <2>1. Occurs(one \o Tail(s), hs) = Occurs(one, hs) + Occurs(Tail(s), hs)
    BY <1>1, OccursConcat
  <2> QED BY <1>1, <1>4, <2>1
<1>7. Occurs(Tail(s), hs) \in Nat
  BY <1>1, PlacesFinite
<1> QED BY <1>5, <1>6, <1>7

-----------------------------------------------------------------------------
(* The elements of a sequence, and in which order they come *)

Elems(s) == {s[i] : i \in 1 .. Len(s)}

\* Any two elements, one before the other, are related.
Ordered(s, R) == \A i, j \in 1 .. Len(s) : i < j => <<s[i], s[j]>> \in R

LEMMA AppendElems ==
  ASSUME NEW S, NEW s \in Seq(S), NEW e \in S
  PROVE  /\ Append(s, e) \in Seq(S)
         /\ Elems(Append(s, e)) = Elems(s) \union {e}
         /\ \A R : Ordered(s, R) /\ (\A d \in Elems(s) : <<d, e>> \in R) => Ordered(Append(s, e), R)
<1> DEFINE t == Append(s, e)
           n == Len(s)
<1>1. /\ n \in Nat /\ t \in Seq(S) /\ Len(t) = n + 1 /\ t[n + 1] = e
      /\ \A i \in 1 .. n : t[i] = s[i]
  BY LenProperties, AppendProperties
<1> HIDE DEF t, n
<1>2. 1 .. n + 1 = (1 .. n) \union {n + 1}
  BY <1>1
<1>3. Elems(t) = Elems(s) \union {e}
  <2>1. Elems(t) = {t[i] : i \in (1 .. n) \union {n + 1}}
    BY <1>1, <1>2 DEF Elems
  <2>2. Elems(s) = {s[i] : i \in 1 .. n}
    BY DEF Elems, n
  <2> QED BY <1>1, <2>1, <2>2
<1>4. ASSUME NEW R, Ordered(s, R), \A d \in Elems(s) : <<d, e>> \in R
      PROVE  Ordered(t, R)
  <2> SUFFICES ASSUME NEW i \in 1 .. n + 1, NEW j \in 1 .. n + 1, i < j
               PROVE  <<t[i], t[j]>> \in R
    BY <1>1 DEF Ordered
  <2>1. i \in 1 .. n
    BY <1>1
  <2>2. CASE j = n + 1
    <3>1. s[i] \in Elems(s)
      BY <2>1 DEF Elems, n
    <3> QED BY <1>1, <1>4, <2>1, <2>2, <3>1
  <2>3. CASE j # n + 1
    <3>1. j \in 1 .. n
      BY <1>1, <2>3
    <3>2. <<s[i], s[j]>> \in R
      BY <1>4, <2>1, <3>1 DEF Ordered, n
    <3> QED BY <1>1, <2>1, <3>1, <3>2
  <2> QED BY <2>2, <2>3
<1> QED BY <1>1, <1>3, <1>4 DEF t

LEMMA TailElems ==
  ASSUME NEW S, NEW s \in Seq(S), s # <<>>
  PROVE  /\ Head(s) \in S /\ Tail(s) \in Seq(S)
         /\ Elems(s) = Elems(Tail(s)) \union {Head(s)}
         /\ \A R : Ordered(s, R) => /\ Ordered(Tail(s), R)
                                   /\ \A d \in Elems(Tail(s)) : <<Head(s), d>> \in R
<1> DEFINE t == Tail(s)
           n == Len(s)
<1>1. /\ n \in Nat \ {0} /\ t \in Seq(S) /\ Len(t) = n - 1 /\ Head(s) = s[1] /\ Head(s) \in S
      /\ \A i \in 1 .. n - 1 : t[i] = s[i + 1]
  BY HeadTailProperties, LenProperties, EmptySeq
<1> HIDE DEF t, n
<1>2. Elems(s) = Elems(t) \union {Head(s)}
  <2>1. ASSUME NEW i \in 1 .. n PROVE s[i] \in Elems(t) \union {Head(s)}
    <3>1. CASE i = 1
      BY <1>1, <3>1
    <3>2. CASE i # 1
      <4>1. i - 1 \in 1 .. n - 1 /\ (i - 1) + 1 = i
        BY <1>1, <3>2
      <4>2. s[i] = t[i - 1]
        BY <1>1, <4>1
      <4> QED BY <1>1, <4>1, <4>2 DEF Elems
    <3> QED BY <3>1, <3>2
  <2>2. ASSUME NEW i \in 1 .. n - 1 PROVE t[i] \in Elems(s)
    <3>1. i + 1 \in 1 .. n
      BY <1>1
    <3> QED BY <1>1, <3>1 DEF Elems, n
  <2>3. Head(s) \in Elems(s)
    <3>1. 1 \in 1 .. n
      BY <1>1
    <3> QED BY <1>1, <3>1 DEF Elems, n
  <2>4. Elems(s) = {s[i] : i \in 1 .. n} /\ Elems(t) = {t[i] : i \in 1 .. n - 1}
    BY <1>1 DEF Elems, n
  <2> QED BY <2>1, <2>2, <2>3, <2>4
<1>3. ASSUME NEW R, Ordered(s, R)
      PROVE  Ordered(t, R) /\ \A d \in Elems(t) : <<Head(s), d>> \in R
  <2>1. ASSUME NEW i \in 1 .. n, NEW j \in 1 .. n, i < j PROVE <<s[i], s[j]>> \in R
    BY <1>3, <2>1 DEF Ordered, n
  <2>2. ASSUME NEW i \in 1 .. n - 1, NEW j \in 1 .. n - 1, i < j PROVE <<t[i], t[j]>> \in R
    <3>1. i + 1 \in 1 .. n /\ j + 1 \in 1 .. n /\ i + 1 < j + 1
      BY <1>1, <2>2
    <3> QED BY <1>1, <2>1, <3>1
  <2>3. ASSUME NEW i \in 1 .. n - 1 PROVE <<Head(s), t[i]>> \in R
    <3>1. 1 \in 1 .. n /\ i + 1 \in 1 .. n /\ 1 < i + 1
      BY <1>1
    <3> QED BY <1>1, <2>1, <3>1
  <2> QED BY <1>1, <2>2, <2>3 DEF Ordered, Elems
<1> QED BY <1>1, <1>2, <1>3 DEF t

LEMMA ConcatElems ==
  ASSUME NEW S, NEW s \in Seq(S), NEW t \in Seq(S)
  PROVE  /\ s \o t \in Seq(S)
         /\ Elems(s \o t) = Elems(s) \union Elems(t)
         /\ \A R : Ordered(s, R) /\ Ordered(t, R) /\ (\A d \in Elems(s), e \in Elems(t) : <<d, e>> \in R)
                 => Ordered(s \o t, R)
<1> DEFINE u == s \o t
           m == Len(s)
           n == Len(t)
<1>1. /\ m \in Nat /\ n \in Nat /\ u \in Seq(S) /\ Len(u) = m + n
      /\ \A i \in 1 .. m + n : u[i] = IF i <= m THEN s[i] ELSE t[i - m]
  BY LenProperties, ConcatProperties
<1> HIDE DEF u, m, n
<1>2. ASSUME NEW i \in 1 .. m + n
      PROVE  \/ i \in 1 .. m /\ u[i] = s[i] /\ s[i] \in Elems(s)
             \/ ~(i <= m) /\ i - m \in 1 .. n /\ u[i] = t[i - m] /\ t[i - m] \in Elems(t)
  <2>1. CASE i <= m
    <3>1. i \in 1 .. m
      BY <1>1, <2>1
    <3> QED BY <1>1, <2>1, <3>1 DEF Elems, m
  <2>2. CASE ~(i <= m)
    <3>1. i - m \in 1 .. n
      BY <1>1, <2>2
    <3> QED BY <1>1, <2>2, <3>1 DEF Elems, n
  <2> QED BY <2>1, <2>2
<1>3. ASSUME NEW i \in 1 .. m PROVE s[i] \in Elems(u)
  <2>1. i \in 1 .. m + n /\ i <= m
    BY <1>1
  <2>2. u[i] = s[i]
    BY <1>1, <2>1
  <2> QED BY <1>1, <2>1, <2>2 DEF Elems
<1>4. ASSUME NEW i \in 1 .. n PROVE t[i] \in Elems(u)
  <2>1. i + m \in 1 .. m + n /\ ~(i + m <= m) /\ (i + m) - m = i
    BY <1>1
  <2>2. u[i + m] = t[i]
    BY <1>1, <2>1
  <2> QED BY <1>1, <2>1, <2>2 DEF Elems
<1>5. Elems(u) = Elems(s) \union Elems(t)
  <2>1. Elems(u) = {u[i] : i \in 1 .. m + n}
    BY <1>1 DEF Elems
  <2>2. Elems(s) = {s[i] : i \in 1 .. m} /\ Elems(t) = {t[i] : i \in 1 .. n}
    BY DEF Elems, m, n
  <2>3. Elems(u) \subseteq Elems(s) \union Elems(t)
    BY <1>2, <2>1
  <2>4. Elems(s) \subseteq Elems(u) /\ Elems(t) \subseteq Elems(u)
    BY <1>3, <1>4, <2>2
  <2> QED BY <2>3, <2>4
<1>6. ASSUME NEW R, Ordered(s, R), Ordered(t, R), \A d \in Elems(s), e \in Elems(t) : <<d, e>> \in R
      PROVE  Ordered(u, R)
  <2> SUFFICES ASSUME NEW i \in 1 .. m + n, NEW j \in 1 .. m + n, i < j
               PROVE  <<u[i], u[j]>> \in R
    BY <1>1 DEF Ordered
  <2>1. CASE i \in 1 .. m /\ j \in 1 .. m
    <3>1. <<s[i], s[j]>> \in R
      BY <1>6, <2>1 DEF Ordered, m
    <3>2. u[i] = s[i] /\ u[j] = s[j]
      BY <1>1, <2>1
    <3> QED BY <3>1, <3>2
  <2>2. CASE ~(i <= m) /\ ~(j <= m)
    <3>1. i - m \in 1 .. n /\ j - m \in 1 .. n /\ i - m < j - m
      BY <1>1, <2>2
    <3>2. <<t[i - m], t[j - m]>> \in R
      BY <1>6, <3>1 DEF Ordered, n
    <3> QED BY <1>1, <2>2, <3>2
  <2>3. CASE i \in 1 .. m /\ ~(j <= m)
    BY <1>2, <1>6, <2>3
  <2> QED BY <1>1, <2>1, <2>2, <2>3
<1> QED BY <1>1, <1>5, <1>6 DEF u

-----------------------------------------------------------------------------
(* Counting the handlers and the operations of a session *)

ChainOps == {"connect", "handshake", "read", "close"}
Results == {"ok", "bad", "error"}
OpType == [op : ChainOps \union {"write"}, num : Nat, msg : 0 .. MaxMessages]
HandlerType ==
  [op : ChainOps \union {"write", "post", "stop"}, num : Nat, msg : 0 .. MaxMessages, result : Results]

\* Whether a handler or an operation is one of hs, of session n.
Counts(h, n, hs) == h.num = n /\ h.op \in hs

\* Handling and Doing, of any sequence and set.
HandlerCount(s, n, hs) == Cardinality({i \in DOMAIN s : s[i].num = n /\ s[i].op \in hs})
OpCount(S, n, hs) == Cardinality({o \in S : o.num = n /\ o.op \in hs})

Selected(n, hs) == {h \in HandlerType : h.num = n /\ h.op \in hs}

LEMMA CountOccurs ==
  ASSUME NEW s \in Seq(HandlerType), NEW n, NEW hs
  PROVE  HandlerCount(s, n, hs) = Occurs(s, Selected(n, hs))
<1>1. DOMAIN s = 1 .. Len(s) /\ \A i \in 1 .. Len(s) : s[i] \in HandlerType
  BY LenProperties
<1>2. {i \in DOMAIN s : s[i].num = n /\ s[i].op \in hs} = Places(s, Selected(n, hs))
  BY <1>1 DEF Places, Selected
<1> QED BY <1>2 DEF HandlerCount, Occurs

LEMMA CountNone ==
  ASSUME NEW s \in Seq(HandlerType), NEW n, NEW hs
  PROVE  /\ HandlerCount(s, n, hs) \in Nat
         /\ HandlerCount(s, n, hs) = 0 <=> \A h \in Elems(s) : ~(h.num = n /\ h.op \in hs)
<1>1. \A i \in 1 .. Len(s) : s[i] \in HandlerType
  BY LenProperties
<1>2. Occurs(s, Selected(n, hs)) = 0 <=> \A i \in 1 .. Len(s) : s[i] \notin Selected(n, hs)
  BY OccursNone
<1>3. (\A i \in 1 .. Len(s) : s[i] \notin Selected(n, hs))
        <=> \A h \in Elems(s) : ~(h.num = n /\ h.op \in hs)
  BY <1>1 DEF Elems, Selected
<1> QED BY <1>2, <1>3, CountOccurs, PlacesFinite

LEMMA CountAppend ==
  ASSUME NEW s \in Seq(HandlerType), NEW h \in HandlerType, NEW n, NEW hs
  PROVE  HandlerCount(Append(s, h), n, hs)
           = HandlerCount(s, n, hs) + IF Counts(h, n, hs) THEN 1 ELSE 0
<1>1. Append(s, h) \in Seq(HandlerType)
  BY AppendProperties
<1>2. Occurs(Append(s, h), Selected(n, hs))
        = Occurs(s, Selected(n, hs)) + IF h \in Selected(n, hs) THEN 1 ELSE 0
  BY OccursAppend
<1>3. h \in Selected(n, hs) <=> Counts(h, n, hs)
  BY DEF Selected, Counts
<1> QED BY <1>1, <1>2, <1>3, CountOccurs

LEMMA CountTail ==
  ASSUME NEW s \in Seq(HandlerType), s # <<>>, NEW n, NEW hs
  PROVE  HandlerCount(s, n, hs)
           = HandlerCount(Tail(s), n, hs) + IF Counts(Head(s), n, hs) THEN 1 ELSE 0
<1>1. Head(s) \in HandlerType /\ Tail(s) \in Seq(HandlerType)
  BY HeadTailProperties
<1>2. Occurs(s, Selected(n, hs))
        = Occurs(Tail(s), Selected(n, hs)) + IF Head(s) \in Selected(n, hs) THEN 1 ELSE 0
  BY OccursHead
<1>3. Head(s) \in Selected(n, hs) <=> Counts(Head(s), n, hs)
  BY <1>1 DEF Selected, Counts
<1> QED BY <1>1, <1>2, <1>3, CountOccurs

LEMMA CountConcat ==
  ASSUME NEW s \in Seq(HandlerType), NEW t \in Seq(HandlerType), NEW n, NEW hs
  PROVE  HandlerCount(s \o t, n, hs) = HandlerCount(s, n, hs) + HandlerCount(t, n, hs)
<1>1. s \o t \in Seq(HandlerType)
  BY ConcatProperties
<1>2. Occurs(s \o t, Selected(n, hs)) = Occurs(s, Selected(n, hs)) + Occurs(t, Selected(n, hs))
  BY OccursConcat
<1>3. /\ HandlerCount(s \o t, n, hs) = Occurs(s \o t, Selected(n, hs))
      /\ HandlerCount(s, n, hs) = Occurs(s, Selected(n, hs))
      /\ HandlerCount(t, n, hs) = Occurs(t, Selected(n, hs))
  BY <1>1, CountOccurs
<1> QED BY <1>2, <1>3

LEMMA OpCountNone ==
  ASSUME NEW S, IsFiniteSet(S), NEW n, NEW hs
  PROVE  /\ IsFiniteSet({o \in S : o.num = n /\ o.op \in hs})
         /\ OpCount(S, n, hs) \in Nat
         /\ OpCount(S, n, hs) = 0 <=> \A o \in S : ~(o.num = n /\ o.op \in hs)
<1> DEFINE T == {o \in S : o.num = n /\ o.op \in hs}
<1>1. T \in SUBSET S
  OBVIOUS
<1>2. IsFiniteSet(T)
  BY <1>1, FS_Subset
<1>3. Cardinality(T) \in Nat /\ (Cardinality(T) = 0 <=> T = {})
  BY <1>2, FS_CardinalityType, FS_EmptySet
<1> QED BY <1>2, <1>3 DEF OpCount

LEMMA OpCountAdd ==
  ASSUME NEW S, IsFiniteSet(S), NEW o, o \notin S, NEW n, NEW hs
  PROVE  /\ IsFiniteSet(S \union {o})
         /\ OpCount(S \union {o}, n, hs)
              = OpCount(S, n, hs) + IF Counts(o, n, hs) THEN 1 ELSE 0
<1> DEFINE T == {p \in S : p.num = n /\ p.op \in hs}
           U == {p \in S \union {o} : p.num = n /\ p.op \in hs}
<1>1. IsFiniteSet(S \union {o})
  BY FS_AddElement
<1>2. IsFiniteSet(T) /\ Cardinality(T) \in Nat
  BY OpCountNone DEF OpCount
<1>3. CASE Counts(o, n, hs)
  <2>1. U = T \union {o} /\ o \notin T
    BY <1>3 DEF Counts
  <2>2. Cardinality(U) = Cardinality(T) + 1
    BY <1>2, <2>1, FS_AddElement
  <2> QED BY <1>1, <1>3, <2>2 DEF OpCount
<1>4. CASE ~Counts(o, n, hs)
  <2>1. U = T
    BY <1>4 DEF Counts
  <2>2. OpCount(S \union {o}, n, hs) = Cardinality(T) /\ OpCount(S, n, hs) = Cardinality(T)
    BY <2>1 DEF OpCount
  <2> HIDE DEF T, U
  <2>3. Cardinality(T) = Cardinality(T) + 0
    BY <1>2
  <2> QED BY <1>1, <1>4, <2>2, <2>3
<1> QED BY <1>3, <1>4

LEMMA OpCountRemove ==
  ASSUME NEW S, IsFiniteSet(S), NEW o \in S, NEW n, NEW hs
  PROVE  OpCount(S, n, hs) = OpCount(S \ {o}, n, hs) + IF Counts(o, n, hs) THEN 1 ELSE 0
<1>1. S \ {o} \in SUBSET S /\ o \notin S \ {o} /\ (S \ {o}) \union {o} = S
  OBVIOUS
<1>2. IsFiniteSet(S \ {o})
  BY <1>1, FS_Subset
<1> HIDE <1>1
<1>3. OpCount((S \ {o}) \union {o}, n, hs)
        = OpCount(S \ {o}, n, hs) + IF Counts(o, n, hs) THEN 1 ELSE 0
  BY <1>1, <1>2, OpCountAdd
<1> QED BY <1>1, <1>3

\* What does not count can be added and removed.
LEMMA OpCountSame ==
  ASSUME NEW S, NEW T, NEW n, NEW hs,
         \A o : o.num = n /\ o.op \in hs => (o \in S <=> o \in T)
  PROVE  OpCount(S, n, hs) = OpCount(T, n, hs)
<1>1. {o \in S : o.num = n /\ o.op \in hs} = {o \in T : o.num = n /\ o.op \in hs}
  OBVIOUS
<1> QED BY <1>1 DEF OpCount

-----------------------------------------------------------------------------
(* The invariant *)

\* The handler of a write that succeeded.
Written(h) == h.op = "write" /\ h.result = "ok"

\* A second handler of Stop never waits, and messages wait as they were posted.
InOrder ==
  {p \in HandlerType \X HandlerType :
     /\ ~(p[1].op = "stop" /\ p[2].op = "stop")
     /\ p[1].op = "post" /\ p[2].op = "post" => p[1].msg < p[2].msg}

\* Nor does a second write that succeeded, nor any write behind the handshake of
\* session n.
WriteOrder(n) ==
  {p \in HandlerType \X HandlerType :
     /\ ~(Written(p[1]) /\ Written(p[2]))
     /\ p[1].op = "handshake" /\ p[1].result = "ok" /\ p[1].num = n => p[2].op # "write"}

Types ==
  /\ TypeOK
  /\ ops \in SUBSET OpType /\ IsFiniteSet(ops)
  /\ \A o \in ops : o.op = "write" <=> o.msg # 0
  /\ strand \in Seq(HandlerType)
  /\ \A h \in Elems(strand) : h.op = "post" => h.msg # 0 /\ h.msg <= posted
  /\ inside \in [at : {"no", "sleep", "leave"}, num : Nat]
  /\ starter \in [at : {"no", "starting"}, num : Nat]
  /\ starter # Nowhere => starter.at = "starting"

\* No session has a number that was not given out.
Numbered ==
  /\ \A o \in ops : o.num <= session_number
  /\ \A h \in Elems(strand) : h.num <= session_number
  /\ inside.num <= session_number /\ starter.num <= session_number

\* Start and Stop have kept apart, and Stop from the middle of disconnect.
Apart == ~overlapped /\ ~raced

\* Stop waits for the one handler it posted, and tells the manager.
Stopping ==
  /\ \A h \in Elems(strand) : h.op = "stop" => stopper = "waiting"
  /\ Ordered(strand, InOrder)
  /\ stopper # "idle" /\ ~overlapped => is_stopped
  /\ Apart /\ is_stopped /\ stopper = "idle" /\ threw = {} => ~told

\* Stop has taken the number from whatever goes on.
Ended == is_stopped /\ stopper # "flagged"

Quiet ==
  Apart /\ Ended =>
    /\ \A o \in ops : o.num < session_number
    /\ \A h \in Elems(strand) : h.op \notin {"post", "stop"} => h.num < session_number
    /\ inside.at # "leave"
    /\ inside.at = "sleep" => inside.num < session_number
    /\ starter.at = "starting" => starter.num < session_number

\* What keeps the current session going, other than disconnect; and its read.
Asleep == IF inside.at = "sleep" /\ inside.num = session_number THEN 1 ELSE 0
Starting == IF starter.at = "starting" /\ starter.num = session_number THEN 1 ELSE 0
Live ==
  HandlerCount(strand, session_number, ChainOps) + OpCount(ops, session_number, ChainOps)
    + Asleep + Starting
Reads ==
  HandlerCount(strand, session_number, {"read"}) + OpCount(ops, session_number, {"read"})
WritesOf ==
  HandlerCount(strand, session_number, {"write"}) + OpCount(ops, session_number, {"write"})

Single ==
  Apart /\ ~fault =>
    /\ Live <= 1
    /\ ~Ended /\ inside.at # "no" => inside.num = session_number
    /\ ~is_stopped /\ inside.at # "leave" /\ "bind" \notin threw => Live = 1
    /\ ~is_stopped /\ inside.at # "leave" /\ threw = {} => (told <=> Reads = 1)

Calm == Apart /\ ~early

\* Until the handshake is handled the stream has nothing else to do, and what is
\* read is read from a stream that writes for its own session only.
Shaken ==
  Calm =>
    /\ Ordered(strand, WriteOrder(session_number))
    /\ \A o \in ops : o.num = session_number =>
         /\ o.op = "connect" => ops = {o} /\ ws \in {"connecting", "dead"}
         /\ o.op = "handshake" => ops = {o} /\ ws = "handshaking"
    /\ \A h \in Elems(strand) : h.num = session_number =>
         /\ h.op = "connect" => ops = {} /\ ws \in {"connecting", "dead"}
         /\ h.op = "handshake" => ops = {} /\ ws \in {"open", "dead"}
         /\ h.op = "handshake" /\ h.result = "ok" => ws = "open"
    /\ Reads > 0 =>
         /\ ws # "null"
         /\ \A o \in ops : o.op = "write" => o.num = session_number
         /\ \A h \in Elems(strand) : h.op = "write" => h.num = session_number

\* Nothing else is written than the front of the queue, and only once.
Pending ==
  Calm =>
    /\ \A o, p \in ops : o.op = "write" /\ p.op = "write" => o = p
    /\ \A o \in ops : o.op = "write" =>
         /\ send_queue # <<>> /\ o.msg = Head(send_queue)
         /\ \A h \in Elems(strand) : ~Written(h)
    /\ \A h \in Elems(strand) : Written(h) => send_queue # <<>> /\ h.msg = Head(send_queue)

\* A connected client is writing if and only if it has something to write.
Writing ==
  Calm /\ ~is_stopped /\ inside.at # "leave" /\ Reads > 0 =>
    WritesOf = IF send_queue # <<>> THEN 1 ELSE 0

NoFault == fault => ~Calm

\* Before the first Start nothing happens, and until Stop nothing disturbs.
First ==
  /\ starts = 0 =>
       /\ is_stopped /\ stopper = "idle" /\ strand = <<>> /\ ops = {} /\ inside = Nowhere
       /\ starter = Nowhere /\ Apart /\ posted = 0 /\ send_queue = <<>> /\ wire = <<>>
  /\ starts <= 1 /\ ~is_stopped => stopper = "idle" /\ Apart

WritingEnded == \E h \in Elems(strand) : Written(h)

\* How many messages have left the queue.
Gone == Len(wire) - (IF WritingEnded THEN 1 ELSE 0)

\* The messages are numbered as they come: on the wire, in the queue, posted.
Sequel ==
  starts <= 1 /\ ~is_stopped /\ ~early =>
    /\ \A i \in 1 .. Len(wire) : wire[i] = i
    /\ \A i \in 1 .. Len(send_queue) : send_queue[i] = Gone + i
    /\ Gone + Len(send_queue) <= posted
    /\ \A h \in Elems(strand) : h.op = "post" => h.msg > Gone + Len(send_queue)
    /\ \A m \in Gone + Len(send_queue) + 1 .. posted :
         \E h \in Elems(strand) : h.op = "post" /\ h.msg = m

Inv ==
  /\ Types /\ Numbered /\ Stopping /\ Quiet /\ Single
  /\ Shaken /\ Pending /\ Writing /\ NoFault
  /\ First /\ Sequel

LEMMA CountsNat ==
  ASSUME NEW s \in Seq(HandlerType), NEW S, IsFiniteSet(S)
  PROVE  \A n, hs :
           /\ HandlerCount(s, n, hs) \in Nat /\ OpCount(S, n, hs) \in Nat
           /\ HandlerCount(s, n, hs) = 0 <=> \A h \in Elems(s) : ~(h.num = n /\ h.op \in hs)
           /\ OpCount(S, n, hs) = 0 <=> \A o \in S : ~(o.num = n /\ o.op \in hs)
BY CountNone, OpCountNone

\* The sums in which the properties are stated.
LEMMA Sums ==
  /\ Chains = HandlerCount(strand, session_number, ChainOps)
                + OpCount(ops, session_number, ChainOps) + Busy(inside) + Busy(starter)
  /\ Reading = OpCount(ops, session_number, {"read"}) + HandlerCount(strand, session_number, {"read"})
  /\ Doing(session_number, {"write"}) = OpCount(ops, session_number, {"write"})
  /\ Handling(session_number, {"write"}) = HandlerCount(strand, session_number, {"write"})
BY DEF Chains, Reading, Doing, Handling, HandlerCount, OpCount, ChainOps

LEMMA SumsNat ==
  ASSUME Types
  PROVE  /\ Live \in Nat /\ Reads \in Nat /\ WritesOf \in Nat
         /\ session_number \in Nat /\ Asleep \in {0, 1} /\ Starting \in {0, 1}
         /\ \A n, hs : HandlerCount(strand, n, hs) \in Nat /\ OpCount(ops, n, hs) \in Nat
<1>1. \A n, hs : HandlerCount(strand, n, hs) \in Nat /\ OpCount(ops, n, hs) \in Nat
  BY CountsNat DEF Types
<1>2. Asleep \in {0, 1} /\ Starting \in {0, 1} /\ session_number \in Nat
  BY DEF Asleep, Starting, Types, TypeOK
<1> QED BY <1>1, <1>2 DEF Live, Reads, WritesOf

\* A sum is zero when nothing is there that it counts.
LEMMA ReadsNone ==
  ASSUME Types
  PROVE  Reads = 0 <=> /\ \A o \in ops : ~(o.num = session_number /\ o.op = "read")
                       /\ \A h \in Elems(strand) : ~(h.num = session_number /\ h.op = "read")
<1>1. HandlerCount(strand, session_number, {"read"}) \in Nat /\ OpCount(ops, session_number, {"read"}) \in Nat
  BY SumsNat
<1>2. /\ HandlerCount(strand, session_number, {"read"}) = 0
           <=> \A h \in Elems(strand) : ~(h.num = session_number /\ h.op \in {"read"})
      /\ OpCount(ops, session_number, {"read"}) = 0
           <=> \A o \in ops : ~(o.num = session_number /\ o.op \in {"read"})
  BY CountsNat DEF Types
<1> QED BY <1>1, <1>2 DEF Reads

LEMMA WritesNone ==
  ASSUME Types
  PROVE  WritesOf = 0 <=> /\ \A o \in ops : ~(o.num = session_number /\ o.op = "write")
                          /\ \A h \in Elems(strand) : ~(h.num = session_number /\ h.op = "write")
<1>1. HandlerCount(strand, session_number, {"write"}) \in Nat /\ OpCount(ops, session_number, {"write"}) \in Nat
  BY SumsNat
<1>2. /\ HandlerCount(strand, session_number, {"write"}) = 0
           <=> \A h \in Elems(strand) : ~(h.num = session_number /\ h.op \in {"write"})
      /\ OpCount(ops, session_number, {"write"}) = 0
           <=> \A o \in ops : ~(o.num = session_number /\ o.op \in {"write"})
  BY CountsNat DEF Types
<1> QED BY <1>1, <1>2 DEF WritesOf

\* While one thing keeps a session going, what is found to do so is the only one.
LEMMA LiveOnly ==
  ASSUME Types, Live <= 1
  PROVE  /\ Reads <= 1
         /\ \A o \in ops : o.num = session_number /\ o.op \in ChainOps =>
              /\ HandlerCount(strand, session_number, ChainOps) = 0
              /\ OpCount(ops, session_number, ChainOps) = 1 /\ Asleep = 0 /\ Starting = 0
         /\ \A h \in Elems(strand) : h.num = session_number /\ h.op \in ChainOps =>
              /\ HandlerCount(strand, session_number, ChainOps) = 1
              /\ OpCount(ops, session_number, ChainOps) = 0 /\ Asleep = 0 /\ Starting = 0
         /\ Asleep = 1 \/ Starting = 1 =>
              /\ HandlerCount(strand, session_number, ChainOps) = 0
              /\ OpCount(ops, session_number, ChainOps) = 0
<1> DEFINE n == session_number
           H == HandlerCount(strand, n, ChainOps)
           O == OpCount(ops, n, ChainOps)
<1>1. H \in Nat /\ O \in Nat /\ Asleep \in {0, 1} /\ Starting \in {0, 1} /\ H + O + Asleep + Starting <= 1
  BY SumsNat DEF Live
<1>2. /\ H = 0 <=> \A h \in Elems(strand) : ~(h.num = n /\ h.op \in ChainOps)
      /\ O = 0 <=> \A o \in ops : ~(o.num = n /\ o.op \in ChainOps)
  BY CountsNat DEF Types
<1>3. HandlerCount(strand, n, {"read"}) <= H
  <2>1. {i \in DOMAIN strand : strand[i].num = n /\ strand[i].op \in {"read"}}
          \in SUBSET {i \in DOMAIN strand : strand[i].num = n /\ strand[i].op \in ChainOps}
    BY DEF ChainOps
  <2>2. IsFiniteSet({i \in DOMAIN strand : strand[i].num = n /\ strand[i].op \in ChainOps})
    <3>1. strand \in Seq(HandlerType)
      BY DEF Types
    <3>2. DOMAIN strand = 1 .. Len(strand) /\ 1 \in Int /\ Len(strand) \in Int
      BY <3>1, LenProperties
    <3>3. IsFiniteSet(DOMAIN strand)
      BY <3>2, FS_Interval
    <3>4. {i \in DOMAIN strand : strand[i].num = n /\ strand[i].op \in ChainOps} \in SUBSET DOMAIN strand
      OBVIOUS
    <3> QED BY <3>3, <3>4, FS_Subset
  <2> QED BY <2>1, <2>2, FS_Subset DEF HandlerCount
<1>4. OpCount(ops, n, {"read"}) <= O
  <2>1. {o \in ops : o.num = n /\ o.op \in {"read"}} \in SUBSET {o \in ops : o.num = n /\ o.op \in ChainOps}
    BY DEF ChainOps
  <2>2. IsFiniteSet({o \in ops : o.num = n /\ o.op \in ChainOps})
    <3>1. {o \in ops : o.num = n /\ o.op \in ChainOps} \in SUBSET ops
      OBVIOUS
    <3> QED BY <3>1, FS_Subset DEF Types
  <2> QED BY <2>1, <2>2, FS_Subset DEF OpCount
<1>5. Reads <= 1
  <2>1. HandlerCount(strand, n, {"read"}) \in Nat /\ OpCount(ops, n, {"read"}) \in Nat
    BY SumsNat
  <2> QED BY <1>1, <1>3, <1>4, <2>1 DEF Reads
<1>6. ASSUME NEW o \in ops, o.num = n, o.op \in ChainOps
      PROVE  H = 0 /\ O = 1 /\ Asleep = 0 /\ Starting = 0
  <2>1. O # 0
    BY <1>2, <1>6
  <2> QED BY <1>1, <2>1
<1>7. ASSUME NEW h \in Elems(strand), h.num = n, h.op \in ChainOps
      PROVE  H = 1 /\ O = 0 /\ Asleep = 0 /\ Starting = 0
  <2>1. H # 0
    BY <1>2, <1>7
  <2> QED BY <1>1, <2>1
<1>8. Asleep = 1 \/ Starting = 1 => H = 0 /\ O = 0
  BY <1>1
<1> QED BY <1>5, <1>6, <1>7, <1>8

LEMMA InitInv == Init => Inv
<1> SUFFICES ASSUME Init PROVE Inv
  OBVIOUS
<1>1. /\ is_stopped = TRUE /\ session_number = 0 /\ ws = "null" /\ ops = {} /\ strand = <<>>
      /\ inside = Nowhere /\ send_queue = <<>> /\ told = FALSE /\ starter = Nowhere /\ stopper = "idle"
      /\ posted = 0 /\ failures = 0 /\ starts = 0 /\ wire = <<>> /\ early = FALSE /\ raced = FALSE
      /\ overlapped = FALSE /\ threw = {} /\ fault = FALSE
  BY DEF Init
<1>2. /\ strand \in Seq(HandlerType) /\ Elems(strand) = {} /\ (\A R : Ordered(strand, R))
      /\ IsFiniteSet(ops) /\ send_queue \in Seq(1 .. MaxMessages) /\ wire \in Seq(1 .. MaxMessages)
      /\ Len(wire) = 0 /\ Len(send_queue) = 0
  <2>1. Len(strand) = 0 /\ Len(wire) = 0 /\ Len(send_queue) = 0
    BY <1>1
  <2>2. IsFiniteSet(ops)
    BY <1>1, FS_EmptySet
  <2> QED BY <1>1, <2>1, <2>2 DEF Elems, Ordered
<1>3. inside = [at |-> "no", num |-> 0] /\ starter = [at |-> "no", num |-> 0]
  BY <1>1 DEF Nowhere, At
<1>4. Types /\ Numbered
  <2>1. inside.at = "no" /\ inside.num = 0 /\ starter.at = "no" /\ starter.num = 0
    BY <1>3
  <2>2. TypeOK
    <3>1. posted \in 0 .. MaxMessages /\ failures \in 0 .. MaxFailures /\ starts \in 0 .. MaxStarts
      BY <1>1, BoundsAssumption
    <3>2. threw \subseteq {"bind", "shutdown"} /\ session_number \in Nat
      BY <1>1
    <3> QED BY <1>1, <1>2, <2>1, <3>1, <3>2 DEF TypeOK
  <2>3. Types
    BY <1>1, <1>2, <1>3, <2>2 DEF Types
  <2> QED BY <1>1, <1>2, <2>1, <2>3 DEF Numbered
<1>5. Stopping /\ Quiet /\ NoFault
  BY <1>1, <1>2, <1>3 DEF Stopping, Quiet, NoFault
<1>6. First /\ Sequel
  BY <1>1, <1>2 DEF First, Sequel, Apart
<1>7. HandlerCount(strand, session_number, ChainOps) = 0 /\ OpCount(ops, session_number, ChainOps) = 0
  <2>1. /\ HandlerCount(strand, session_number, ChainOps) = 0
             <=> \A h \in Elems(strand) : ~(h.num = session_number /\ h.op \in ChainOps)
        /\ OpCount(ops, session_number, ChainOps) = 0
             <=> \A o \in ops : ~(o.num = session_number /\ o.op \in ChainOps)
    BY <1>2, CountsNat
  <2> QED BY <1>1, <1>2, <2>1
<1>8. Single
  <2>1. Asleep = 0 /\ Starting = 0
    BY <1>3 DEF Asleep, Starting
  <2>2. Live = 0
    BY <1>7, <2>1 DEF Live
  <2> QED BY <1>1, <1>3, <2>2 DEF Single
<1>9. Reads = 0
  BY <1>1, <1>2, <1>4, ReadsNone
<1>10. Shaken /\ Pending /\ Writing
  BY <1>1, <1>2, <1>9 DEF Shaken, Pending, Writing
<1> QED BY <1>4, <1>5, <1>6, <1>8, <1>10 DEF Inv

-----------------------------------------------------------------------------
(* What the steps have in common *)

\* A handler runs.
LEMMA Running ==
  ASSUME Types, NEW k, Runs(k)
  PROVE  /\ ~fault /\ inside = Nowhere /\ strand # <<>>
         /\ Handler \in HandlerType /\ Handler \in Elems(strand) /\ Handler.op = k
         /\ Rest \in Seq(HandlerType) /\ Rest = Tail(strand)
         /\ Elems(strand) = Elems(Rest) \union {Handler}
         /\ \A R : Ordered(strand, R) => /\ Ordered(Rest, R)
                                      /\ \A d \in Elems(Rest) : <<Handler, d>> \in R
         /\ \A n, hs : HandlerCount(strand, n, hs)
                         = HandlerCount(Rest, n, hs) + IF Counts(Handler, n, hs) THEN 1 ELSE 0
<1>1. /\ ~fault /\ inside = Nowhere /\ strand # <<>> /\ Handler.op = k
      /\ strand \in Seq(HandlerType)
  BY DEF Runs, Types, Handler
<1> QED BY <1>1, TailElems, CountTail DEF Rest, Handler

\* The queue and the wire are as before, and so is what waits to be queued.
LEMMA SequelKept ==
  ASSUME Sequel, UNCHANGED <<wire, send_queue, posted, starts, is_stopped>>, early => early',
         \A h : h.op = "post" \/ Written(h) => (h \in Elems(strand') <=> h \in Elems(strand))
  PROVE  Sequel'
<1>1. WritingEnded' <=> WritingEnded
  BY DEF WritingEnded
<1>2. Gone' = Gone
  BY <1>1 DEF Gone
<1> SUFFICES ASSUME starts <= 1, ~is_stopped, ~early
             PROVE  /\ \A i \in 1 .. Len(wire) : wire[i] = i
                    /\ \A i \in 1 .. Len(send_queue) : send_queue[i] = Gone + i
                    /\ Gone + Len(send_queue) <= posted
                    /\ \A h \in Elems(strand') : h.op = "post" => h.msg > Gone + Len(send_queue)
                    /\ \A m \in Gone + Len(send_queue) + 1 .. posted :
                         \E h \in Elems(strand') : h.op = "post" /\ h.msg = m
  BY <1>2 DEF Sequel
<1> QED BY DEF Sequel

\* No write begins and none ends.
LEMMA PendingKept ==
  ASSUME Pending, UNCHANGED send_queue, Calm' => Calm,
         \A o \in ops' : o.op = "write" => o \in ops,
         \A h \in Elems(strand') : Written(h) => h \in Elems(strand)
  PROVE  Pending'
BY DEF Pending

\* No session's handlers and operations come or go.
LEMMA SumsKept ==
  ASSUME UNCHANGED session_number,
         \A hs \in {ChainOps, {"read"}, {"write"}} :
           /\ HandlerCount(strand', session_number, hs) = HandlerCount(strand, session_number, hs)
           /\ OpCount(ops', session_number, hs) = OpCount(ops, session_number, hs)
  PROVE  /\ UNCHANGED <<inside, starter>> => Live' = Live
         /\ Reads' = Reads /\ WritesOf' = WritesOf
<1>1. Reads' = Reads /\ WritesOf' = WritesOf
  BY DEF Reads, WritesOf
<1>2. ASSUME UNCHANGED <<inside, starter>> PROVE Live' = Live
  <2>1. Asleep' = Asleep /\ Starting' = Starting
    BY <1>2 DEF Asleep, Starting
  <2> QED BY <2>1 DEF Live
<1> QED BY <1>1, <1>2

-----------------------------------------------------------------------------
(* Every step keeps it: the stream *)

LEMMA OpDoneStep ==
  ASSUME Inv, NEW o \in ops, NEW r \in {"ok", "bad", "error"}, OpDone(o, r)
  PROVE  Inv'
<1> DEFINE h == Done(o, r)
           posts == o.num = session_number \/ (o.op = "write" /\ r = "ok")
<1>1. /\ ~fault /\ (r = "bad" => o.op = "read") /\ ops' = ops \ {o} /\ ws' = Reached(o, r)
      /\ failures' \in {failures, failures + 1} /\ failures' <= MaxFailures
      /\ wire' = IF o.op = "write" /\ r = "ok" THEN Append(wire, o.msg) ELSE wire
      /\ strand' = IF posts THEN Append(strand, h) ELSE strand
      /\ UNCHANGED <<is_stopped, session_number, inside, send_queue, early, told, starter, stopper,
                     posted, starts, raced, overlapped, threw, fault>>
  BY DEF OpDone, threads, flags
<1>2. /\ Types /\ strand \in Seq(HandlerType) /\ ops \in SUBSET OpType /\ IsFiniteSet(ops)
      /\ o \in OpType /\ o.op \in ChainOps \union {"write"}
  BY DEF Inv, Types, OpType
<1>3. /\ h \in HandlerType /\ h.op = o.op /\ h.num = o.num /\ h.msg = o.msg /\ h.result = r
      /\ h.op # "post" /\ h.op # "stop"
  BY <1>2 DEF Done, HandlerType, OpType, Results, ChainOps
<1> HIDE DEF h
<1>4. /\ strand' \in Seq(HandlerType)
      /\ Elems(strand') = IF posts THEN Elems(strand) \union {h} ELSE Elems(strand)
      /\ \A R : Ordered(strand, R) /\ (\A d \in Elems(strand) : <<d, h>> \in R) => Ordered(strand', R)
  <2>1. CASE posts
    <3>1. strand' = Append(strand, h)
      BY <1>1, <2>1
    <3> QED BY <1>2, <1>3, <2>1, <3>1, AppendElems
  <2>2. CASE ~posts
    <3>1. strand' = strand
      BY <1>1, <2>2
    <3> QED BY <1>2, <2>2, <3>1
  <2> QED BY <2>1, <2>2
<1>5. \A d \in Elems(strand) : d \in HandlerType
  BY <1>2, LenProperties DEF Elems
<1>6. Types'
  <2>1. ws' \in {"null", "connecting", "handshaking", "open", "closing", "dead"}
    BY <1>1, <1>2 DEF Types, TypeOK, Reached
  <2>2. wire' \in Seq(1 .. MaxMessages)
    <3>1. CASE o.op = "write" /\ r = "ok"
      <4>1. o.msg \in 1 .. MaxMessages
        BY <1>2, <3>1, BoundsAssumption DEF Types, OpType
      <4>2. wire \in Seq(1 .. MaxMessages)
        BY <1>2 DEF Types, TypeOK
      <4> QED BY <1>1, <3>1, <4>1, <4>2, AppendProperties
    <3>2. CASE ~(o.op = "write" /\ r = "ok")
      BY <1>1, <1>2, <3>2 DEF Types, TypeOK
    <3> QED BY <3>1, <3>2
  <2>3. failures' \in 0 .. MaxFailures
    BY <1>1, <1>2, BoundsAssumption DEF Types, TypeOK
  <2>4. TypeOK'
    BY <1>1, <1>2, <2>1, <2>2, <2>3 DEF Types, TypeOK
  <2>5. IsFiniteSet(ops') /\ ops' \in SUBSET OpType
    <3>1. ops' \in SUBSET ops
      BY <1>1
    <3> QED BY <1>2, <3>1, FS_Subset
  <2>6. \A d \in Elems(strand') : d.op = "post" => d.msg # 0 /\ d.msg <= posted
    BY <1>2, <1>3, <1>4 DEF Types
  <2> QED BY <1>1, <1>2, <1>4, <2>4, <2>5, <2>6 DEF Types
<1>7. Numbered'
  BY <1>1, <1>3, <1>4 DEF Inv, Numbered
<1>8. Stopping'
  <2>1. \A d \in Elems(strand) : <<d, h>> \in InOrder
    BY <1>3, <1>5 DEF InOrder
  <2>2. Ordered(strand', InOrder)
    BY <1>4, <2>1 DEF Inv, Stopping
  <2> QED BY <1>1, <1>3, <1>4, <2>2 DEF Inv, Stopping, Apart
<1>9. Quiet'
  BY <1>1, <1>3, <1>4 DEF Inv, Quiet, Apart, Ended
<1>10. Live' = Live /\ Reads' = Reads /\ WritesOf' = WritesOf
  <2>1. \A hs : HandlerCount(strand', session_number, hs) + OpCount(ops', session_number, hs)
                  = HandlerCount(strand, session_number, hs) + OpCount(ops, session_number, hs)
    <3> TAKE hs
    <3> DEFINE c == IF Counts(o, session_number, hs) THEN 1 ELSE 0
    <3>1. OpCount(ops, session_number, hs) = OpCount(ops', session_number, hs) + c
      BY <1>1, <1>2, OpCountRemove
    <3>2. HandlerCount(strand', session_number, hs) = HandlerCount(strand, session_number, hs) + c
      <4>1. CASE posts
        <5>1. Counts(h, session_number, hs) <=> Counts(o, session_number, hs)
          BY <1>3 DEF Counts
        <5> QED BY <1>1, <1>2, <1>3, <4>1, <5>1, CountAppend
      <4>2. CASE ~posts
        <5>1. HandlerCount(strand, session_number, hs) \in Nat /\ c = 0
          BY <1>2, <4>2, SumsNat DEF Counts
        <5> QED BY <1>1, <4>2, <5>1
      <4> QED BY <4>1, <4>2
    <3>3. /\ HandlerCount(strand, session_number, hs) \in Nat
          /\ OpCount(ops', session_number, hs) \in Nat /\ c \in Nat
      <4>1. IsFiniteSet(ops')
        BY <1>6 DEF Types
      <4> QED BY <1>2, <4>1, CountsNat
    <3> HIDE DEF c
    <3> QED BY <3>1, <3>2, <3>3
  <2>2. Asleep' = Asleep /\ Starting' = Starting
    BY <1>1 DEF Asleep, Starting
  <2> QED BY <1>1, <2>1, <2>2 DEF Live, Reads, WritesOf
<1>11. Single'
  BY <1>1, <1>10 DEF Inv, Single, Apart, Ended
<1>12. Shaken'
  <2> SUFFICES ASSUME Calm PROVE Shaken'
    BY <1>1 DEF Shaken, Calm, Apart
  <2>1. Ordered(strand', WriteOrder(session_number))
    <3>1. ASSUME NEW d \in Elems(strand) PROVE <<d, h>> \in WriteOrder(session_number)
      <4>1. ~(Written(d) /\ Written(h))
        BY <1>3 DEF Inv, Pending, Written
      <4>2. d.op = "handshake" /\ d.num = session_number => FALSE
        BY DEF Inv, Shaken
      <4> QED BY <1>3, <1>5, <4>1, <4>2 DEF WriteOrder
    <3> QED BY <1>4, <3>1 DEF Inv, Shaken
  <2>2. \A p \in ops' : p.num = session_number => p.op # "connect" /\ p.op # "handshake"
    BY <1>1 DEF Inv, Shaken
  <2>3. ASSUME NEW d \in Elems(strand'), d.num = session_number
        PROVE  /\ d.op = "connect" => ops' = {} /\ ws' \in {"connecting", "dead"}
               /\ d.op = "handshake" => ops' = {} /\ ws' \in {"open", "dead"}
               /\ d.op = "handshake" /\ d.result = "ok" => ws' = "open"
    <3>1. CASE d \in Elems(strand)
      BY <2>3, <3>1 DEF Inv, Shaken
    <3>2. CASE d = h
      <4>1. o.op = "connect" => ops' = {} /\ ws \in {"connecting", "dead"}
        BY <1>1, <1>3, <2>3, <3>2 DEF Inv, Shaken
      <4>2. o.op = "handshake" => ops' = {} /\ ws = "handshaking" /\ r # "bad"
        BY <1>1, <1>3, <2>3, <3>2 DEF Inv, Shaken
      <4> QED BY <1>1, <1>3, <3>2, <4>1, <4>2 DEF Reached
    <3> QED BY <1>4, <3>1, <3>2
  <2>4. ASSUME Reads' > 0
        PROVE  /\ ws' # "null"
               /\ \A p \in ops' : p.op = "write" => p.num = session_number
               /\ \A d \in Elems(strand') : d.op = "write" => d.num = session_number
    <3>1. ws # "null"
      BY <1>10, <2>4 DEF Inv, Shaken
    <3>2. ws' # "null"
      BY <1>1, <3>1 DEF Reached
    <3> QED BY <1>1, <1>3, <1>4, <1>10, <2>4, <3>2 DEF Inv, Shaken
  <2> QED BY <1>1, <2>1, <2>2, <2>3, <2>4 DEF Shaken
<1>13. Pending'
  BY <1>1, <1>3, <1>4 DEF Inv, Pending, Calm, Apart, Written
<1>14. Writing' /\ NoFault'
  BY <1>1, <1>10 DEF Inv, Writing, NoFault, Calm, Apart
<1>15. First'
  BY <1>1 DEF Inv, First, Apart
<1>16. Sequel'
  <2>1. CASE ~(o.op = "write" /\ r = "ok")
    <3>1. \A d : d.op = "post" \/ Written(d) => (d \in Elems(strand') <=> d \in Elems(strand))
      BY <1>3, <1>4, <2>1 DEF Written
    <3> QED BY <1>1, <2>1, <3>1, SequelKept DEF Inv
  <2>2. CASE o.op = "write" /\ r = "ok"
    <3> SUFFICES ASSUME starts <= 1, ~is_stopped, ~early
                 PROVE  /\ \A i \in 1 .. Len(wire') : wire'[i] = i
                        /\ \A i \in 1 .. Len(send_queue) : send_queue[i] = Gone' + i
                        /\ Gone' + Len(send_queue) <= posted
                        /\ \A d \in Elems(strand') : d.op = "post" => d.msg > Gone' + Len(send_queue)
                        /\ \A m \in Gone' + Len(send_queue) + 1 .. posted :
                             \E d \in Elems(strand') : d.op = "post" /\ d.msg = m
      BY <1>1 DEF Sequel
    <3>1. Calm
      BY DEF Inv, First, Calm
    <3>2. ~WritingEnded /\ WritingEnded' /\ send_queue # <<>> /\ o.msg = Head(send_queue)
      BY <1>3, <1>4, <2>2, <3>1 DEF Inv, Pending, WritingEnded, Written
    <3>3. /\ wire \in Seq(1 .. MaxMessages) /\ send_queue \in Seq(1 .. MaxMessages)
          /\ o.msg \in 1 .. MaxMessages
      BY <1>2, <2>2, BoundsAssumption DEF Types, TypeOK, OpType
    <3>4. /\ Len(wire) \in Nat /\ Len(wire') = Len(wire) + 1 /\ wire'[Len(wire) + 1] = o.msg
          /\ \A i \in 1 .. Len(wire) : wire'[i] = wire[i]
      BY <1>1, <2>2, <3>3, AppendProperties, LenProperties
    <3>5. Gone = Len(wire) /\ Gone' = Gone
      BY <3>2, <3>4 DEF Gone
    <3>6. o.msg = Len(wire) + 1
      <4>1. 1 \in 1 .. Len(send_queue) /\ Head(send_queue) = send_queue[1]
        BY <3>2, <3>3, EmptySeq, LenProperties, HeadTailProperties
      <4>2. send_queue[1] = Gone + 1
        BY <4>1 DEF Inv, Sequel
      <4> QED BY <3>2, <3>5, <4>1, <4>2
    <3>7. \A i \in 1 .. Len(wire') : wire'[i] = i
      <4>1. 1 .. Len(wire') = (1 .. Len(wire)) \union {Len(wire) + 1}
        BY <3>4
      <4>2. \A i \in 1 .. Len(wire) : wire[i] = i
        BY DEF Inv, Sequel
      <4> QED BY <3>4, <3>6, <4>1, <4>2
    <3> QED BY <1>3, <1>4, <3>5, <3>7 DEF Inv, Sequel
  <2> QED BY <2>1, <2>2
<1> QED BY <1>6, <1>7, <1>8, <1>9, <1>11, <1>12, <1>13, <1>14, <1>15, <1>16 DEF Inv

-----------------------------------------------------------------------------
(* Every step keeps it: connecting *)

\* What a stream that is destroyed leaves behind: errors of its own session.
LEMMA AbortedElems ==
  ASSUME Types
  PROVE  /\ Aborted \in Seq(HandlerType)
         /\ \A h \in Elems(Aborted) :
              /\ h \in HandlerType /\ h.op \in ChainOps \union {"write"} /\ h.result = "error"
              /\ h.num = session_number /\ \E o \in ops : o.num = session_number /\ o.op = h.op
         /\ Ordered(Aborted, InOrder) /\ Ordered(Aborted, WriteOrder(session_number))
<1> DEFINE T == {o \in ops : o.num = session_number}
           k == Cardinality(T)
           s == SetToSeq(T)
<1>1. IsFiniteSet(T) /\ T \in SUBSET ops /\ ops \in SUBSET OpType
  <2>1. T \in SUBSET ops
    OBVIOUS
  <2> QED BY <2>1, FS_Subset DEF Types
<1>2. k \in Nat /\ ExistsBijection(1 .. k, T)
  BY <1>1, FS_CardinalityType
<1>3. \E f \in [1 .. k -> T] : IsInjective(f)
  <2>1. PICK f \in Bijection(1 .. k, T) : TRUE
    BY <1>2 DEF ExistsBijection
  <2>2. f \in [1 .. k -> T] /\ IsInjective(f)
    BY <2>1 DEF Bijection, Injection
  <2> QED BY <2>2
<1>4. s \in [1 .. k -> T]
  BY <1>3 DEF SetToSeq
<1> HIDE DEF s, k
<1>5. Aborted = [i \in 1 .. k |-> Done(s[i], "error")]
  BY <1>4 DEF Aborted, s
<1> HIDE DEF T
<1>6. \A o \in T : /\ Done(o, "error") \in HandlerType /\ Done(o, "error").op = o.op
                   /\ Done(o, "error").op \in ChainOps \union {"write"}
                   /\ Done(o, "error").result = "error" /\ Done(o, "error").num = o.num
  BY <1>1 DEF Done, HandlerType, OpType, Results
<1>7. Aborted \in [1 .. k -> HandlerType]
  BY <1>4, <1>5, <1>6
<1>8. Aborted \in Seq(HandlerType) /\ Len(Aborted) = k
  BY <1>2, <1>7, LenProperties DEF Seq
<1>9. ASSUME NEW h \in Elems(Aborted)
      PROVE  /\ h \in HandlerType /\ h.op \in ChainOps \union {"write"} /\ h.result = "error"
             /\ h.num = session_number /\ \E o \in ops : o.num = session_number /\ o.op = h.op
  <2>1. PICK i \in 1 .. k : h = Aborted[i]
    BY <1>8 DEF Elems
  <2>2. s[i] \in T /\ h = Done(s[i], "error")
    BY <1>4, <1>5, <2>1
  <2>3. s[i] \in ops /\ s[i].num = session_number
    BY <2>2 DEF T
  <2> QED BY <1>6, <2>2, <2>3
<1>10. \A i \in 1 .. Len(Aborted) : Aborted[i] \in Elems(Aborted)
  BY DEF Elems
<1>11. \A d, e \in Elems(Aborted) : <<d, e>> \in InOrder /\ <<d, e>> \in WriteOrder(session_number)
  BY <1>9 DEF InOrder, WriteOrder, Written, ChainOps
<1>12. Ordered(Aborted, InOrder) /\ Ordered(Aborted, WriteOrder(session_number))
  BY <1>10, <1>11 DEF Ordered
<1> QED BY <1>8, <1>9, <1>12

\* They come behind a sequence of handlers.
LEMMA BeforeAborted ==
  ASSUME Types, NEW s \in Seq(HandlerType)
  PROVE  /\ s \o Aborted \in Seq(HandlerType)
         /\ Elems(s \o Aborted) = Elems(s) \union Elems(Aborted)
         /\ Ordered(s, InOrder) => Ordered(s \o Aborted, InOrder)
         /\ /\ Ordered(s, WriteOrder(session_number))
            /\ \A h \in Elems(s) : ~(h.op = "handshake" /\ h.num = session_number)
            => Ordered(s \o Aborted, WriteOrder(session_number))
         /\ \A hs : (\A o \in ops : ~(o.num = session_number /\ o.op \in hs))
                      => HandlerCount(s \o Aborted, session_number, hs) = HandlerCount(s, session_number, hs)
<1>1. Aborted \in Seq(HandlerType)
  BY AbortedElems
<1>2. \A h \in Elems(s) : h \in HandlerType
  BY LenProperties DEF Elems
<1>3. \A d \in Elems(s), e \in Elems(Aborted) : <<d, e>> \in InOrder
  BY <1>2, AbortedElems DEF InOrder, ChainOps
<1>4. ASSUME \A h \in Elems(s) : ~(h.op = "handshake" /\ h.num = session_number)
      PROVE  \A d \in Elems(s), e \in Elems(Aborted) : <<d, e>> \in WriteOrder(session_number)
  BY <1>2, <1>4, AbortedElems DEF WriteOrder, Written
<1>5. ASSUME NEW hs, \A o \in ops : ~(o.num = session_number /\ o.op \in hs)
      PROVE  HandlerCount(s \o Aborted, session_number, hs) = HandlerCount(s, session_number, hs)
  <2>1. HandlerCount(Aborted, session_number, hs) = 0
    <3>1. \A h \in Elems(Aborted) : ~(h.num = session_number /\ h.op \in hs)
      BY <1>5, AbortedElems
    <3> QED BY <1>1, <3>1, CountNone
  <2>2. HandlerCount(s \o Aborted, session_number, hs)
          = HandlerCount(s, session_number, hs) + HandlerCount(Aborted, session_number, hs)
    BY <1>1, CountConcat
  <2>3. HandlerCount(s, session_number, hs) \in Nat
    BY CountNone
  <2> QED BY <2>1, <2>2, <2>3
<1>6. /\ s \o Aborted \in Seq(HandlerType)
      /\ Elems(s \o Aborted) = Elems(s) \union Elems(Aborted)
      /\ \A R : Ordered(s, R) /\ Ordered(Aborted, R) /\ (\A d \in Elems(s), e \in Elems(Aborted) : <<d, e>> \in R)
                 => Ordered(s \o Aborted, R)
  BY <1>1, ConcatElems
<1>7. Ordered(s, InOrder) => Ordered(s \o Aborted, InOrder)
  BY <1>3, <1>6, AbortedElems
<1>8. /\ Ordered(s, WriteOrder(session_number))
      /\ \A h \in Elems(s) : ~(h.op = "handshake" /\ h.num = session_number)
      => Ordered(s \o Aborted, WriteOrder(session_number))
  BY <1>4, <1>6, AbortedElems
<1> QED BY <1>5, <1>6, <1>7, <1>8

\* The first of a kind.
LEMMA OpCountFirst ==
  ASSUME NEW S, IsFiniteSet(S), NEW o, o \notin S, NEW n, NEW hs,
         OpCount(S, n, hs) = 0, Counts(o, n, hs)
  PROVE  OpCount(S \union {o}, n, hs) = 1
<1>1. OpCount(S \union {o}, n, hs) = OpCount(S, n, hs) + IF Counts(o, n, hs) THEN 1 ELSE 0
  BY OpCountAdd
<1> QED BY <1>1

LEMMA OpCountOne ==
  ASSUME NEW o, NEW n, NEW hs
  PROVE  IsFiniteSet({o}) /\ OpCount({o}, n, hs) = IF Counts(o, n, hs) THEN 1 ELSE 0
<1>1. PICK none : none = {} /\ IsFiniteSet(none) /\ none \union {o} = {o}
  BY FS_EmptySet
<1>2. OpCount(none, n, hs) = 0
  BY <1>1, OpCountNone
<1>3. IsFiniteSet(none) /\ o \notin none
  BY <1>1
<1>4. /\ IsFiniteSet(none \union {o})
      /\ OpCount(none \union {o}, n, hs) = OpCount(none, n, hs) + IF Counts(o, n, hs) THEN 1 ELSE 0
  BY <1>3, OpCountAdd
<1> QED BY <1>1, <1>2, <1>4

\* After a step too, a sum is zero when nothing is there that it counts.
LEMMA SumsNone ==
  ASSUME Types'
  PROVE  /\ (\A o \in ops' : ~(o.num = session_number' /\ o.op = "read"))
              /\ (\A h \in Elems(strand') : ~(h.num = session_number' /\ h.op = "read"))
              => Reads' = 0
         /\ (\A o \in ops' : ~(o.num = session_number' /\ o.op = "write"))
              /\ (\A h \in Elems(strand') : ~(h.num = session_number' /\ h.op = "write"))
              => WritesOf' = 0
<1>1. strand' \in Seq(HandlerType) /\ IsFiniteSet(ops')
  BY DEF Types
<1>2. \A n, hs : /\ HandlerCount(strand', n, hs) = 0
                      <=> \A h \in Elems(strand') : ~(h.num = n /\ h.op \in hs)
                 /\ OpCount(ops', n, hs) = 0 <=> \A o \in ops' : ~(o.num = n /\ o.op \in hs)
  BY <1>1, CountsNat
<1> QED BY <1>2 DEF Reads, WritesOf

\* Where a stream is replaced: behind the sleep, or in Start.
Replaces(n) ==
  \/ inside.at = "sleep" /\ inside.num = n /\ inside' = Nowhere /\ UNCHANGED starter
  \/ /\ starter.at = "starting" /\ starter.num = n /\ Current(n)
     /\ starter' = Nowhere /\ UNCHANGED inside

\* Nothing else keeps the session going then.
LEMMA NoneAtReplace ==
  ASSUME Inv, NEW n, Replaces(n), ~fault, Apart
  PROVE  /\ n = session_number <=> ~Ended
         /\ \A o \in ops : ~(o.num = session_number /\ o.op \in ChainOps)
         /\ \A h \in Elems(strand) : ~(h.num = session_number /\ h.op \in ChainOps)
         /\ UNCHANGED session_number => Asleep' = 0 /\ Starting' = 0
         /\ Live <= 1 /\ Reads = 0
<1>1. Types /\ session_number \in Nat /\ inside'.at \in {"no", "sleep", "leave"}
  BY DEF Inv, Types, TypeOK, Replaces, Nowhere, At
<1>2. inside' = Nowhere => inside'.at = "no"
  BY DEF Nowhere, At
<1>3. starter' = Nowhere => starter'.at = "no"
  BY DEF Nowhere, At
<1>4. Live <= 1
  BY DEF Inv, Single
<1>5. CASE Ended
  <2>1. /\ \A o \in ops : o.num < session_number
        /\ \A h \in Elems(strand) : h.op \notin {"post", "stop"} => h.num < session_number
        /\ inside.at = "sleep" => inside.num < session_number
        /\ starter.at = "starting" => starter.num < session_number
    BY <1>5 DEF Inv, Quiet
  <2>2. \A o \in ops : ~(o.num = session_number /\ o.op \in ChainOps)
    BY <1>1, <2>1
  <2>3. \A h \in Elems(strand) : ~(h.num = session_number /\ h.op \in ChainOps)
    BY <1>1, <2>1 DEF ChainOps
  <2>4. n # session_number
    BY <1>1, <1>5, <2>1 DEF Replaces, Current, Ended
  <2>5. Reads = 0
    BY <1>1, <2>2, <2>3, ReadsNone DEF ChainOps
  <2>6. UNCHANGED session_number => Asleep' = 0 /\ Starting' = 0
    BY <1>1, <1>2, <1>3, <1>5, <2>1 DEF Replaces, Asleep, Starting, Current, Ended
  <2> QED BY <1>4, <1>5, <2>2, <2>3, <2>4, <2>5, <2>6
<1>6. CASE ~Ended
  <2>1. n = session_number
    BY <1>6 DEF Inv, Single, Replaces, Current
  <2>2. Asleep = 1 \/ Starting = 1
    BY <2>1 DEF Replaces, Asleep, Starting
  <2>3. HandlerCount(strand, session_number, ChainOps) = 0 /\ OpCount(ops, session_number, ChainOps) = 0
    BY <1>1, <1>4, <2>2, LiveOnly
  <2>4. /\ \A o \in ops : ~(o.num = session_number /\ o.op \in ChainOps)
        /\ \A h \in Elems(strand) : ~(h.num = session_number /\ h.op \in ChainOps)
    BY <1>1, <2>3, CountsNat DEF Types
  <2>5. Reads = 0
    BY <1>1, <2>4, ReadsNone DEF ChainOps
  <2>6. Asleep + Starting <= 1 /\ Asleep \in {0, 1} /\ Starting \in {0, 1}
    BY <1>1, <1>4, <2>3, SumsNat DEF Live
  <2>7. UNCHANGED session_number => Asleep' = 0 /\ Starting' = 0
    BY <1>1, <1>2, <1>3, <2>1, <2>6 DEF Replaces, Asleep, Starting
  <2> QED BY <1>4, <1>6, <2>1, <2>4, <2>5, <2>7
<1> QED BY <1>5, <1>6

\* A new stream is all that goes on in the session; or it could not be bound.
LEMMA NewStreamInv ==
  ASSUME Inv, NEW n, Replaces(n), NewStream(n, strand), ~fault,
         UNCHANGED <<is_stopped, session_number, messages, told, stopper, counts, raced, overlapped, fault>>
  PROVE  Inv'
<1> DEFINE o == Op("connect", n, 0)
<1>1. /\ UNCHANGED <<is_stopped, session_number, send_queue, wire, early, told, stopper,
                     posted, failures, starts, raced, overlapped, fault>>
      /\ \/ /\ ws' = "connecting" /\ ops' = {o} /\ strand' = strand \o Aborted /\ UNCHANGED threw
         \/ /\ threw' = threw \union {"bind"} /\ UNCHANGED <<strand, ws, ops>>
  BY DEF messages, counts, NewStream
<1>2. Types /\ strand \in Seq(HandlerType) /\ session_number \in Nat
  BY DEF Inv, Types, TypeOK
<1>3. /\ n \in Nat /\ n <= session_number
      /\ inside' \in [at : {"no", "sleep", "leave"}, num : Nat] /\ inside'.num <= session_number
      /\ starter' \in [at : {"no", "starting"}, num : Nat] /\ starter'.num <= session_number
      /\ inside'.at = "leave" => inside.at = "leave"
      /\ inside'.at # "no" => inside' = inside
      /\ starter'.at # "no" => starter' = starter
      /\ starter' # Nowhere => starter'.at = "starting"
      /\ inside # Nowhere \/ starter # Nowhere
  BY <1>2 DEF Inv, Types, Numbered, Replaces, Nowhere, At
<1>4. o \in OpType /\ o.op = "connect" /\ o.num = n /\ o.msg = 0
  BY <1>3, BoundsAssumption DEF Op, OpType, ChainOps
<1> HIDE DEF o
<1>5. /\ \A h \in Elems(strand') : h \in Elems(strand) \/ h \in Elems(Aborted)
      /\ \A h \in Elems(strand) : h \in Elems(strand')
      /\ \A p \in ops' : p \in ops \/ p = o
  BY <1>1, <1>2, BeforeAborted
<1>6. \A h \in Elems(Aborted) :
        /\ h.op # "post" /\ h.op # "stop" /\ ~Written(h) /\ h.num = session_number
        /\ \E p \in ops : p.num = session_number /\ p.op = h.op
  BY <1>2, AbortedElems DEF ChainOps, Written
<1>7. Types'
  <2>1. ws' \in {"null", "connecting", "handshaking", "open", "closing", "dead"}
    BY <1>1, <1>2 DEF Types, TypeOK
  <2>2. threw' \subseteq {"bind", "shutdown"}
    BY <1>1, <1>2 DEF Types, TypeOK
  <2>3. \A p \in ops' : p.op \in {"connect", "handshake", "read", "write", "close"}
    BY <1>1, <1>2, <1>4 DEF Types, TypeOK
  <2>4. TypeOK'
    BY <1>1, <1>2, <1>3, <2>1, <2>2, <2>3 DEF Types, TypeOK
  <2>5. strand' \in Seq(HandlerType)
    BY <1>1, <1>2, BeforeAborted
  <2>6. IsFiniteSet(ops')
    BY <1>1, <1>2, OpCountOne DEF Types
  <2>7. ops' \in SUBSET OpType /\ \A p \in ops' : p.op = "write" <=> p.msg # 0
    BY <1>1, <1>2, <1>4 DEF Types
  <2>8. \A h \in Elems(strand') : h.op = "post" => h.msg # 0 /\ h.msg <= posted
    BY <1>2, <1>5, <1>6 DEF Types
  <2> QED BY <1>1, <1>3, <2>4, <2>5, <2>6, <2>7, <2>8 DEF Types
<1>8. Numbered'
  <2>1. \A h \in Elems(strand') : h.num <= session_number
    BY <1>2, <1>5, <1>6 DEF Inv, Numbered
  <2>2. \A p \in ops' : p.num <= session_number
    BY <1>3, <1>4, <1>5 DEF Inv, Numbered
  <2> QED BY <1>1, <1>3, <2>1, <2>2 DEF Numbered
<1>9. Stopping'
  <2>1. Ordered(strand', InOrder)
    BY <1>1, <1>2, BeforeAborted DEF Inv, Stopping
  <2> QED BY <1>1, <1>5, <1>6, <2>1 DEF Inv, Stopping, Apart
<1>10. Quiet'
  <2> SUFFICES ASSUME Apart, Ended
               PROVE  /\ \A p \in ops' : p.num < session_number
                      /\ \A h \in Elems(strand') : h.op \notin {"post", "stop"} => h.num < session_number
                      /\ inside'.at # "leave"
                      /\ inside'.at = "sleep" => inside'.num < session_number
                      /\ starter'.at = "starting" => starter'.num < session_number
    BY <1>1 DEF Quiet, Apart, Ended
  <2>1. n < session_number
    BY <1>2, <1>3, NoneAtReplace
  <2>2. \A p \in ops' : p.num < session_number
    BY <1>4, <1>5, <2>1 DEF Inv, Quiet
  <2>3. \A h \in Elems(Aborted) : FALSE
    BY <1>2, <1>6 DEF Inv, Quiet
  <2>4. \A h \in Elems(strand') : h.op \notin {"post", "stop"} => h.num < session_number
    BY <1>5, <2>3 DEF Inv, Quiet
  <2> QED BY <1>3, <2>2, <2>4 DEF Inv, Quiet
<1>11. ASSUME Apart
       PROVE  /\ \A h \in Elems(strand') : ~(h.num = session_number /\ h.op \in ChainOps)
              /\ OpCount(ops', session_number, ChainOps) = IF ws' = "connecting" /\ ops' = {o} /\ ~Ended THEN 1 ELSE 0
              /\ Live' = OpCount(ops', session_number, ChainOps)
              /\ Reads' = 0
  <2>1. /\ n = session_number <=> ~Ended
        /\ \A p \in ops : ~(p.num = session_number /\ p.op \in ChainOps)
        /\ \A h \in Elems(strand) : ~(h.num = session_number /\ h.op \in ChainOps)
        /\ Asleep' = 0 /\ Starting' = 0
    BY <1>1, <1>11, NoneAtReplace
  <2>2. \A h \in Elems(strand') : ~(h.num = session_number /\ h.op \in ChainOps)
    BY <1>5, <1>6, <2>1
  <2>3. HandlerCount(strand', session_number, ChainOps) = 0
    BY <1>7, <2>2, CountsNat DEF Types
  <2>4. OpCount(ops', session_number, ChainOps) = IF ws' = "connecting" /\ ops' = {o} /\ ~Ended THEN 1 ELSE 0
    <3>1. CASE ops' = {o}
      <4>1. Counts(o, session_number, ChainOps) <=> ~Ended
        BY <1>4, <2>1 DEF Counts, ChainOps
      <4>2. OpCount(ops', session_number, ChainOps) = IF Counts(o, session_number, ChainOps) THEN 1 ELSE 0
        BY <3>1, OpCountOne
      <4>3. ~Ended => ws' = "connecting"
        <5>1. CASE ops = {o}
          BY <1>4, <2>1, <5>1 DEF ChainOps
        <5> QED BY <1>1, <3>1, <5>1
      <4> QED BY <3>1, <4>1, <4>2, <4>3
    <3>2. CASE ops' # {o}
      <4>1. ops' = ops
        BY <1>1, <3>2
      <4>2. OpCount(ops, session_number, ChainOps) = 0
        BY <1>2, <2>1, CountsNat DEF Types
      <4> QED BY <3>2, <4>1, <4>2
    <3> QED BY <3>1, <3>2
  <2>5. OpCount(ops', session_number, ChainOps) \in Nat
    BY <1>7, CountsNat DEF Types
  <2>6. Live' = OpCount(ops', session_number, ChainOps)
    BY <1>1, <2>1, <2>3, <2>5 DEF Live
  <2>7. \A p \in ops' : ~(p.num = session_number /\ p.op = "read")
    BY <1>4, <1>5, <2>1 DEF ChainOps
  <2>8. Reads' = 0
    <3>1. \A h \in Elems(strand') : ~(h.num = session_number /\ h.op = "read")
      BY <2>2 DEF ChainOps
    <3> QED BY <1>1, <1>7, <2>7, <3>1, SumsNone
  <2> QED BY <2>2, <2>4, <2>6, <2>8
<1>12. Single'
  <2> SUFFICES ASSUME Apart PROVE Single'
    BY <1>1 DEF Single, Apart
  <2>1. Live' <= 1
    BY <1>11
  <2>2. ~Ended /\ inside'.at # "no" => inside'.num = session_number
    BY <1>3 DEF Inv, Single
  <2>3. ~is_stopped /\ "bind" \notin threw' => Live' = 1
    <3> SUFFICES ASSUME ~is_stopped, "bind" \notin threw' PROVE Live' = 1
      OBVIOUS
    <3>1. ws' = "connecting" /\ ops' = {o}
      BY <1>1
    <3> QED BY <1>11, <3>1 DEF Ended
  <2>4. ASSUME ~is_stopped, inside'.at # "leave", threw' = {} PROVE ~told
    <3>1. threw = {} /\ inside.at # "leave"
      BY <1>1, <2>4 DEF Replaces
    <3>2. Reads = 0
      BY NoneAtReplace
    <3> QED BY <2>4, <3>1, <3>2 DEF Inv, Single
  <2> QED BY <1>1, <1>11, <2>1, <2>2, <2>3, <2>4 DEF Single, Ended
<1>13. Shaken'
  <2> SUFFICES ASSUME Calm PROVE Shaken'
    BY <1>1 DEF Shaken, Calm, Apart
  <2>1. Apart
    BY DEF Calm
  <2>2. /\ \A h \in Elems(strand) : ~(h.num = session_number /\ h.op \in ChainOps)
        /\ \A p \in ops : ~(p.num = session_number /\ p.op \in ChainOps)
    BY <2>1, NoneAtReplace
  <2>3. Ordered(strand', WriteOrder(session_number))
    BY <1>1, <1>2, <2>2, BeforeAborted DEF Inv, Shaken, ChainOps
  <2>4. ASSUME NEW p \in ops', p.num = session_number
        PROVE  /\ p.op = "connect" => ops' = {p} /\ ws' \in {"connecting", "dead"}
               /\ p.op = "handshake" => ops' = {p} /\ ws' = "handshaking"
    BY <1>1, <1>4, <2>2, <2>4 DEF ChainOps
  <2> QED BY <1>1, <1>11, <2>1, <2>3, <2>4 DEF Shaken, ChainOps
<1>14. Pending'
  BY <1>1, <1>4, <1>5, <1>6, PendingKept DEF Inv, Calm, Apart
<1>15. Writing' /\ NoFault'
  BY <1>1, <1>11 DEF Inv, Writing, NoFault, Calm, Apart
<1>16. First'
  BY <1>1, <1>3 DEF Inv, First, Apart
<1>17. Sequel'
  BY <1>1, <1>5, <1>6, SequelKept DEF Inv
<1> QED BY <1>7, <1>8, <1>9, <1>10, <1>12, <1>13, <1>14, <1>15, <1>16, <1>17 DEF Inv

LEMMA WakeStep ==
  ASSUME Inv, Wake
  PROVE  Inv'
<1>1. Replaces(inside.num) /\ NewStream(inside.num, strand) /\ ~fault
  BY DEF Wake, Replaces, threads
<1> QED BY <1>1, NewStreamInv DEF Wake, threads

LEMMA StartConnectionStep ==
  ASSUME Inv, StartConnection
  PROVE  Inv'
<1>1. /\ ~fault /\ starter # Nowhere /\ starter' = Nowhere
      /\ UNCHANGED <<is_stopped, session_number, inside, messages, told, stopper,
                     counts, raced, overlapped, fault>>
  BY DEF StartConnection
<1>2. Types /\ starter.at = "starting" /\ session_number \in Nat
  BY <1>1 DEF Inv, Types, TypeOK
<1>3. CASE Current(starter.num)
  <2>1. Replaces(starter.num) /\ NewStream(starter.num, strand)
    BY <1>1, <1>2, <1>3 DEF Replaces, StartConnection
  <2> QED BY <1>1, <2>1, NewStreamInv
<1>4. CASE ~Current(starter.num)
  <2>1. UNCHANGED <<is_stopped, session_number, inside, send_queue, wire, early, told, stopper, posted,
                    failures, starts, raced, overlapped, fault, ws, ops, strand, threw>>
    BY <1>1, <1>4 DEF StartConnection, messages, counts, stream
  <2>2. starter'.at = "no" /\ starter'.num = 0 /\ starter' \in [at : {"no", "starting"}, num : Nat]
    BY <1>1 DEF Nowhere, At
  <2>3. Types' /\ Numbered'
    BY <1>1, <1>2, <2>1, <2>2 DEF Inv, Types, TypeOK, Numbered
  <2>4. Stopping' /\ Quiet' /\ Pending' /\ NoFault'
    BY <2>1, <2>2 DEF Inv, Stopping, Quiet, Pending, NoFault, Calm, Apart, Ended
  <2>5. Reads' = Reads /\ WritesOf' = WritesOf /\ Asleep' = Asleep /\ Starting' = 0
    BY <2>1, <2>2 DEF Reads, WritesOf, Asleep, Starting
  <2>6. Shaken' /\ Writing'
    BY <2>1, <2>5 DEF Inv, Shaken, Writing, Calm, Apart
  <2>7. Live' = HandlerCount(strand, session_number, ChainOps) + OpCount(ops, session_number, ChainOps) + Asleep
    <3>1. /\ HandlerCount(strand, session_number, ChainOps) \in Nat
          /\ OpCount(ops, session_number, ChainOps) \in Nat /\ Asleep \in Nat
      BY <1>2, SumsNat
    <3>2. Live' = HandlerCount(strand, session_number, ChainOps) + OpCount(ops, session_number, ChainOps)
                    + Asleep + 0
      BY <2>1, <2>5 DEF Live
    <3> QED BY <3>1, <3>2
  <2>8. Live = Live' + Starting /\ Starting \in {0, 1} /\ Live' \in Nat
    <3>1. /\ HandlerCount(strand, session_number, ChainOps) \in Nat
          /\ OpCount(ops, session_number, ChainOps) \in Nat /\ Asleep \in Nat /\ Starting \in {0, 1}
      BY <1>2, SumsNat
    <3> QED BY <2>7, <3>1 DEF Live
  <2>9. ~is_stopped => Starting = 0
    BY <1>4 DEF Current, Starting
  <2>10. \A l \in Nat, k \in {0, 1} : (l + k <= 1 => l <= 1) /\ (k = 0 => l + k = l)
    OBVIOUS
  <2>11. (Live <= 1 => Live' <= 1) /\ (~is_stopped => Live = Live')
    BY <2>8, <2>9, <2>10, Zenon
  <2>12. Single'
    BY <1>1, <2>1, <2>5, <2>11 DEF Inv, Single, Apart, Ended
  <2>13. First' /\ Sequel'
    BY <1>1, <2>1, SequelKept DEF Inv, First, Apart
  <2> QED BY <2>3, <2>4, <2>6, <2>12, <2>13 DEF Inv
<1> QED BY <1>3, <1>4

LEMMA StartStep ==
  ASSUME Inv, Start
  PROVE  Inv'
<1>1. /\ ~fault /\ is_stopped /\ starter = Nowhere /\ starts < MaxStarts /\ starts' = starts + 1
      /\ is_stopped' = FALSE /\ starter' = At("starting", session_number)
      /\ overlapped' = (overlapped \/ stopper # "idle" \/ strand # <<>> \/ inside # Nowhere)
      /\ UNCHANGED <<session_number, ws, ops, strand, inside, send_queue, wire, early, told, stopper,
                     posted, failures, raced, threw, fault>>
  BY DEF Start, stream, messages
<1>2. /\ Types /\ session_number \in Nat /\ starts \in Nat /\ raced \in BOOLEAN /\ overlapped \in BOOLEAN
      /\ inside'.at = inside.at /\ inside'.num = inside.num
  BY <1>1 DEF Inv, Types, TypeOK
<1>3. /\ starter'.at = "starting" /\ starter'.num = session_number
      /\ starter' \in [at : {"no", "starting"}, num : Nat]
  BY <1>1, <1>2 DEF At
<1>4. Types' /\ Numbered'
  <2>1. starts' \in 0 .. MaxStarts
    BY <1>1, <1>2, BoundsAssumption
  <2>2. TypeOK'
    BY <1>1, <1>2, <1>3, <2>1 DEF Types, TypeOK
  <2>3. Types'
    BY <1>1, <1>2, <1>3, <2>2 DEF Types
  <2> QED BY <1>1, <1>2, <1>3, <2>3 DEF Inv, Numbered
<1>5. ASSUME Apart'
      PROVE  /\ Apart /\ Ended /\ stopper = "idle" /\ strand = <<>> /\ inside = Nowhere /\ inside.at = "no"
             /\ \A o \in ops : o.num < session_number
             /\ Elems(strand) = {}
  <2>1. Apart /\ stopper = "idle" /\ strand = <<>> /\ inside = Nowhere
    BY <1>1, <1>5 DEF Apart
  <2>2. Ended
    BY <1>1, <2>1 DEF Ended
  <2>3. inside.at = "no"
    BY <2>1 DEF Nowhere, At
  <2>4. Elems(strand) = {}
    BY <2>1 DEF Elems
  <2> QED BY <2>1, <2>2, <2>3, <2>4 DEF Inv, Quiet
<1>6. Stopping' /\ NoFault'
  BY <1>1 DEF Inv, Stopping, NoFault, Calm, Apart
<1>7. Quiet'
  BY <1>1 DEF Quiet, Ended
<1>8. ASSUME Apart' PROVE Live' = 1 /\ Reads' = 0
  <2>1. \A o \in ops : o.num # session_number
    BY <1>2, <1>5, <1>8
  <2>2. HandlerCount(strand, session_number, ChainOps) = 0 /\ OpCount(ops, session_number, ChainOps) = 0
    <3>1. \A h \in Elems(strand) : ~(h.num = session_number /\ h.op \in ChainOps)
      BY <1>5, <1>8
    <3>2. \A o \in ops : ~(o.num = session_number /\ o.op \in ChainOps)
      BY <2>1
    <3>3. HandlerCount(strand, session_number, ChainOps) = 0
      BY <1>2, <3>1, CountNone DEF Types
    <3>4. OpCount(ops, session_number, ChainOps) = 0
      <4>1. IsFiniteSet(ops)
        BY <1>2 DEF Types
      <4> QED BY <3>2, <4>1, OpCountNone
    <3> QED BY <3>3, <3>4
  <2>3. Asleep' = 0 /\ Starting' = 1
    BY <1>1, <1>3, <1>5, <1>8 DEF Asleep, Starting
  <2>4. Live' = 1
    BY <1>1, <2>2, <2>3 DEF Live
  <2>5. Reads' = 0
    BY <1>1, <1>4, <1>5, <1>8, <2>1, SumsNone
  <2> QED BY <2>4, <2>5
<1>9. Single'
  BY <1>1, <1>5, <1>8 DEF Inv, Single, Stopping, Ended
<1>10. Shaken'
  <2> SUFFICES ASSUME Calm' PROVE Shaken'
    BY DEF Shaken
  <2>1. Apart' /\ Calm
    BY <1>1 DEF Calm, Apart
  <2> QED BY <1>1, <1>8, <2>1 DEF Inv, Shaken
<1>11. Pending'
  BY <1>1, PendingKept DEF Inv, Calm, Apart
<1>12. Writing'
  BY <1>8 DEF Writing, Calm
<1>13. First' /\ Sequel'
  <2>1. starts' # 0
    BY <1>1, <1>2
  <2>2. ASSUME starts' <= 1
        PROVE  /\ stopper = "idle" /\ Apart' /\ wire = <<>> /\ send_queue = <<>> /\ posted = 0
               /\ Elems(strand) = {}
    <3>1. starts = 0
      BY <1>1, <1>2, <2>2
    <3>2. /\ stopper = "idle" /\ strand = <<>> /\ inside = Nowhere /\ Apart
          /\ wire = <<>> /\ send_queue = <<>> /\ posted = 0
      BY <3>1 DEF Inv, First
    <3>3. Elems(strand) = {}
      BY <3>2 DEF Elems
    <3> QED BY <1>1, <3>2, <3>3 DEF Apart
  <2>3. First'
    BY <1>1, <2>1, <2>2 DEF First
  <2>4. ASSUME starts' <= 1 PROVE Gone' = 0 /\ Len(wire) = 0 /\ Len(send_queue) = 0
    <3>1. ~WritingEnded'
      BY <1>1, <2>2, <2>4 DEF WritingEnded
    <3>2. Len(wire) = 0 /\ Len(send_queue) = 0
      BY <2>2, <2>4
    <3>3. Gone' = Len(wire) - 0
      BY <1>1, <3>1 DEF Gone
    <3> QED BY <3>2, <3>3
  <2>5. Sequel'
    BY <1>1, <2>2, <2>4 DEF Sequel
  <2> QED BY <2>3, <2>5
<1> QED BY <1>4, <1>6, <1>7, <1>9, <1>10, <1>11, <1>12, <1>13 DEF Inv

-----------------------------------------------------------------------------
(* Every step keeps it: other threads *)

LEMMA StopStep ==
  ASSUME Inv, Stop
  PROVE  Inv'
<1>1. /\ ~fault /\ ~is_stopped /\ stopper = "idle" /\ is_stopped' = TRUE /\ stopper' = "flagged"
      /\ UNCHANGED <<session_number, ws, ops, strand, inside, send_queue, wire, early, told, starter,
                     posted, failures, starts, raced, overlapped, threw, fault>>
  BY DEF Stop, stream, messages, counts, flags
<1>2. Types' /\ Numbered'
  BY <1>1 DEF Inv, Types, TypeOK, Numbered
<1>3. Stopping' /\ Quiet' /\ Pending' /\ NoFault'
  BY <1>1 DEF Inv, Stopping, Quiet, Pending, NoFault, Calm, Apart, Ended
<1>4. Live' = Live /\ Reads' = Reads
  BY <1>1 DEF Live, Reads, Asleep, Starting
<1>5. Single' /\ Shaken' /\ Writing'
  BY <1>1, <1>4 DEF Inv, Single, Shaken, Writing, Calm, Apart, Ended
<1>6. First' /\ Sequel'
  BY <1>1 DEF Inv, First, Sequel
<1> QED BY <1>2, <1>3, <1>5, <1>6 DEF Inv

LEMMA ElemsType ==
  ASSUME NEW s \in Seq(HandlerType)
  PROVE  \A h \in Elems(s) : h \in HandlerType /\ h.num \in Nat
<1>1. \A h \in Elems(s) : h \in HandlerType
  BY LenProperties DEF Elems
<1>2. \A h \in HandlerType : h.num \in Nat
  BY DEF HandlerType
<1> QED BY <1>1, <1>2

\* A new number leaves the order of what waits as it was.
LEMMA Renumbered ==
  ASSUME Inv, session_number' = session_number + 1
  PROVE  /\ \A o \in ops : o.num <= session_number /\ o.num < session_number'
         /\ \A h \in Elems(strand) : h.num <= session_number /\ h.num < session_number'
         /\ inside.num < session_number' /\ starter.num < session_number'
         /\ Ordered(strand, WriteOrder(session_number)) => Ordered(strand, WriteOrder(session_number'))
         /\ session_number' \in Nat
<1>1. /\ Types /\ session_number \in Nat /\ \A o \in ops : o.num \in Nat
      /\ strand \in Seq(HandlerType)
  BY DEF Inv, Types, TypeOK, OpType
<1>2. \A i \in 1 .. Len(strand) : strand[i] \in HandlerType /\ strand[i] \in Elems(strand)
  BY <1>1, LenProperties DEF Elems
<1>3. \A h \in Elems(strand) : h \in HandlerType /\ h.num \in Nat
  BY <1>1, ElemsType
<1>4. /\ inside.num \in Nat /\ starter.num \in Nat
  BY <1>1 DEF Types
<1>5. /\ \A o \in ops : o.num <= session_number /\ o.num < session_number'
      /\ \A h \in Elems(strand) : h.num <= session_number /\ h.num < session_number'
      /\ inside.num < session_number' /\ starter.num < session_number'
      /\ session_number' \in Nat
  BY <1>1, <1>3, <1>4 DEF Inv, Numbered
<1>6. ASSUME Ordered(strand, WriteOrder(session_number)), NEW i \in 1 .. Len(strand), NEW j \in 1 .. Len(strand), i < j
      PROVE  <<strand[i], strand[j]>> \in WriteOrder(session_number')
  <2>1. <<strand[i], strand[j]>> \in WriteOrder(session_number)
    BY <1>6 DEF Ordered
  <2>2. strand[i].num # session_number'
    BY <1>2, <1>3, <1>5
  <2> QED BY <2>1, <2>2 DEF WriteOrder
<1> QED BY <1>5, <1>6 DEF Ordered

\* Nothing that was under way belongs to the new session.
LEMMA NewSession ==
  ASSUME Inv, Types', session_number' = session_number + 1, UNCHANGED starter,
         \A o \in ops' : o.num = session_number' => o.op = "close",
         \A h \in Elems(strand') : h \in Elems(strand) \/ h.op = "stop"
  PROVE  /\ HandlerCount(strand', session_number', ChainOps) = 0
         /\ Starting' = 0 /\ Reads' = 0
         /\ \A h \in Elems(strand') : h.num = session_number' => h.op = "stop"
<1>1. /\ \A h \in Elems(strand) : h.num < session_number'
      /\ starter.num < session_number' /\ session_number' \in Nat
      /\ \A h \in Elems(strand) : h.num \in Nat
  <2>1. strand \in Seq(HandlerType)
    BY DEF Inv, Types
  <2>2. \A h \in Elems(strand) : h.num \in Nat
    BY <2>1, ElemsType
  <2> QED BY <2>2, Renumbered
<1>2. \A h \in Elems(strand') : h.num = session_number' => h.op = "stop"
  BY <1>1
<1>3. strand' \in Seq(HandlerType)
  BY DEF Types
<1>4. HandlerCount(strand', session_number', ChainOps) = 0
  BY <1>2, <1>3, CountNone DEF ChainOps
<1>5. Reads' = 0
  BY <1>2, SumsNone
<1>6. Starting' = 0
  BY <1>1 DEF Starting
<1> QED BY <1>2, <1>4, <1>5, <1>6

LEMMA PostStopStep ==
  ASSUME Inv, PostStop
  PROVE  Inv'
<1> DEFINE h == Done(Op("stop", 0, 0), "ok")
<1>1. /\ ~fault /\ stopper = "flagged" /\ stopper' = "waiting" /\ session_number' = session_number + 1
      /\ strand' = Append(strand, h) /\ raced' = (raced \/ inside.at = "leave")
      /\ UNCHANGED <<is_stopped, ws, ops, inside, send_queue, wire, early, told, starter, posted,
                     failures, starts, overlapped, threw, fault>>
  BY DEF PostStop, stream, messages, counts
<1>2. h \in HandlerType /\ h.op = "stop" /\ h.num = 0 /\ h.result = "ok"
  BY BoundsAssumption DEF Done, Op, HandlerType, Results
<1> HIDE DEF h
<1>3. /\ Types /\ strand \in Seq(HandlerType) /\ session_number \in Nat
      /\ inside.at \in {"no", "sleep", "leave"} /\ raced \in BOOLEAN
  BY DEF Inv, Types, TypeOK
<1>4. /\ strand' \in Seq(HandlerType) /\ Elems(strand') = Elems(strand) \union {h}
      /\ \A R : Ordered(strand, R) /\ (\A d \in Elems(strand) : <<d, h>> \in R) => Ordered(strand', R)
  BY <1>1, <1>2, <1>3, AppendElems
<1>5. /\ \A d \in Elems(strand) : d \in HandlerType
  BY <1>3, LenProperties DEF Elems
<1>6. Types'
  <2>1. TypeOK'
    BY <1>1, <1>3 DEF Types, TypeOK
  <2> QED BY <1>1, <1>2, <1>3, <1>4, <2>1 DEF Types
<1>7. /\ session_number' \in Nat
      /\ \A o \in ops : o.num <= session_number /\ o.num < session_number'
      /\ \A d \in Elems(strand) : d.num < session_number'
      /\ inside.num < session_number' /\ starter.num < session_number'
  BY <1>1, Renumbered
<1>8. Numbered'
  <2>1. \A d \in Elems(strand') : d.num <= session_number'
    BY <1>1, <1>2, <1>3, <1>4, <1>7, ElemsType
  <2>2. \A o \in ops' : o.num <= session_number'
    BY <1>1, <1>3, <1>7 DEF Types, OpType
  <2>3. inside'.num <= session_number' /\ starter'.num <= session_number'
    BY <1>1, <1>3, <1>7 DEF Types
  <2> QED BY <2>1, <2>2, <2>3 DEF Numbered
<1>9. Stopping'
  <2>1. \A d \in Elems(strand) : <<d, h>> \in InOrder
    BY <1>1, <1>2, <1>5 DEF Inv, Stopping, InOrder
  <2>2. Ordered(strand', InOrder)
    BY <1>4, <2>1 DEF Inv, Stopping
  <2> QED BY <1>1, <2>2 DEF Inv, Stopping, Apart
<1>10. Quiet'
  BY <1>1, <1>2, <1>4, <1>7 DEF Quiet, Apart
<1>11. ASSUME Apart' PROVE Apart /\ is_stopped /\ Ended'
  BY <1>1, <1>11 DEF Inv, Stopping, Apart, Ended
<1>12. /\ \A o \in ops' : o.num # session_number'
       /\ \A d \in Elems(strand') : d \in Elems(strand) \/ d.op = "stop"
  BY <1>1, <1>2, <1>4, <1>7
<1>13. /\ HandlerCount(strand', session_number', ChainOps) = 0
       /\ Starting' = 0 /\ Reads' = 0
       /\ \A d \in Elems(strand') : d.num = session_number' => d.op = "stop"
  BY <1>1, <1>6, <1>12, NewSession
<1>14. Live' = 0
  <2>1. IsFiniteSet(ops')
    BY <1>6 DEF Types
  <2>2. OpCount(ops', session_number', ChainOps) = 0
    BY <1>12, <2>1, OpCountNone
  <2>3. Asleep' = 0
    BY <1>1, <1>7 DEF Asleep
  <2> QED BY <1>13, <2>2, <2>3 DEF Live
<1>15. Single'
  BY <1>1, <1>11, <1>14 DEF Single, Ended
<1>16. Shaken'
  <2> SUFFICES ASSUME Calm' PROVE Shaken'
    BY DEF Shaken
  <2>1. Calm
    BY <1>1, <1>11 DEF Calm
  <2>2. \A d \in Elems(strand) : <<d, h>> \in WriteOrder(session_number')
    BY <1>1, <1>2, <1>5 DEF WriteOrder, Written
  <2>3. Ordered(strand', WriteOrder(session_number'))
    BY <1>1, <1>4, <2>1, <2>2, Renumbered DEF Inv, Shaken
  <2> QED BY <1>12, <1>13, <2>3 DEF Shaken
<1>17. Pending'
  <2>1. \A d \in Elems(strand') : Written(d) => d \in Elems(strand)
    BY <1>2, <1>4 DEF Written
  <2> QED BY <1>1, <1>11, <2>1, PendingKept DEF Inv, Calm
<1>18. Writing' /\ NoFault'
  BY <1>1, <1>13 DEF Writing, NoFault
<1>19. First' /\ Sequel'
  BY <1>1 DEF Inv, First, Sequel
<1> QED BY <1>6, <1>8, <1>9, <1>10, <1>15, <1>16, <1>17, <1>18, <1>19 DEF Inv

LEMMA PostStep ==
  ASSUME Inv, Post
  PROVE  Inv'
<1> DEFINE h == Done(Op("post", 0, posted + 1), "ok")
<1>1. /\ ~fault /\ ~is_stopped /\ posted < MaxMessages /\ posted' = posted + 1
      /\ strand' = Append(strand, h)
      /\ UNCHANGED <<is_stopped, session_number, ws, ops, inside, send_queue, wire, early, told,
                     starter, stopper, failures, starts, raced, overlapped, threw, fault>>
  BY DEF Post, stream, messages, threads, flags
<1>2. Types /\ strand \in Seq(HandlerType) /\ posted \in Nat /\ posted' \in 0 .. MaxMessages
  BY <1>1, BoundsAssumption DEF Inv, Types, TypeOK
<1>3. h \in HandlerType /\ h.op = "post" /\ h.num = 0 /\ h.msg = posted + 1 /\ ~Written(h)
  BY <1>1, <1>2, BoundsAssumption DEF Done, Op, HandlerType, Results, Written
<1> HIDE DEF h
<1>4. /\ strand' \in Seq(HandlerType) /\ Elems(strand') = Elems(strand) \union {h}
      /\ \A R : Ordered(strand, R) /\ (\A d \in Elems(strand) : <<d, h>> \in R) => Ordered(strand', R)
  BY <1>1, <1>2, <1>3, AppendElems
<1>5. \A d \in Elems(strand) : d \in HandlerType
  BY <1>2, ElemsType
<1>6. \A d \in Elems(strand) : d.op = "post" => d.msg < posted + 1 /\ d.msg # 0 /\ d.msg <= posted + 1
  <2>1. \A d \in Elems(strand) : d.op = "post" => d.msg # 0 /\ d.msg <= posted
    BY <1>2 DEF Types
  <2>2. \A d \in Elems(strand) : d.msg \in Nat
    BY <1>5, BoundsAssumption DEF HandlerType
  <2> QED BY <1>2, <2>1, <2>2
<1>7. Types'
  <2>1. TypeOK'
    BY <1>1, <1>2 DEF Types, TypeOK
  <2>2. \A d \in Elems(strand') : d.op = "post" => d.msg # 0 /\ d.msg <= posted'
    BY <1>1, <1>2, <1>3, <1>4, <1>6
  <2> QED BY <1>1, <1>2, <1>4, <2>1, <2>2 DEF Types
<1>8. Numbered'
  <2>1. 0 <= session_number
    BY <1>2 DEF Types, TypeOK
  <2> QED BY <1>1, <1>3, <1>4, <2>1 DEF Inv, Numbered
<1>9. Stopping'
  <2>1. \A d \in Elems(strand) : <<d, h>> \in InOrder
    BY <1>3, <1>5, <1>6 DEF InOrder
  <2>2. Ordered(strand', InOrder)
    BY <1>4, <2>1 DEF Inv, Stopping
  <2> QED BY <1>1, <1>3, <1>4, <2>2 DEF Inv, Stopping, Apart
<1>10. Quiet'
  BY <1>1 DEF Quiet, Ended
<1>11. Live' = Live /\ Reads' = Reads /\ WritesOf' = WritesOf
  <2>1. \A hs \in {ChainOps, {"read"}, {"write"}} :
          /\ HandlerCount(strand', session_number, hs) = HandlerCount(strand, session_number, hs)
          /\ OpCount(ops', session_number, hs) = OpCount(ops, session_number, hs)
    <3> TAKE hs \in {ChainOps, {"read"}, {"write"}}
    <3>1. ~Counts(h, session_number, hs)
      BY <1>3 DEF Counts, ChainOps
    <3>2. HandlerCount(strand', session_number, hs)
            = HandlerCount(strand, session_number, hs) + IF Counts(h, session_number, hs) THEN 1 ELSE 0
      BY <1>1, <1>2, <1>3, CountAppend
    <3>3. HandlerCount(strand, session_number, hs) \in Nat
      BY <1>2, SumsNat
    <3> QED BY <1>1, <3>1, <3>2, <3>3
  <2> QED BY <1>1, <2>1, SumsKept
<1>12. Single'
  BY <1>1, <1>11 DEF Inv, Single, Apart, Ended
<1>13. Shaken'
  <2> SUFFICES ASSUME Calm PROVE Shaken'
    BY <1>1 DEF Shaken, Calm, Apart
  <2>1. \A d \in Elems(strand) : <<d, h>> \in WriteOrder(session_number)
    BY <1>3, <1>5 DEF WriteOrder
  <2>2. Ordered(strand', WriteOrder(session_number))
    BY <1>4, <2>1 DEF Inv, Shaken
  <2> QED BY <1>1, <1>3, <1>4, <1>11, <2>2 DEF Inv, Shaken
<1>14. Pending'
  <2>1. \A d \in Elems(strand') : Written(d) => d \in Elems(strand)
    BY <1>3, <1>4
  <2> QED BY <1>1, <2>1, PendingKept DEF Inv, Calm, Apart
<1>15. Writing' /\ NoFault'
  BY <1>1, <1>11 DEF Inv, Writing, NoFault, Calm, Apart
<1>16. First'
  BY <1>1 DEF Inv, First, Apart
<1>17. Sequel'
  <2> SUFFICES ASSUME starts <= 1, ~early
               PROVE  /\ \A i \in 1 .. Len(wire) : wire[i] = i
                      /\ \A i \in 1 .. Len(send_queue) : send_queue[i] = Gone' + i
                      /\ Gone' + Len(send_queue) <= posted + 1
                      /\ \A d \in Elems(strand') : d.op = "post" => d.msg > Gone' + Len(send_queue)
                      /\ \A m \in Gone' + Len(send_queue) + 1 .. posted + 1 :
                           \E d \in Elems(strand') : d.op = "post" /\ d.msg = m
    BY <1>1 DEF Sequel
  <2>1. WritingEnded' <=> WritingEnded
    BY <1>3, <1>4 DEF WritingEnded
  <2>2. Gone' = Gone
    BY <1>1, <2>1 DEF Gone
  <2>3. Gone + Len(send_queue) \in Int
    BY <1>2, LenProperties DEF Types, TypeOK, Gone
  <2>4. /\ \A i \in 1 .. Len(wire) : wire[i] = i
        /\ \A i \in 1 .. Len(send_queue) : send_queue[i] = Gone + i
        /\ Gone + Len(send_queue) <= posted
        /\ \A d \in Elems(strand) : d.op = "post" => d.msg > Gone + Len(send_queue)
        /\ \A m \in Gone + Len(send_queue) + 1 .. posted :
             \E d \in Elems(strand) : d.op = "post" /\ d.msg = m
    BY <1>1 DEF Inv, Sequel
  <2>5. Gone + Len(send_queue) <= posted + 1 /\ posted + 1 > Gone + Len(send_queue)
    BY <1>2, <2>3, <2>4
  <2>6. \A m \in Gone + Len(send_queue) + 1 .. posted + 1 :
          m \in Gone + Len(send_queue) + 1 .. posted \/ m = posted + 1
    BY <1>2, <2>3
  <2>7. \A m \in Gone + Len(send_queue) + 1 .. posted + 1 :
          \E d \in Elems(strand') : d.op = "post" /\ d.msg = m
    BY <1>3, <1>4, <2>4, <2>6
  <2>8. \A d \in Elems(strand') : d.op = "post" => d.msg > Gone + Len(send_queue)
    BY <1>3, <1>4, <2>4, <2>5
  <2> QED BY <2>2, <2>4, <2>5, <2>7, <2>8
<1> QED BY <1>7, <1>8, <1>9, <1>10, <1>12, <1>13, <1>14, <1>15, <1>16, <1>17 DEF Inv

-----------------------------------------------------------------------------
(* Every step keeps it: losing a connection *)

LEMMA LeaveStep ==
  ASSUME Inv, Leave
  PROVE  Inv'
<1> DEFINE o == Op("close", session_number', 0)
<1>1. /\ ~fault /\ inside.at = "leave" /\ session_number' = session_number + 1 /\ told' = FALSE
      /\ UNCHANGED <<is_stopped, strand, send_queue, wire, early, starter, stopper, posted, failures,
                     starts, raced, overlapped, threw, fault>>
      /\ \/ ws' = "closing" /\ ops' = Writes \union {o} /\ inside' = Nowhere
         \/ /\ UNCHANGED ws /\ ops' = Writes
            /\ inside' = IF is_stopped THEN Nowhere ELSE At("sleep", session_number')
  BY DEF Leave, NextNumber, messages, threads, counts, flags
<1>2. /\ Types /\ session_number \in Nat /\ ops \in SUBSET OpType /\ IsFiniteSet(ops)
      /\ strand \in Seq(HandlerType)
  BY DEF Inv, Types, TypeOK
<1>3. /\ session_number' \in Nat
      /\ \A p \in ops : p.num <= session_number /\ p.num < session_number'
      /\ \A d \in Elems(strand) : d.num <= session_number /\ d.num < session_number'
      /\ starter.num < session_number'
  BY <1>1, Renumbered
<1>4. o \in OpType /\ o.op = "close" /\ o.num = session_number' /\ o.msg = 0
  BY <1>3, BoundsAssumption DEF Op, OpType, ChainOps
<1> HIDE DEF o
<1>5. /\ inside' \in [at : {"no", "sleep", "leave"}, num : Nat] /\ inside'.at # "leave"
      /\ inside'.at = "sleep" => inside'.num = session_number'
      /\ inside'.num <= session_number'
  BY <1>1, <1>3 DEF Nowhere, At
<1>6. /\ Writes \in SUBSET ops /\ IsFiniteSet(Writes) /\ o \notin Writes
      /\ \A p \in Writes : p.op = "write" /\ p.num # session_number'
  <2>1. Writes \in SUBSET ops /\ \A p \in Writes : p.op = "write"
    BY DEF Writes
  <2>2. IsFiniteSet(Writes)
    BY <1>2, <2>1, FS_Subset
  <2> QED BY <1>3, <1>4, <2>1, <2>2
<1>7. \A p \in ops' : p \in Writes \/ p = o
  BY <1>1
<1>8. Types'
  <2>1. IsFiniteSet(ops')
    BY <1>1, <1>6, OpCountAdd
  <2>2. ws' \in {"null", "connecting", "handshaking", "open", "closing", "dead"}
    BY <1>1, <1>2 DEF Types, TypeOK
  <2>3. ops' \in SUBSET OpType /\ \A p \in ops' : p.op = "write" <=> p.msg # 0
    BY <1>2, <1>4, <1>6, <1>7 DEF Types
  <2>4. \A p \in ops' : p.op \in {"connect", "handshake", "read", "write", "close"}
    BY <1>4, <1>6, <1>7
  <2>5. TypeOK'
    BY <1>1, <1>2, <1>3, <1>5, <2>2, <2>4 DEF Types, TypeOK
  <2> QED BY <1>1, <1>2, <1>5, <2>1, <2>3, <2>5 DEF Types
<1>9. Numbered'
  <2>1. \A p \in ops' : p.num <= session_number'
    BY <1>2, <1>3, <1>4, <1>6, <1>7 DEF OpType
  <2>2. \A d \in Elems(strand') : d.num <= session_number'
    BY <1>1, <1>2, <1>3, ElemsType
  <2>3. starter'.num <= session_number'
    BY <1>1, <1>2, <1>3 DEF Types
  <2> QED BY <1>5, <2>1, <2>2, <2>3 DEF Numbered
<1>10. Stopping'
  BY <1>1 DEF Inv, Stopping, Apart
<1>11. Apart => ~Ended
  BY <1>1 DEF Inv, Quiet
<1>12. Quiet'
  BY <1>1, <1>11 DEF Quiet, Apart, Ended
<1>13. /\ HandlerCount(strand', session_number', ChainOps) = 0
       /\ Starting' = 0 /\ Reads' = 0
       /\ \A d \in Elems(strand') : d.num = session_number' => d.op = "stop"
  BY <1>1, <1>4, <1>6, <1>7, <1>8, NewSession
<1>14. Live' = IF is_stopped /\ ws' = ws /\ ops' = Writes THEN 0 ELSE 1
  <2>1. OpCount(Writes, session_number', ChainOps) = 0
    BY <1>6, OpCountNone
  <2>2. CASE ops' = Writes \union {o}
    <3>1. Asleep' = 0
      BY <1>1, <1>4, <1>6, <2>2 DEF Asleep, Nowhere, At
    <3>2. Counts(o, session_number', ChainOps)
      BY <1>4 DEF Counts, ChainOps
    <3>3. OpCount(Writes \union {o}, session_number', ChainOps) = 1
      <4>1. IsFiniteSet(Writes) /\ o \notin Writes
        BY <1>6
      <4> QED BY <2>1, <3>2, <4>1, OpCountFirst
    <3>4. Live' = 1
      BY <1>13, <2>1, <2>2, <3>1, <3>2, <3>3 DEF Live
    <3>5. ops' # Writes
      BY <1>6, <2>2
    <3> QED BY <3>4, <3>5
  <2>3. CASE ops' = Writes
    <3>1. UNCHANGED ws /\ inside' = IF is_stopped THEN Nowhere ELSE At("sleep", session_number')
      BY <1>1, <1>6, <2>3
    <3>2. Asleep' = IF is_stopped THEN 0 ELSE 1
      BY <3>1 DEF Asleep, Nowhere, At
    <3>3. Live' = IF is_stopped THEN 0 ELSE 1
      BY <1>13, <2>1, <2>3, <3>2 DEF Live
    <3> QED BY <2>3, <3>1, <3>3
  <2> QED BY <1>1, <2>2, <2>3
<1>15. Single'
  BY <1>1, <1>5, <1>13, <1>14 DEF Single
<1>16. Shaken'
  <2> SUFFICES ASSUME Calm PROVE Shaken'
    BY <1>1 DEF Shaken, Calm, Apart
  <2>1. Ordered(strand', WriteOrder(session_number'))
    BY <1>1, Renumbered DEF Inv, Shaken
  <2> QED BY <1>4, <1>6, <1>7, <1>13, <2>1 DEF Shaken
<1>17. Pending'
  <2>1. \A p \in ops' : p.op = "write" => p \in ops
    BY <1>4, <1>6, <1>7
  <2> QED BY <1>1, <2>1, PendingKept DEF Inv, Calm, Apart
<1>18. Writing' /\ NoFault'
  BY <1>1, <1>13 DEF Inv, Writing, NoFault
<1>19. First'
  BY <1>1 DEF Inv, First, Apart, Nowhere, At
<1>20. Sequel'
  BY <1>1, SequelKept DEF Inv
<1> QED BY <1>8, <1>9, <1>10, <1>12, <1>15, <1>16, <1>17, <1>18, <1>19, <1>20 DEF Inv

\* What a handler does that changes nothing but where it is: nothing at all when it
\* is of an earlier session, else it goes on to disconnect or to the sleep.
Handled ==
  \/ inside' = Nowhere /\ ~Current(Handler.num)
  \/ inside' = At("leave", Handler.num) /\ Current(Handler.num)
  \/ inside' = At("sleep", Handler.num) /\ Current(Handler.num) /\ Handler.op \in {"connect", "close"}

LEMMA HandledStep ==
  ASSUME Inv, NEW k \in ChainOps \union {"write"}, Runs(k), Handled, strand' = Rest,
         Written(Handler) => is_stopped,
         UNCHANGED <<is_stopped, session_number, stream, messages, told, threads, counts, flags, fault>>
  PROVE  Inv'
<1> DEFINE n == Handler.num
<1>1. UNCHANGED <<is_stopped, session_number, ws, ops, send_queue, wire, early, told, starter, stopper,
                  posted, failures, starts, raced, overlapped, threw, fault>>
  BY DEF stream, messages, threads, counts, flags
<1>2. /\ Types /\ session_number \in Nat /\ strand \in Seq(HandlerType) /\ IsFiniteSet(ops)
  BY DEF Inv, Types, TypeOK
<1>3. /\ ~fault /\ inside = Nowhere /\ strand # <<>>
      /\ Handler \in HandlerType /\ Handler \in Elems(strand) /\ Handler.op = k
      /\ Rest \in Seq(HandlerType)
      /\ Elems(strand) = Elems(Rest) \union {Handler}
      /\ \A R : Ordered(strand, R) => Ordered(Rest, R)
      /\ \A m, hs : HandlerCount(strand, m, hs)
                      = HandlerCount(Rest, m, hs) + IF Counts(Handler, m, hs) THEN 1 ELSE 0
  BY <1>2, Running
<1>4. inside.at = "no" /\ Handler.op # "post" /\ Handler.op # "stop"
  BY <1>3 DEF Nowhere, At, ChainOps
<1>5. n \in Nat /\ n <= session_number
  BY <1>2, <1>3, ElemsType DEF Inv, Numbered
<1>6. /\ inside' \in [at : {"no", "sleep", "leave"}, num : Nat] /\ inside'.num <= session_number
      /\ inside'.at # "no" => ~is_stopped /\ n = session_number /\ inside'.num = session_number
      /\ inside'.at = "no" => ~Current(n)
      /\ inside'.at = "sleep" => Handler.op \in {"connect", "close"}
  <2>1. CASE inside' = Nowhere /\ ~Current(n)
    <3>1. inside'.at = "no" /\ inside'.num = 0 /\ inside' \in [at : {"no", "sleep", "leave"}, num : Nat]
      BY <2>1 DEF Nowhere, At
    <3> QED BY <1>2, <2>1, <3>1
  <2>2. CASE inside' = At("leave", n) /\ Current(n)
    <3>1. inside'.at = "leave" /\ inside'.num = n /\ inside' \in [at : {"no", "sleep", "leave"}, num : Nat]
      BY <1>5, <2>2 DEF At
    <3> QED BY <1>5, <2>2, <3>1 DEF Current
  <2>3. CASE inside' = At("sleep", n) /\ Current(n) /\ Handler.op \in {"connect", "close"}
    <3>1. inside'.at = "sleep" /\ inside'.num = n /\ inside' \in [at : {"no", "sleep", "leave"}, num : Nat]
      BY <1>5, <2>3 DEF At
    <3> QED BY <1>5, <2>3, <3>1 DEF Current
  <2> QED BY <2>1, <2>2, <2>3 DEF Handled
<1> HIDE DEF n
<1>7. \A h \in Elems(strand') : h \in Elems(strand)
  BY <1>3
<1>8. Types'
  <2>1. TypeOK'
    BY <1>1, <1>2, <1>6 DEF Types, TypeOK
  <2> QED BY <1>1, <1>2, <1>3, <1>6, <1>7, <2>1 DEF Types
<1>9. Numbered'
  BY <1>1, <1>6, <1>7 DEF Inv, Numbered
<1>10. Stopping'
  BY <1>1, <1>3, <1>7 DEF Inv, Stopping, Apart
<1>11. Quiet'
  <2>1. Ended => inside'.at = "no"
    BY <1>6 DEF Ended
  <2> QED BY <1>1, <1>7, <2>1 DEF Inv, Quiet, Apart, Ended
<1>12. /\ Reads' <= Reads /\ (~Current(n) /\ ~is_stopped => Reads' = Reads /\ WritesOf' = WritesOf)
       /\ inside'.at = "sleep" => Reads' = Reads /\ WritesOf' = WritesOf
       /\ Reads' \in Nat
  <2> DEFINE c == IF Counts(Handler, session_number, {"read"}) THEN 1 ELSE 0
             d == IF Counts(Handler, session_number, {"write"}) THEN 1 ELSE 0
  <2>1. Reads = (HandlerCount(Rest, session_number, {"read"}) + c) + OpCount(ops, session_number, {"read"})
    BY <1>3 DEF Reads
  <2>2. WritesOf = (HandlerCount(Rest, session_number, {"write"}) + d) + OpCount(ops, session_number, {"write"})
    BY <1>3 DEF WritesOf
  <2>3. /\ Reads' = HandlerCount(Rest, session_number, {"read"}) + OpCount(ops, session_number, {"read"})
        /\ WritesOf' = HandlerCount(Rest, session_number, {"write"}) + OpCount(ops, session_number, {"write"})
    BY <1>1 DEF Reads, WritesOf
  <2>4. \A hs : HandlerCount(Rest, session_number, hs) \in Nat /\ OpCount(ops, session_number, hs) \in Nat
    BY <1>2, <1>3, CountsNat
  <2>5. c \in {0, 1} /\ d \in {0, 1}
    OBVIOUS
  <2>6. (~Current(n) /\ ~is_stopped) \/ inside'.at = "sleep" => c = 0 /\ d = 0
    BY <1>6 DEF Counts, Current, n
  <2> HIDE DEF c, d
  <2>7. \A x, y \in Nat, z \in {0, 1} : /\ x + y <= (x + z) + y /\ x + y \in Nat
                                       /\ z = 0 => x + y = (x + z) + y
    OBVIOUS
  <2> QED BY <2>1, <2>2, <2>3, <2>4, <2>5, <2>6, <2>7
<1>13. Apart => /\ Live' <= 1
                /\ ~is_stopped /\ inside'.at # "leave" => Live' = Live
  <2> SUFFICES ASSUME Apart
               PROVE  /\ Live' <= 1
                      /\ ~is_stopped /\ inside'.at # "leave" => Live' = Live
    OBVIOUS
  <2> DEFINE c == IF Counts(Handler, session_number, ChainOps) THEN 1 ELSE 0
             rest == HandlerCount(Rest, session_number, ChainOps)
             doing == OpCount(ops, session_number, ChainOps)
  <2>1. Live <= 1 /\ Live = (rest + c) + doing + 0 + Starting
    <3>1. Asleep = 0
      BY <1>4 DEF Asleep
    <3> QED BY <1>3, <3>1 DEF Inv, Single, Live
  <2>2. Live' = rest + doing + Asleep' + Starting
    BY <1>1 DEF Live, Starting
  <2>3. rest \in Nat /\ doing \in Nat /\ Starting \in {0, 1} /\ c \in {0, 1}
    BY <1>2, <1>3, SumsNat, CountsNat
  <2>4. Asleep' = IF inside'.at = "sleep" THEN 1 ELSE 0
    BY <1>1, <1>6 DEF Asleep
  <2>5. inside'.at = "sleep" => c = 1
    BY <1>6 DEF Counts, ChainOps, n
  <2>6. ~is_stopped /\ inside'.at = "no" => c = 0
    BY <1>6 DEF Counts, Current, n
  <2> HIDE DEF c, rest, doing
  <2>7. inside'.at \in {"no", "sleep", "leave"}
    BY <1>6
  <2>8. CASE inside'.at = "sleep"
    BY <2>1, <2>2, <2>3, <2>4, <2>5, <2>8
  <2>9. CASE inside'.at # "sleep"
    BY <2>1, <2>2, <2>3, <2>4, <2>6, <2>7, <2>9
  <2> QED BY <2>8, <2>9
<1>14. Single'
  <2>1. Current(n) \/ is_stopped \/ Reads' = Reads
    BY <1>12
  <2>2. ~is_stopped /\ inside'.at # "leave" => Reads' = Reads
    BY <1>6, <1>12
  <2> QED BY <1>1, <1>4, <1>6, <1>13, <2>2 DEF Inv, Single, Apart, Ended
<1>15. Shaken'
  <2> SUFFICES ASSUME Calm PROVE Shaken'
    BY <1>1 DEF Shaken, Calm, Apart
  <2>1. Reads \in Nat /\ (Reads' > 0 => Reads > 0)
    <3>1. Reads \in Nat
      BY <1>2, SumsNat
    <3> QED BY <1>12, <3>1
  <2> QED BY <1>1, <1>3, <1>7, <2>1 DEF Inv, Shaken
<1>16. Pending'
  BY <1>1, <1>7, PendingKept DEF Inv, Calm, Apart
<1>17. Writing' /\ NoFault'
  <2>1. ~is_stopped /\ inside'.at # "leave" => Reads' = Reads /\ WritesOf' = WritesOf
    BY <1>6, <1>12
  <2> QED BY <1>1, <1>4, <2>1 DEF Inv, Writing, NoFault, Calm, Apart
<1>18. First'
  BY <1>1, <1>3 DEF Inv, First, Apart
<1>19. Sequel'
  <2>1. CASE is_stopped
    BY <1>1, <2>1 DEF Sequel
  <2>2. CASE ~is_stopped
    <3>1. \A h : h.op = "post" \/ Written(h) => (h \in Elems(strand') <=> h \in Elems(strand))
      BY <1>3, <1>4, <2>2
    <3> QED BY <1>1, <3>1, SequelKept DEF Inv
  <2> QED BY <2>1, <2>2
<1> QED BY <1>8, <1>9, <1>10, <1>11, <1>14, <1>15, <1>16, <1>17, <1>18, <1>19 DEF Inv

LEMMA OnDisconnectStep ==
  ASSUME Inv, OnDisconnect
  PROVE  Inv'
<1>1. Runs("close") /\ strand' = Rest /\ Retry(Handler.num) /\ Handler.op = "close"
  BY DEF OnDisconnect, Runs, Handler
<1>2. Handled /\ ~Written(Handler)
  BY <1>1 DEF Retry, Handled, Written
<1> QED BY <1>1, <1>2, HandledStep DEF OnDisconnect, ChainOps

\* After a fault nothing is claimed but what holds of any state.
LEMMA FaultyStep ==
  ASSUME Inv, Types', Numbered', Stopping', Quiet', fault', ~Calm', starts # 0, starts' = starts,
         UNCHANGED <<is_stopped, stopper, overlapped, raced>>
  PROVE  Inv'
<1>1. Shaken' /\ Pending' /\ Writing' /\ NoFault' /\ Single'
  BY DEF Shaken, Pending, Writing, NoFault, Single
<1>2. First'
  BY DEF Inv, First, Apart
<1>3. Sequel'
  BY <1>2 DEF Sequel, First, Calm
<1> QED BY <1>1, <1>2, <1>3 DEF Inv

\* The handler that keeps the session going is the only thing that does.
LEMMA OnlyHandler ==
  ASSUME Inv, NEW k \in ChainOps, Runs(k), Handler.num = session_number, Apart
  PROVE  /\ Live = 1 /\ HandlerCount(Rest, session_number, ChainOps) = 0
         /\ OpCount(ops, session_number, ChainOps) = 0 /\ Asleep = 0 /\ Starting = 0
         /\ \A o \in ops : ~(o.num = session_number /\ o.op \in ChainOps)
         /\ \A h \in Elems(Rest) : ~(h.num = session_number /\ h.op \in ChainOps)
<1>1. Types /\ ~fault
  BY DEF Inv, Runs
<1>2. /\ Handler \in Elems(strand) /\ Handler.op = k /\ Rest \in Seq(HandlerType)
      /\ HandlerCount(strand, session_number, ChainOps)
           = HandlerCount(Rest, session_number, ChainOps)
               + IF Counts(Handler, session_number, ChainOps) THEN 1 ELSE 0
  BY <1>1, Running
<1>3. Counts(Handler, session_number, ChainOps)
  BY <1>2 DEF Counts
<1>4. Live <= 1
  BY <1>1 DEF Inv, Single
<1>5. /\ HandlerCount(strand, session_number, ChainOps) = 1
      /\ OpCount(ops, session_number, ChainOps) = 0 /\ Asleep = 0 /\ Starting = 0
  BY <1>1, <1>2, <1>4, LiveOnly
<1>6. HandlerCount(Rest, session_number, ChainOps) \in Nat
  BY <1>2, CountNone
<1>7. HandlerCount(Rest, session_number, ChainOps) = 0
  BY <1>2, <1>3, <1>5, <1>6
<1>8. \A h \in Elems(Rest) : ~(h.num = session_number /\ h.op \in ChainOps)
  BY <1>2, <1>7, CountNone
<1>9. IsFiniteSet(ops)
  BY <1>1 DEF Types
<1>10. \A o \in ops : ~(o.num = session_number /\ o.op \in ChainOps)
  BY <1>5, <1>9, OpCountNone
<1>11. Live = 1
  BY <1>5 DEF Live
<1> QED BY <1>5, <1>7, <1>8, <1>10, <1>11

LEMMA OnConnectionStep ==
  ASSUME Inv, OnConnection
  PROVE  Inv'
<1> DEFINE o == Op("handshake", Handler.num, 0)
<1>1. /\ Runs("connect") /\ strand' = Rest
      /\ UNCHANGED <<is_stopped, session_number, send_queue, wire, early, told, starter, stopper,
                     posted, failures, starts, raced, overlapped, threw>>
  BY DEF OnConnection, messages, threads, counts, flags
<1>2. /\ Types /\ session_number \in Nat /\ ops \in SUBSET OpType /\ IsFiniteSet(ops)
      /\ ~is_stopped => ~Ended
  BY DEF Inv, Types, TypeOK, Ended
<1>3. /\ ~fault /\ inside = Nowhere /\ strand # <<>>
      /\ Handler \in HandlerType /\ Handler \in Elems(strand) /\ Handler.op = "connect"
      /\ Rest \in Seq(HandlerType)
      /\ Elems(strand) = Elems(Rest) \union {Handler}
      /\ \A R : Ordered(strand, R) => Ordered(Rest, R)
  BY <1>1, <1>2, Running
<1>4. ~Written(Handler) /\ starts # 0 /\ inside.at = "no"
  BY <1>3 DEF Written, Inv, First, Nowhere, At
<1>5. \A h \in Elems(Rest) : h \in Elems(strand)
  BY <1>3
<1>6. CASE ~(Current(Handler.num) /\ Handler.result = "ok")
  <2>1. Retry(Handler.num) /\ UNCHANGED <<stream, fault>>
    BY <1>6 DEF OnConnection
  <2>2. Handled
    BY <1>3, <2>1 DEF Retry, Handled
  <2>3. UNCHANGED <<is_stopped, session_number, stream, messages, told, threads, counts, flags, fault>>
    BY <2>1 DEF OnConnection
  <2> QED BY <1>1, <1>4, <2>2, <2>3, HandledStep DEF ChainOps
<1>7. CASE Current(Handler.num) /\ Handler.result = "ok" /\ ws = "null"
  <2>1. fault' /\ UNCHANGED <<ws, ops, inside>>
    BY <1>7 DEF OnConnection, stream
  <2>2. Types' /\ Numbered' /\ Stopping'
    <3>1. TypeOK'
      BY <1>1, <1>2, <2>1 DEF OnConnection, Types, TypeOK
    <3>2. Types'
      BY <1>1, <1>2, <1>3, <1>5, <2>1, <3>1 DEF Types
    <3> QED BY <1>1, <1>3, <1>5, <2>1, <3>2 DEF Inv, Numbered, Stopping, Apart
  <2>3. Quiet'
    BY <1>1, <1>7 DEF Quiet, Ended, Current
  <2>4. ~Calm'
    <3>1. Calm => ws \in {"connecting", "dead"}
      BY <1>3, <1>7 DEF Inv, Shaken, Current
    <3> QED BY <1>1, <1>7, <3>1 DEF Calm, Apart
  <2> QED BY <1>1, <1>4, <2>1, <2>2, <2>3, <2>4, FaultyStep
<1>8. CASE Current(Handler.num) /\ Handler.result = "ok" /\ ws # "null"
  <2>1. ws' = "handshaking" /\ ops' = ops \union {o} /\ UNCHANGED <<inside, fault>>
    BY <1>8 DEF OnConnection
  <2>2. ~is_stopped /\ Handler.num = session_number
    BY <1>8 DEF Current
  <2>3. o \in OpType /\ o.op = "handshake" /\ o.num = session_number /\ o.msg = 0
    BY <1>2, <2>2, BoundsAssumption DEF Op, OpType, ChainOps
  <2> HIDE DEF o
  <2>4. \A p \in ops' : p \in ops \/ p = o
    BY <2>1
  <2>5. Types'
    <3>1. IsFiniteSet(ops')
      BY <1>2, <2>1, FS_AddElement
    <3>2. TypeOK'
      BY <1>1, <1>2, <2>1, <2>3 DEF Types, TypeOK
    <3>3. ops' \in SUBSET OpType /\ \A p \in ops' : p.op = "write" <=> p.msg # 0
      BY <1>2, <2>1, <2>3 DEF Types
    <3> QED BY <1>1, <1>2, <1>3, <1>5, <2>1, <3>1, <3>2, <3>3 DEF Types
  <2>6. Numbered' /\ Stopping' /\ Quiet'
    <3>1. Numbered'
      BY <1>1, <1>2, <1>5, <2>1, <2>3, <2>4 DEF Inv, Numbered
    <3>2. Stopping'
      BY <1>1, <1>3, <1>5 DEF Inv, Stopping, Apart
    <3> QED BY <1>1, <2>2, <3>1, <3>2 DEF Quiet, Ended
  <2>7. ASSUME Apart
        PROVE  /\ Live = 1 /\ Live' = 1 /\ Reads' = 0 /\ Reads = 0
               /\ \A p \in ops : ~(p.num = session_number /\ p.op \in ChainOps)
               /\ \A h \in Elems(Rest) : ~(h.num = session_number /\ h.op \in ChainOps)
    <3>1. /\ Live = 1 /\ HandlerCount(Rest, session_number, ChainOps) = 0
          /\ OpCount(ops, session_number, ChainOps) = 0 /\ Asleep = 0 /\ Starting = 0
          /\ \A p \in ops : ~(p.num = session_number /\ p.op \in ChainOps)
          /\ \A h \in Elems(Rest) : ~(h.num = session_number /\ h.op \in ChainOps)
      BY <1>1, <2>2, <2>7, OnlyHandler DEF ChainOps
    <3>2. o \notin ops /\ IsFiniteSet(ops) /\ Counts(o, session_number, ChainOps)
      BY <1>2, <2>3, <3>1 DEF Counts, ChainOps
    <3>3. \A m, hs : OpCount(ops \union {o}, m, hs) = OpCount(ops, m, hs) + IF Counts(o, m, hs) THEN 1 ELSE 0
      BY <3>2, OpCountAdd
    <3>4. OpCount(ops', session_number, ChainOps) = 1
      BY <2>1, <3>1, <3>2, <3>3
    <3>5. Live' = 1
      BY <1>1, <2>1, <3>1, <3>4 DEF Live, Asleep, Starting
    <3>6. Reads' = 0
      BY <1>1, <2>3, <2>4, <2>5, <3>1, SumsNone DEF ChainOps
    <3>7. Reads = 0
      BY <1>2, <1>3, <3>1, ReadsNone DEF ChainOps
    <3> QED BY <3>1, <3>5, <3>6, <3>7
  <2>8. Single'
    BY <1>1, <1>3, <1>4, <2>1, <2>7 DEF Inv, Single, Apart, Ended
  <2>9. Shaken'
    <3> SUFFICES ASSUME Calm PROVE Shaken'
      BY <1>1 DEF Shaken, Calm, Apart
    <3>1. ops = {} /\ Apart
      BY <1>3, <2>2 DEF Inv, Shaken, Calm
    <3>2. ops' = {o}
      BY <2>1, <3>1
    <3> QED BY <1>1, <1>3, <2>1, <2>3, <2>7, <3>1, <3>2 DEF Inv, Shaken, ChainOps
  <2>10. Pending'
    BY <1>1, <1>5, <2>3, <2>4, PendingKept DEF Inv, Calm, Apart
  <2>11. Writing' /\ NoFault'
    BY <1>1, <1>3, <2>1, <2>7 DEF Writing, NoFault, Calm, Apart
  <2>12. First'
    BY <1>1, <1>4 DEF Inv, First, Apart
  <2>13. Sequel'
    BY <1>1, <1>3, <1>4, SequelKept DEF Inv
  <2> QED BY <2>5, <2>6, <2>8, <2>9, <2>10, <2>11, <2>12, <2>13 DEF Inv
<1> QED BY <1>6, <1>7, <1>8

-----------------------------------------------------------------------------
(* Every step keeps it: writing, the handshake, reading *)

WriteOf(q) == Op("write", session_number, Head(q))

\* What write, onWrite, onHandshake and onRead do, once their tests have passed: a
\* read may begin, and a write if one is due.
Wrote(q, reading, due) ==
  IF due THEN Head(q) \in 1 .. MaxMessages /\ DoWrite(q, session_number, reading)
  ELSE NoWrite(reading)

Began(q, reading, due) ==
  /\ ws \in {"handshaking", "open", "closing"} /\ due
  /\ ops' = (ops \union reading) \union {WriteOf(q)} /\ strand' = Rest
  /\ early' = (early \/ Shaking(session_number))
  /\ fault' = \E p \in ops : p.op = "write"

FailedAtOnce(q, reading, due) ==
  /\ ws \in {"connecting", "dead"} /\ due
  /\ ops' = ops \union reading /\ strand' = Append(Rest, Done(WriteOf(q), "error"))
  /\ UNCHANGED <<early, fault>>

NotWritten(reading, due) ==
  /\ due => ws = "null"
  /\ ops' = ops \union reading /\ strand' = Rest
  /\ UNCHANGED early /\ fault' = (reading # {} /\ ws = "null")

LEMMA WroteHow ==
  ASSUME NEW q, NEW reading, NEW due \in BOOLEAN, Wrote(q, reading, due)
  PROVE  Began(q, reading, due) \/ FailedAtOnce(q, reading, due) \/ NotWritten(reading, due)
<1>1. CASE due
  <2>1. DoWrite(q, session_number, reading)
    BY <1>1 DEF Wrote
  <2>2. CASE ws \in {"handshaking", "open", "closing"}
    BY <1>1, <2>1, <2>2 DEF DoWrite, Began, WriteOf
  <2>3. CASE ws \in {"connecting", "dead"}
    BY <1>1, <2>1, <2>3 DEF DoWrite, FailedAtOnce, WriteOf
  <2>4. CASE ws = "null"
    BY <1>1, <2>1, <2>4 DEF DoWrite, NoWrite, NotWritten
  <2> QED BY <2>1, <2>2, <2>3, <2>4 DEF DoWrite
<1>2. CASE ~due
  BY <1>2 DEF Wrote, NoWrite, NotWritten
<1> QED BY <1>1, <1>2

\* What is there afterwards.
Left(reading) ==
  /\ strand' \in Seq(HandlerType) /\ ops' \in SUBSET OpType /\ IsFiniteSet(ops')
  /\ early' \in BOOLEAN /\ fault' \in BOOLEAN /\ (early => early')
  /\ \A p \in ops' : (p.op = "write" <=> p.msg # 0) /\ p.num <= session_number
  /\ \A p \in ops' : p \in ops \/ p \in reading \/ (p.op = "write" /\ p.num = session_number)
  /\ \A p \in reading : p.op = "read" /\ p.num = session_number
  /\ \A h \in Elems(Rest) : h \in Elems(strand')
  /\ \A h \in Elems(strand') :
       \/ h \in Elems(Rest)
       \/ h.op = "write" /\ h.num = session_number /\ h.result = "error" /\ ~Written(h)
  /\ Ordered(strand', InOrder)
  /\ \A hs \in {ChainOps, {"read"}} :
       /\ HandlerCount(strand', session_number, hs) = HandlerCount(Rest, session_number, hs)
       /\ OpCount(ops', session_number, hs) = OpCount(ops \union reading, session_number, hs)

LEMMA WroteParts ==
  ASSUME Inv, NEW k, Runs(k), NEW q, NEW reading \in SUBSET {Op("read", session_number, 0)},
         NEW due \in BOOLEAN, Wrote(q, reading, due)
  PROVE  Left(reading)
<1> DEFINE w == WriteOf(q)
           e == Done(w, "error")
<1>1. /\ Types /\ session_number \in Nat /\ ops \in SUBSET OpType /\ IsFiniteSet(ops)
      /\ early \in BOOLEAN /\ fault \in BOOLEAN
  BY DEF Inv, Types, TypeOK
<1>2. /\ Rest \in Seq(HandlerType) /\ Ordered(Rest, InOrder)
      /\ \A h \in Elems(Rest) : h \in HandlerType
  <2>1. Rest \in Seq(HandlerType) /\ Ordered(Rest, InOrder)
    BY <1>1, Running DEF Inv, Stopping
  <2> QED BY <2>1, ElemsType
<1>3. /\ \A p \in reading : p.op = "read" /\ p.num = session_number /\ p.msg = 0 /\ p \in OpType
      /\ IsFiniteSet(reading)
  <2>1. \A p \in reading : p = Op("read", session_number, 0)
    OBVIOUS
  <2>2. IsFiniteSet({Op("read", session_number, 0)})
    BY OpCountOne
  <2>3. IsFiniteSet(reading)
    BY <2>2, FS_Subset
  <2> QED BY <1>1, <2>1, <2>3, BoundsAssumption DEF Op, OpType, ChainOps
<1>4. /\ w.op = "write" /\ w.num = session_number /\ w.msg = Head(q)
      /\ due => w \in OpType /\ w.msg # 0
  BY <1>1, BoundsAssumption DEF WriteOf, Op, OpType, Wrote
<1>5. /\ e.op = "write" /\ e.num = session_number /\ e.result = "error" /\ ~Written(e)
      /\ due => e \in HandlerType
  BY <1>4 DEF Done, OpType, HandlerType, Results, Written
<1>6. IsFiniteSet(ops \union reading) /\ IsFiniteSet((ops \union reading) \union {w})
  <2>1. IsFiniteSet(ops \union reading)
    BY <1>1, <1>3, FS_Union
  <2> QED BY <2>1, FS_AddElement
<1> HIDE DEF w, e
<1>7. /\ \/ ops' = ops \union reading \/ (ops' = (ops \union reading) \union {w} /\ due)
      /\ \/ strand' = Rest \/ (strand' = Append(Rest, e) /\ due)
      /\ early' \in BOOLEAN /\ fault' \in BOOLEAN /\ (early => early')
  BY <1>1, WroteHow DEF Began, FailedAtOnce, NotWritten, w, e
<1>8. /\ ops' \in SUBSET OpType /\ IsFiniteSet(ops')
      /\ \A p \in ops' : p \in ops \/ p \in reading \/ (p = w /\ due)
  BY <1>1, <1>3, <1>4, <1>6, <1>7
<1>9. \A p \in ops' : (p.op = "write" <=> p.msg # 0) /\ p.num <= session_number
  <2>1. \A p \in ops : (p.op = "write" <=> p.msg # 0) /\ p.num <= session_number
    BY DEF Inv, Types, Numbered
  <2> QED BY <1>1, <1>3, <1>4, <1>8, <2>1
<1>10. CASE strand' = Rest
  <2>1. \A hs : HandlerCount(strand', session_number, hs) = HandlerCount(Rest, session_number, hs)
    BY <1>10
  <2>2. \A hs \in {ChainOps, {"read"}} :
          OpCount(ops', session_number, hs) = OpCount(ops \union reading, session_number, hs)
    <3> TAKE hs \in {ChainOps, {"read"}}
    <3>1. \A p : p.num = session_number /\ p.op \in hs => (p \in ops' <=> p \in ops \union reading)
      BY <1>4, <1>7 DEF ChainOps
    <3> QED BY <3>1, OpCountSame
  <2> QED BY <1>2, <1>3, <1>4, <1>7, <1>8, <1>9, <1>10, <2>1, <2>2 DEF Left
<1>11. CASE strand' = Append(Rest, e) /\ due
  <2>1. /\ strand' \in Seq(HandlerType) /\ Elems(strand') = Elems(Rest) \union {e}
        /\ \A R : Ordered(Rest, R) /\ (\A d \in Elems(Rest) : <<d, e>> \in R) => Ordered(strand', R)
    BY <1>2, <1>5, <1>11, AppendElems
  <2>2. \A d \in Elems(Rest) : <<d, e>> \in InOrder
    BY <1>2, <1>5, <1>11 DEF InOrder
  <2>3. Ordered(strand', InOrder)
    BY <1>2, <2>1, <2>2
  <2>4. \A hs \in {ChainOps, {"read"}} :
          HandlerCount(strand', session_number, hs) = HandlerCount(Rest, session_number, hs)
    <3> TAKE hs \in {ChainOps, {"read"}}
    <3>1. ~Counts(e, session_number, hs)
      BY <1>5 DEF Counts, ChainOps
    <3>2. HandlerCount(strand', session_number, hs)
            = HandlerCount(Rest, session_number, hs) + IF Counts(e, session_number, hs) THEN 1 ELSE 0
      BY <1>2, <1>5, <1>11, CountAppend
    <3>3. HandlerCount(Rest, session_number, hs) \in Nat
      BY <1>2, CountNone
    <3> QED BY <3>1, <3>2, <3>3
  <2>5. \A hs \in {ChainOps, {"read"}} :
          OpCount(ops', session_number, hs) = OpCount(ops \union reading, session_number, hs)
    <3> TAKE hs \in {ChainOps, {"read"}}
    <3>1. \A p : p.num = session_number /\ p.op \in hs => (p \in ops' <=> p \in ops \union reading)
      BY <1>4, <1>7 DEF ChainOps
    <3> QED BY <3>1, OpCountSame
  <2> QED BY <1>2, <1>3, <1>4, <1>5, <1>7, <1>8, <1>9, <2>1, <2>3, <2>4, <2>5 DEF Left
<1> QED BY <1>7, <1>10, <1>11

LEMMA WroteTypes ==
  ASSUME Inv, NEW k, Runs(k), NEW q, NEW reading \in SUBSET {Op("read", session_number, 0)},
         NEW due \in BOOLEAN, Wrote(q, reading, due),
         UNCHANGED <<is_stopped, session_number, ws, inside, wire, threads, counts, flags>>,
         send_queue' \in Seq(1 .. MaxMessages), told' \in BOOLEAN,
         is_stopped => ~due /\ reading = {} /\ UNCHANGED told
  PROVE  /\ Types' /\ Numbered' /\ Stopping' /\ Quiet' /\ First'
         /\ UNCHANGED <<is_stopped, session_number, ws, inside, wire, starter, stopper, posted, failures,
                        starts, raced, overlapped, threw>>
         /\ ~fault /\ inside.at = "no"
<1>0. Left(reading)
  BY WroteParts
<1>1. UNCHANGED <<is_stopped, session_number, ws, inside, wire, starter, stopper, posted, failures,
                  starts, raced, overlapped, threw>>
  BY DEF threads, counts, flags
<1>2. /\ strand' \in Seq(HandlerType) /\ ops' \in SUBSET OpType /\ IsFiniteSet(ops')
      /\ early' \in BOOLEAN /\ fault' \in BOOLEAN
      /\ \A p \in ops' : (p.op = "write" <=> p.msg # 0) /\ p.num <= session_number
      /\ \A h \in Elems(strand') :
           \/ h \in Elems(Rest)
           \/ h.op = "write" /\ h.num = session_number /\ h.result = "error" /\ ~Written(h)
      /\ Ordered(strand', InOrder)
  BY <1>0 DEF Left
<1>3. Types /\ session_number \in Nat
  BY DEF Inv, Types, TypeOK
<1>4. ~fault /\ inside = Nowhere /\ strand # <<>> /\ \A h \in Elems(Rest) : h \in Elems(strand)
  BY <1>3, Running
<1>5. inside.at = "no"
  BY <1>4 DEF Nowhere, At
<1>6. Types'
  <2>1. \A p \in ops' : p.op \in {"connect", "handshake", "read", "write", "close"}
    BY <1>2 DEF OpType, ChainOps
  <2>2. TypeOK'
    BY <1>1, <1>2, <1>3, <2>1 DEF Types, TypeOK
  <2>3. \A h \in Elems(strand') : h.op = "post" => h.msg # 0 /\ h.msg <= posted
    BY <1>2, <1>3, <1>4 DEF Types
  <2> QED BY <1>1, <1>2, <1>3, <2>2, <2>3 DEF Types
<1>7. Numbered'
  BY <1>1, <1>2, <1>3, <1>4 DEF Inv, Numbered
<1>8. Stopping'
  BY <1>1, <1>2, <1>4 DEF Inv, Stopping, Apart
<1>9. Quiet'
  <2>1. CASE is_stopped
    <3>1. NoWrite({})
      BY <2>1 DEF Wrote
    <3>2. ops' = ops /\ strand' = Rest
      BY <3>1 DEF NoWrite
    <3> QED BY <1>1, <1>4, <3>2 DEF Inv, Quiet, Apart, Ended
  <2>2. CASE ~is_stopped
    BY <1>1, <2>2 DEF Quiet, Ended
  <2> QED BY <2>1, <2>2
<1>10. First'
  BY <1>1, <1>4 DEF Inv, First, Apart
<1> QED BY <1>1, <1>4, <1>5, <1>6, <1>7, <1>8, <1>9, <1>10

\* A read goes on after a read or a handshake; nothing else changes the chain.
LEMMA WroteSums ==
  ASSUME Inv, NEW k, Runs(k), NEW q, NEW reading \in SUBSET {Op("read", session_number, 0)},
         NEW due \in BOOLEAN, Wrote(q, reading, due), Apart,
         UNCHANGED <<session_number, inside, starter>>,
         \/ reading = {} /\ k \in {"post", "write"}
         \/ reading # {} /\ k \in {"handshake", "read"} /\ Handler.num = session_number
  PROVE  /\ Live' = Live /\ Live <= 1
         /\ Reads' = IF reading = {} THEN Reads ELSE 1
         /\ reading # {} => /\ \A o \in ops : ~(o.num = session_number /\ o.op \in ChainOps)
                            /\ \A h \in Elems(Rest) : ~(h.num = session_number /\ h.op \in ChainOps)
<1>0. Left(reading)
  BY WroteParts
<1>1. Types /\ IsFiniteSet(ops) /\ ~fault
  BY DEF Inv, Types, Runs
<1>2. /\ Handler.op = k /\ Rest \in Seq(HandlerType)
      /\ \A m, hs : HandlerCount(strand, m, hs)
                      = HandlerCount(Rest, m, hs) + IF Counts(Handler, m, hs) THEN 1 ELSE 0
  BY <1>1, Running
<1>3. /\ HandlerCount(strand', session_number, ChainOps) = HandlerCount(Rest, session_number, ChainOps)
      /\ OpCount(ops', session_number, ChainOps) = OpCount(ops \union reading, session_number, ChainOps)
      /\ HandlerCount(strand', session_number, {"read"}) = HandlerCount(Rest, session_number, {"read"})
      /\ OpCount(ops', session_number, {"read"}) = OpCount(ops \union reading, session_number, {"read"})
  BY <1>0 DEF Left
<1>4. Asleep' = Asleep /\ Starting' = Starting
  BY DEF Asleep, Starting
<1>5. Live <= 1
  BY <1>1 DEF Inv, Single
<1>6. CASE reading = {} /\ k \in {"post", "write"}
  <2>1. ~Counts(Handler, session_number, ChainOps) /\ ~Counts(Handler, session_number, {"read"})
    BY <1>2, <1>6 DEF Counts, ChainOps
  <2>2. HandlerCount(Rest, session_number, ChainOps) \in Nat /\ HandlerCount(Rest, session_number, {"read"}) \in Nat
    BY <1>2, CountNone
  <2>3. /\ HandlerCount(strand, session_number, ChainOps) = HandlerCount(Rest, session_number, ChainOps)
        /\ HandlerCount(strand, session_number, {"read"}) = HandlerCount(Rest, session_number, {"read"})
    BY <1>2, <2>1, <2>2
  <2>4. ops \union reading = ops
    BY <1>6
  <2>5. Live' = Live /\ Reads' = Reads
    BY <1>3, <1>4, <2>3, <2>4 DEF Live, Reads
  <2> QED BY <1>5, <1>6, <2>5
<1>7. CASE reading # {} /\ k \in {"handshake", "read"} /\ Handler.num = session_number
  <2> DEFINE rd == Op("read", session_number, 0)
  <2>1. k \in ChainOps
    BY <1>7 DEF ChainOps
  <2>2. /\ Live = 1 /\ HandlerCount(Rest, session_number, ChainOps) = 0
        /\ OpCount(ops, session_number, ChainOps) = 0 /\ Asleep = 0 /\ Starting = 0
        /\ \A o \in ops : ~(o.num = session_number /\ o.op \in ChainOps)
        /\ \A h \in Elems(Rest) : ~(h.num = session_number /\ h.op \in ChainOps)
    BY <1>7, <2>1, OnlyHandler
  <2>3. reading = {rd} /\ rd.op = "read" /\ rd.num = session_number
    BY <1>7 DEF Op
  <2>4. rd \notin ops /\ Counts(rd, session_number, ChainOps) /\ Counts(rd, session_number, {"read"})
    BY <2>2, <2>3 DEF Counts, ChainOps
  <2> HIDE DEF rd
  <2>5. \A n, hs : OpCount(ops \union {rd}, n, hs) = OpCount(ops, n, hs) + IF Counts(rd, n, hs) THEN 1 ELSE 0
    BY <1>1, <2>4, OpCountAdd
  <2>6. OpCount(ops, session_number, {"read"}) = 0
    <3>1. \A o \in ops : ~(o.num = session_number /\ o.op \in {"read"})
      BY <2>2 DEF ChainOps
    <3> QED BY <1>1, <3>1, OpCountNone
  <2>7. HandlerCount(Rest, session_number, {"read"}) = 0
    <3>1. \A h \in Elems(Rest) : ~(h.num = session_number /\ h.op \in {"read"})
      BY <2>2 DEF ChainOps
    <3> QED BY <1>2, <3>1, CountNone
  <2>8. OpCount(ops', session_number, ChainOps) = 1 /\ OpCount(ops', session_number, {"read"}) = 1
    <3>1. /\ OpCount(ops \union {rd}, session_number, ChainOps) = 1
          /\ OpCount(ops \union {rd}, session_number, {"read"}) = 1
      BY <2>2, <2>4, <2>5, <2>6
    <3> QED BY <1>3, <2>3, <3>1
  <2>9. Live' = 1
    BY <1>3, <1>4, <2>2, <2>8 DEF Live
  <2>10. Reads' = 1
    BY <1>3, <2>7, <2>8 DEF Reads
  <2> QED BY <1>5, <1>7, <2>2, <2>9, <2>10
<1> QED BY <1>6, <1>7

\* A front that nothing was writing is written now, if the stream can write.
LEMMA WroteFront ==
  ASSUME Inv, NEW k, Runs(k), NEW reading \in SUBSET {Op("read", session_number, 0)},
         NEW due \in BOOLEAN, Wrote(send_queue', reading, due),
         UNCHANGED <<is_stopped, session_number, ws, inside, raced, overlapped>>,
         Types', Calm', ~is_stopped, due => send_queue' # <<>>,
         \A p \in ops : p.op # "write",
         \A h \in Elems(Rest) : ~Written(h),
         reading # {} => /\ ws # "null"
                         /\ \A o \in ops : ~(o.num = session_number /\ o.op \in ChainOps)
                         /\ \A h \in Elems(Rest) : ~(h.num = session_number /\ h.op \in ChainOps),
         Reads' > 0 => /\ ws # "null" /\ (due <=> send_queue' # <<>>)
                       /\ \A h \in Elems(Rest) : h.op # "write"
  PROVE  Shaken' /\ Pending' /\ Writing' /\ ~fault'
<1>0. Left(reading)
  BY WroteParts
<1> DEFINE w == WriteOf(send_queue')
           e == Done(w, "error")
<1>1. /\ Types /\ session_number \in Nat /\ IsFiniteSet(ops) /\ Calm
  <2>1. early => early'
    BY <1>0 DEF Left
  <2> QED BY <2>1 DEF Inv, Types, TypeOK, Calm, Apart
<1>2. /\ Rest \in Seq(HandlerType) /\ Ordered(Rest, WriteOrder(session_number))
      /\ \A h \in Elems(Rest) : h \in HandlerType /\ h \in Elems(strand)
  <2>1. Rest \in Seq(HandlerType) /\ \A h \in Elems(Rest) : h \in Elems(strand)
    BY <1>1, Running
  <2>2. Ordered(Rest, WriteOrder(session_number))
    BY <1>1, Running DEF Inv, Shaken
  <2> QED BY <2>1, <2>2, ElemsType
<1>3. /\ w.op = "write" /\ w.num = session_number /\ w.msg = Head(send_queue')
      /\ e.op = "write" /\ e.num = session_number /\ e.result = "error" /\ ~Written(e)
      /\ due => e \in HandlerType
  BY <1>1, BoundsAssumption DEF WriteOf, Op, Done, Written, HandlerType, Results, Wrote
<1>4. \A p \in reading : p.op = "read" /\ p.num = session_number
  BY <1>0 DEF Left
<1>5. Began(send_queue', reading, due) \/ FailedAtOnce(send_queue', reading, due) \/ NotWritten(reading, due)
  BY WroteHow
<1>6. \A h \in Elems(strand') : h \in Elems(Rest) \/ (h = e /\ due /\ ws \in {"connecting", "dead"})
  <2>1. CASE strand' = Rest
    BY <2>1
  <2>2. CASE FailedAtOnce(send_queue', reading, due)
    <3>1. Elems(Append(Rest, e)) = Elems(Rest) \union {e}
      BY <1>2, <1>3, <2>2, AppendElems DEF FailedAtOnce
    <3> QED BY <2>2, <3>1 DEF FailedAtOnce, e, w
  <2> QED BY <1>5, <2>1, <2>2 DEF Began, NotWritten
<1>7. \A p \in ops' : p \in ops \/ p \in reading \/ (p = w /\ due /\ Began(send_queue', reading, due))
  BY <1>5 DEF Began, FailedAtOnce, NotWritten, w
<1> HIDE DEF w, e
<1>8. ~fault'
  <2>1. ~fault
    BY DEF Runs
  <2> QED BY <1>5, <2>1 DEF Began, FailedAtOnce, NotWritten
<1>9. Began(send_queue', reading, due) => ~Shaking(session_number) /\ ws \in {"handshaking", "open", "closing"}
  BY DEF Began, Calm
<1> HIDE DEF Began
<1>10. ASSUME Began(send_queue', reading, due)
       PROVE  /\ \A o \in ops : o.num = session_number => o.op # "connect" /\ o.op # "handshake"
              /\ \A h \in Elems(Rest) : h.num = session_number => h.op # "connect" /\ h.op # "handshake"
  <2>1. ASSUME NEW o \in ops, o.num = session_number
        PROVE  o.op # "connect" /\ o.op # "handshake"
    <3>1. o.op # "connect"
      BY <1>1, <1>9, <1>10, <2>1 DEF Inv, Shaken
    <3>2. o.op = "handshake" => o = Op("handshake", session_number, 0)
      <4>1. o \in OpType /\ (o.op = "handshake" => o.msg = 0)
        BY <1>1 DEF Types
      <4> QED BY <2>1, <4>1 DEF OpType, Op
    <3> QED BY <1>9, <1>10, <3>1, <3>2 DEF Shaking
  <2>2. ASSUME NEW h \in Elems(Rest), h.num = session_number
        PROVE  h.op # "connect" /\ h.op # "handshake"
    <3>1. h.op # "connect"
      BY <1>1, <1>2, <1>9, <1>10, <2>2 DEF Inv, Shaken
    <3>2. PICK i \in 1 .. Len(Rest) : h = Rest[i]
      BY DEF Elems
    <3>3. i \in DOMAIN Rest
      BY <1>2, LenProperties
    <3> QED BY <1>9, <1>10, <2>2, <3>1, <3>2, <3>3 DEF Shaking
  <2> QED BY <2>1, <2>2
<1>11. Pending'
  <2>1. \A p \in ops' : p.op = "write" => p = w /\ due /\ Began(send_queue', reading, due)
    BY <1>4, <1>7
  <2>2. \A h \in Elems(strand') : ~Written(h)
    BY <1>3, <1>6
  <2> QED BY <1>3, <2>1, <2>2 DEF Pending
<1>12. Shaken'
  <2>1. Ordered(strand', WriteOrder(session_number))
    <3>1. CASE strand' = Rest
      BY <1>2, <3>1
    <3>2. CASE FailedAtOnce(send_queue', reading, due)
      <4>1. ASSUME NEW d \in Elems(Rest) PROVE <<d, e>> \in WriteOrder(session_number)
        <5>1. d.op = "handshake" /\ d.num = session_number /\ d.result = "ok" => ws = "open"
          BY <1>1, <1>2 DEF Inv, Shaken
        <5> QED BY <1>2, <1>3, <3>2, <5>1 DEF WriteOrder, FailedAtOnce
      <4>2. strand' = Append(Rest, e) /\ e \in HandlerType
        BY <1>3, <3>2 DEF FailedAtOnce, e, w
      <4> QED BY <1>2, <4>1, <4>2, AppendElems
    <3> QED BY <1>5, <3>1, <3>2 DEF Began, NotWritten
  <2>2. ASSUME NEW o \in ops', o.num = session_number
        PROVE  /\ o.op = "connect" => ops' = {o} /\ ws \in {"connecting", "dead"}
               /\ o.op = "handshake" => ops' = {o} /\ ws = "handshaking"
    <3> SUFFICES ASSUME o.op \in {"connect", "handshake"}
                 PROVE  /\ o.op = "connect" => ops' = {o} /\ ws \in {"connecting", "dead"}
                        /\ o.op = "handshake" => ops' = {o} /\ ws = "handshaking"
      OBVIOUS
    <3>1. o \in ops /\ reading = {}
      BY <1>3, <1>4, <1>7, <2>2 DEF ChainOps
    <3>2. ~Began(send_queue', reading, due)
      BY <1>10, <2>2, <3>1
    <3>3. ops' = ops
      BY <1>5, <3>1, <3>2 DEF FailedAtOnce, NotWritten
    <3> QED BY <1>1, <2>2, <3>1, <3>3 DEF Inv, Shaken
  <2>3. ASSUME NEW h \in Elems(strand'), h.num = session_number
        PROVE  /\ h.op = "connect" => ops' = {} /\ ws \in {"connecting", "dead"}
               /\ h.op = "handshake" => ops' = {} /\ ws \in {"open", "dead"}
               /\ h.op = "handshake" /\ h.result = "ok" => ws = "open"
    <3> SUFFICES ASSUME h.op \in {"connect", "handshake"}
                 PROVE  /\ h.op = "connect" => ops' = {} /\ ws \in {"connecting", "dead"}
                        /\ h.op = "handshake" => ops' = {} /\ ws \in {"open", "dead"}
                        /\ h.op = "handshake" /\ h.result = "ok" => ws = "open"
      OBVIOUS
    <3>1. h \in Elems(Rest) /\ h \in Elems(strand)
      BY <1>2, <1>3, <1>6
    <3>2. reading = {} /\ ~Began(send_queue', reading, due)
      BY <1>10, <2>3, <3>1 DEF ChainOps
    <3>3. ops' = ops
      BY <1>5, <3>2 DEF FailedAtOnce, NotWritten
    <3> QED BY <1>1, <2>3, <3>1, <3>3 DEF Inv, Shaken
  <2>4. ASSUME Reads' > 0
        PROVE  /\ ws # "null"
               /\ \A o \in ops' : o.op = "write" => o.num = session_number
               /\ \A h \in Elems(strand') : h.op = "write" => h.num = session_number
    BY <1>3, <1>4, <1>6, <1>7, <2>4
  <2> QED BY <2>1, <2>2, <2>3, <2>4 DEF Shaken
<1>13. Writing'
  <2> SUFFICES ASSUME Reads' > 0
               PROVE  WritesOf' = IF send_queue' # <<>> THEN 1 ELSE 0
    BY DEF Writing
  <2>1. ws # "null" /\ (due <=> send_queue' # <<>>) /\ \A h \in Elems(Rest) : h.op # "write"
    OBVIOUS
  <2>2. /\ HandlerCount(Rest, session_number, {"write"}) = 0
        /\ OpCount(ops \union reading, session_number, {"write"}) = 0
        /\ w \notin ops \union reading /\ IsFiniteSet(ops \union reading)
    <3>1. HandlerCount(Rest, session_number, {"write"}) = 0
      <4>1. \A h \in Elems(Rest) : ~(h.num = session_number /\ h.op \in {"write"})
        BY <2>1
      <4> QED BY <1>2, <4>1, CountNone
    <3>2. IsFiniteSet(ops \union reading)
      <4>1. IsFiniteSet({Op("read", session_number, 0)})
        BY OpCountOne
      <4>2. IsFiniteSet(reading)
        BY <4>1, FS_Subset
      <4> QED BY <1>1, <4>2, FS_Union
    <3>3. \A o \in ops \union reading : ~(o.num = session_number /\ o.op \in {"write"})
      BY <1>4
    <3>4. OpCount(ops \union reading, session_number, {"write"}) = 0
      BY <3>2, <3>3, OpCountNone
    <3>5. w \notin ops \union reading
      BY <1>3, <1>4
    <3> QED BY <3>1, <3>2, <3>4, <3>5
  <2>3. CASE Began(send_queue', reading, due)
    <3>1. due /\ ops' = (ops \union reading) \union {w} /\ strand' = Rest
      BY <2>3 DEF Began, w
    <3>2. PICK S : S = ops \union reading /\ IsFiniteSet(S) /\ w \notin S /\ OpCount(S, session_number, {"write"}) = 0
      BY <2>2
    <3>3. IsFiniteSet(S) /\ w \notin S
      BY <3>2
    <3>4. OpCount(ops', session_number, {"write"}) = 1
      <4>1. Counts(w, session_number, {"write"})
        BY <1>3 DEF Counts
      <4>2. OpCount(S, session_number, {"write"}) = 0
        BY <3>2
      <4>3. OpCount(S \union {w}, session_number, {"write"}) = 1
        BY <3>3, <4>1, <4>2, OpCountFirst
      <4>4. ops' = S \union {w}
        BY <3>1, <3>2
      <4> QED BY <4>3, <4>4
    <3> QED BY <2>1, <2>2, <3>1, <3>4 DEF WritesOf
  <2>4. CASE FailedAtOnce(send_queue', reading, due)
    <3>1. due /\ ops' = ops \union reading /\ strand' = Append(Rest, e) /\ e \in HandlerType
      BY <1>3, <2>4 DEF FailedAtOnce, e, w
    <3>2. \A n, hs : HandlerCount(Append(Rest, e), n, hs)
                       = HandlerCount(Rest, n, hs) + IF Counts(e, n, hs) THEN 1 ELSE 0
      BY <1>2, <3>1, CountAppend
    <3>3. Counts(e, session_number, {"write"})
      BY <1>3 DEF Counts
    <3>4. HandlerCount(strand', session_number, {"write"}) = 1
      BY <2>2, <3>1, <3>2, <3>3
    <3> QED BY <2>1, <2>2, <3>1, <3>4 DEF WritesOf
  <2>5. CASE NotWritten(reading, due)
    <3>1. ~due /\ ops' = ops \union reading /\ strand' = Rest
      BY <2>1, <2>5 DEF NotWritten
    <3> QED BY <2>1, <2>2, <3>1 DEF WritesOf
  <2> QED BY <1>5, <2>3, <2>4, <2>5
<1> QED BY <1>8, <1>11, <1>12, <1>13

\* What the steps that go on reading or writing start from.
LEMMA AtHandler ==
  ASSUME Inv, NEW k, Runs(k)
  PROVE  /\ Types /\ session_number \in Nat /\ strand \in Seq(HandlerType) /\ IsFiniteSet(ops)
         /\ ~fault /\ inside = Nowhere /\ inside.at = "no" /\ starts # 0
         /\ Handler \in HandlerType /\ Handler \in Elems(strand) /\ Handler.op = k
         /\ Rest \in Seq(HandlerType)
         /\ Elems(strand) = Elems(Rest) \union {Handler}
         /\ \A h \in Elems(Rest) : h \in Elems(strand) /\ h \in HandlerType
         /\ Ordered(Rest, InOrder) /\ \A h \in Elems(Rest) : <<Handler, h>> \in InOrder
         /\ Calm => /\ Ordered(Rest, WriteOrder(session_number))
                    /\ \A h \in Elems(Rest) : <<Handler, h>> \in WriteOrder(session_number)
         /\ \A m, hs : HandlerCount(strand, m, hs)
                         = HandlerCount(Rest, m, hs) + IF Counts(Handler, m, hs) THEN 1 ELSE 0
         /\ send_queue \in Seq(1 .. MaxMessages) /\ fault = FALSE
<1>1. /\ Types /\ session_number \in Nat /\ strand \in Seq(HandlerType) /\ IsFiniteSet(ops)
      /\ send_queue \in Seq(1 .. MaxMessages) /\ fault \in BOOLEAN
  BY DEF Inv, Types, TypeOK
<1>2. /\ ~fault /\ inside = Nowhere /\ strand # <<>>
      /\ Handler \in HandlerType /\ Handler \in Elems(strand) /\ Handler.op = k
      /\ Rest \in Seq(HandlerType)
      /\ Elems(strand) = Elems(Rest) \union {Handler}
      /\ \A R : Ordered(strand, R) => /\ Ordered(Rest, R)
                                      /\ \A d \in Elems(Rest) : <<Handler, d>> \in R
      /\ \A n, hs : HandlerCount(strand, n, hs)
                      = HandlerCount(Rest, n, hs) + IF Counts(Handler, n, hs) THEN 1 ELSE 0
  BY <1>1, Running
<1>3. inside.at = "no" /\ starts # 0
  BY <1>2 DEF Inv, First, Nowhere, At
<1>4. \A h \in Elems(Rest) : h \in Elems(strand) /\ h \in HandlerType
  BY <1>2, ElemsType
<1>5. Ordered(strand, InOrder) /\ (Calm => Ordered(strand, WriteOrder(session_number)))
  BY DEF Inv, Stopping, Shaken
<1> QED BY <1>1, <1>2, <1>3, <1>4, <1>5

LEMMA OnHandshakeStep ==
  ASSUME Inv, OnHandshake
  PROVE  Inv'
<1> DEFINE reading == {Op("read", session_number, 0)}
           due == send_queue # <<>>
<1>1. Runs("handshake") /\ UNCHANGED <<is_stopped, session_number, ws, send_queue, wire, threads, counts, flags>>
  BY DEF OnHandshake
<1>2. /\ session_number \in Nat /\ Types
      /\ ~fault /\ inside = Nowhere /\ inside.at = "no"
      /\ Handler \in Elems(strand) /\ Handler.op = "handshake"
      /\ Elems(strand) = Elems(Rest) \union {Handler}
      /\ \A h \in Elems(Rest) : h \in Elems(strand)
      /\ Calm => \A h \in Elems(Rest) : <<Handler, h>> \in WriteOrder(session_number)
      /\ send_queue \in Seq(1 .. MaxMessages) /\ fault = FALSE
  BY <1>1, AtHandler
<1>3. ~Written(Handler) /\ Handler.op # "post"
  BY <1>2 DEF Written
<1>4. CASE ~(Current(Handler.num) /\ Handler.result = "ok")
  <2>1. /\ NoWrite({}) /\ UNCHANGED told
        /\ \/ Handler.result # "ok" /\ Disconnects
           \/ ~Current(Handler.num) /\ UNCHANGED inside
    BY <1>4 DEF OnHandshake
  <2>2. Handled
    BY <1>2, <2>1 DEF Handled, Disconnects
  <2>3. /\ strand' = Rest
        /\ UNCHANGED <<is_stopped, session_number, stream, messages, told, threads, counts, flags, fault>>
    BY <1>1, <1>2, <2>1 DEF NoWrite, stream, messages
  <2> QED BY <1>1, <1>3, <2>2, <2>3, HandledStep DEF ChainOps
<1>5. CASE Current(Handler.num) /\ Handler.result = "ok"
  <2>1. Handler.num = session_number /\ ~is_stopped
    BY <1>5 DEF Current
  <2>2. told' /\ told' = TRUE /\ UNCHANGED inside /\ Wrote(send_queue, reading, due)
    <3>1. /\ told' = TRUE /\ UNCHANGED inside
          /\ IF send_queue # <<>> THEN DoWrite(send_queue, session_number, reading) ELSE NoWrite(reading)
      BY <1>2, <1>5, <2>1 DEF OnHandshake, Disconnects
    <3>2. send_queue # <<>> => Head(send_queue) \in 1 .. MaxMessages
      BY <1>2, HeadTailProperties
    <3> QED BY <3>1, <3>2 DEF Wrote
  <2>3. reading \in SUBSET {Op("read", session_number, 0)} /\ reading # {} /\ due \in BOOLEAN
    OBVIOUS
  <2> HIDE DEF reading
  <2>4. /\ Types' /\ Numbered' /\ Stopping' /\ Quiet' /\ First'
        /\ UNCHANGED <<is_stopped, session_number, ws, inside, wire, starter, stopper, posted, failures,
                       starts, raced, overlapped, threw>>
    BY <1>1, <1>2, <2>1, <2>2, <2>3, WroteTypes
  <2>5. Left(reading)
    BY <1>1, <2>2, <2>3, WroteParts
  <2>6. ASSUME Apart
        PROVE  /\ Live' = 1 /\ Reads' = 1
               /\ \A o \in ops : ~(o.num = session_number /\ o.op \in ChainOps)
               /\ \A h \in Elems(Rest) : ~(h.num = session_number /\ h.op \in ChainOps)
    <3>1. Live = 1
      BY <1>1, <2>1, <2>6, OnlyHandler DEF ChainOps
    <3> QED BY <1>1, <2>1, <2>2, <2>3, <2>4, <2>6, <3>1, WroteSums
  <2>7. Single'
    BY <1>2, <2>2, <2>4, <2>6 DEF Single, Apart
  <2>8. ASSUME Calm' PROVE Shaken' /\ Pending' /\ Writing' /\ ~fault'
    <3>1. Calm /\ Apart
      BY <2>4, <2>5, <2>8 DEF Calm, Apart, Left
    <3>2. ws = "open" /\ ops = {}
      BY <1>2, <1>5, <2>1, <3>1 DEF Inv, Shaken
    <3>3. \A h \in Elems(Rest) : h.op # "write" /\ ~Written(h)
      BY <1>2, <1>5, <2>1, <3>1 DEF WriteOrder, Written
    <3>4. \A p \in ops : p.op # "write"
      BY <3>2
    <3>5. Wrote(send_queue', reading, due)
      BY <1>1, <2>2
    <3>6. due => send_queue' # <<>>
      BY <1>1
    <3>7. reading # {} => /\ ws # "null"
                          /\ \A o \in ops : ~(o.num = session_number /\ o.op \in ChainOps)
                          /\ \A h \in Elems(Rest) : ~(h.num = session_number /\ h.op \in ChainOps)
      BY <2>6, <3>1, <3>2
    <3>8. Reads' > 0 => /\ ws # "null" /\ (due <=> send_queue' # <<>>)
                        /\ \A h \in Elems(Rest) : h.op # "write"
      BY <1>1, <3>2, <3>3
    <3> HIDE DEF due
    <3> QED BY <1>1, <2>1, <2>3, <2>4, <2>8, <3>3, <3>4, <3>5, <3>6, <3>7, <3>8, WroteFront
  <2>9. Shaken' /\ Pending' /\ Writing' /\ NoFault'
    BY <2>8 DEF Shaken, Pending, Writing, NoFault
  <2>10. Sequel'
    <3>1. \A h : h.op = "post" \/ Written(h) => (h \in Elems(strand') <=> h \in Elems(strand))
      BY <1>2, <1>3, <2>5 DEF Left
    <3>2. early => early'
      BY <2>5 DEF Left
    <3> QED BY <1>1, <2>4, <3>1, <3>2, SequelKept DEF Inv
  <2> QED BY <2>4, <2>7, <2>9, <2>10 DEF Inv
<1> QED BY <1>4, <1>5

LEMMA OnReadStep ==
  ASSUME Inv, OnRead
  PROVE  Inv'
<1> DEFINE reading == {Op("read", session_number, 0)}
<1>1. /\ Runs("read")
      /\ UNCHANGED <<is_stopped, session_number, ws, send_queue, wire, told, threads, counts, flags>>
  BY DEF OnRead
<1>2. /\ session_number \in Nat /\ Types /\ IsFiniteSet(ops)
      /\ ~fault /\ inside = Nowhere /\ inside.at = "no"
      /\ Handler \in Elems(strand) /\ Handler.op = "read" /\ Rest \in Seq(HandlerType)
      /\ Elems(strand) = Elems(Rest) \union {Handler}
      /\ \A h \in Elems(Rest) : h \in Elems(strand)
      /\ Calm => Ordered(Rest, WriteOrder(session_number))
      /\ \A m, hs : HandlerCount(strand, m, hs)
                      = HandlerCount(Rest, m, hs) + IF Counts(Handler, m, hs) THEN 1 ELSE 0
      /\ send_queue \in Seq(1 .. MaxMessages) /\ told \in BOOLEAN /\ fault = FALSE
  BY <1>1, AtHandler DEF Types, TypeOK
<1>3. ~Written(Handler) /\ Handler.op # "post"
  BY <1>2 DEF Written
<1>4. CASE ~(Current(Handler.num) /\ Handler.result = "ok")
  <2>1. /\ NoWrite({})
        /\ \/ Handler.result # "ok" /\ Disconnects
           \/ ~Current(Handler.num) /\ UNCHANGED inside
    BY <1>4 DEF OnRead
  <2>2. Handled
    BY <1>2, <2>1 DEF Handled, Disconnects
  <2>3. /\ strand' = Rest
        /\ UNCHANGED <<is_stopped, session_number, stream, messages, told, threads, counts, flags, fault>>
    BY <1>1, <1>2, <2>1 DEF NoWrite, stream, messages
  <2> QED BY <1>1, <1>3, <2>2, <2>3, HandledStep DEF ChainOps
<1>5. CASE Current(Handler.num) /\ Handler.result = "ok"
  <2>1. Handler.num = session_number /\ ~is_stopped
    BY <1>5 DEF Current
  <2>2. UNCHANGED inside /\ NoWrite(reading) /\ Wrote(send_queue, reading, FALSE)
    BY <1>2, <1>5, <2>1 DEF OnRead, Disconnects, Wrote
  <2>3. reading \in SUBSET {Op("read", session_number, 0)} /\ reading # {}
    OBVIOUS
  <2> HIDE DEF reading
  <2>4. /\ Types' /\ Numbered' /\ Stopping' /\ Quiet' /\ First'
        /\ UNCHANGED <<is_stopped, session_number, ws, inside, wire, starter, stopper, posted, failures,
                       starts, raced, overlapped, threw>>
    BY <1>1, <1>2, <2>1, <2>2, <2>3, WroteTypes
  <2>5. Left(reading)
    BY <1>1, <2>2, <2>3, WroteParts
  <2>6. ASSUME Apart
        PROVE  /\ Live' = Live /\ Live = 1 /\ Reads' = 1
               /\ \A o \in ops : ~(o.num = session_number /\ o.op \in ChainOps)
               /\ \A h \in Elems(Rest) : ~(h.num = session_number /\ h.op \in ChainOps)
    <3>1. Live = 1
      BY <1>1, <2>1, <2>6, OnlyHandler DEF ChainOps
    <3> QED BY <1>1, <2>1, <2>2, <2>3, <2>4, <2>6, <3>1, WroteSums
  <2>7. Reads # 0 /\ Reads \in Nat
    BY <1>2, <2>1, ReadsNone, SumsNat
  <2>8. Single'
    <3>1. Apart => Reads = 1
      BY <1>2, <2>6, <2>7, LiveOnly
    <3> QED BY <1>1, <1>2, <2>4, <2>6, <3>1 DEF Inv, Single, Apart, Ended
  <2>9. ops' = ops \union reading /\ strand' = Rest /\ UNCHANGED early /\ (fault' => ws = "null")
    BY <2>2 DEF NoWrite
  <2>10. \A p \in reading : p.op = "read" /\ p.num = session_number
    BY <2>5 DEF Left
  <2>11. NoFault'
    <3>1. Calm => ws # "null"
      BY <2>7 DEF Inv, Shaken
    <3> QED BY <2>4, <2>9, <3>1 DEF NoFault, Calm, Apart
  <2>12. Shaken'
    <3> SUFFICES ASSUME Calm PROVE Shaken'
      BY <2>4, <2>9 DEF Shaken, Calm, Apart
    <3>1. Apart
      BY DEF Calm
    <3>2. \A o \in ops' : o.num = session_number => o.op # "connect" /\ o.op # "handshake"
      BY <2>6, <2>9, <2>10, <3>1 DEF ChainOps
    <3>3. \A h \in Elems(strand') : h.num = session_number => h.op # "connect" /\ h.op # "handshake"
      BY <2>6, <2>9, <3>1 DEF ChainOps
    <3>4. /\ ws # "null"
          /\ \A o \in ops : o.op = "write" => o.num = session_number
          /\ \A h \in Elems(strand) : h.op = "write" => h.num = session_number
      BY <2>7 DEF Inv, Shaken
    <3> QED BY <1>2, <2>4, <2>9, <2>10, <3>2, <3>3, <3>4 DEF Shaken
  <2>13. Pending'
    BY <1>1, <1>2, <2>4, <2>9, <2>10, PendingKept DEF Inv, Calm, Apart
  <2>14. Writing'
    <3>1. HandlerCount(strand', session_number, {"write"}) = HandlerCount(strand, session_number, {"write"})
      <4>1. ~Counts(Handler, session_number, {"write"})
        BY <1>2 DEF Counts
      <4>2. HandlerCount(Rest, session_number, {"write"}) \in Nat
        BY <1>2, CountNone
      <4> QED BY <1>2, <2>9, <4>1, <4>2
    <3>2. OpCount(ops', session_number, {"write"}) = OpCount(ops, session_number, {"write"})
      <4>1. \A o : o.num = session_number /\ o.op \in {"write"} => (o \in ops' <=> o \in ops)
        BY <2>9, <2>10
      <4> QED BY <4>1, OpCountSame
    <3>3. WritesOf' = WritesOf
      BY <2>4, <3>1, <3>2 DEF WritesOf
    <3> QED BY <1>1, <1>2, <2>1, <2>4, <2>7, <2>9, <3>3 DEF Inv, Writing, Calm, Apart
  <2>15. Sequel'
    <3>1. \A h : h.op = "post" \/ Written(h) => (h \in Elems(strand') <=> h \in Elems(strand))
      BY <1>2, <1>3, <2>9
    <3> QED BY <1>1, <2>4, <2>9, <3>1, SequelKept DEF Inv
  <2> QED BY <2>4, <2>8, <2>11, <2>12, <2>13, <2>14, <2>15 DEF Inv
<1> QED BY <1>4, <1>5

LEMMA WriteStep ==
  ASSUME Inv, Write
  PROVE  Inv'
<1> DEFINE q == Append(send_queue, Handler.msg)
           due == WritesFirst(q) /\ ~is_stopped
           n == Len(send_queue)
<1>1. /\ Runs("post") /\ send_queue' = q
      /\ IF due THEN DoWrite(q, session_number, {}) ELSE NoWrite({})
      /\ UNCHANGED <<is_stopped, session_number, ws, inside, wire, told, threads, counts, flags>>
  BY DEF Write
<1>2. /\ session_number \in Nat /\ Types /\ IsFiniteSet(ops)
      /\ ~fault /\ inside = Nowhere /\ inside.at = "no"
      /\ Handler \in HandlerType /\ Handler \in Elems(strand) /\ Handler.op = "post"
      /\ Rest \in Seq(HandlerType)
      /\ Elems(strand) = Elems(Rest) \union {Handler}
      /\ \A h \in Elems(Rest) : h \in Elems(strand) /\ h \in HandlerType
      /\ \A h \in Elems(Rest) : <<Handler, h>> \in InOrder
      /\ Calm => Ordered(Rest, WriteOrder(session_number))
      /\ send_queue \in Seq(1 .. MaxMessages)
      /\ \A m, hs : HandlerCount(strand, m, hs)
                      = HandlerCount(Rest, m, hs) + IF Counts(Handler, m, hs) THEN 1 ELSE 0
  BY <1>1, AtHandler
<1>3. told \in BOOLEAN /\ posted \in Nat
  BY <1>2 DEF Types, TypeOK
<1>4. Handler.msg \in 1 .. MaxMessages /\ Handler.msg <= posted /\ ~Written(Handler)
  <2>1. Handler.msg \in 0 .. MaxMessages
    BY <1>2 DEF HandlerType
  <2> QED BY <1>2, <2>1, BoundsAssumption DEF Types, Written
<1>5. /\ q \in Seq(1 .. MaxMessages) /\ Len(q) = n + 1 /\ n \in Nat /\ q # <<>>
      /\ q[n + 1] = Handler.msg /\ \A i \in 1 .. n : q[i] = send_queue[i]
      /\ Head(q) \in 1 .. MaxMessages
      /\ send_queue # <<>> => Head(q) = Head(send_queue)
      /\ n = 0 <=> send_queue = <<>>
  <2>1. /\ q \in Seq(1 .. MaxMessages) /\ Len(q) = n + 1 /\ n \in Nat
        /\ q[n + 1] = Handler.msg /\ \A i \in 1 .. n : q[i] = send_queue[i]
        /\ n = 0 <=> send_queue = <<>>
    BY <1>2, <1>4, AppendProperties, LenProperties, EmptySeq
  <2> HIDE DEF q
  <2>2. q # <<>>
    BY <2>1, EmptySeq
  <2>3. Head(q) = q[1] /\ Head(q) \in 1 .. MaxMessages
    <3>1. q \in Seq(1 .. MaxMessages) /\ 1 \in 1 .. Len(q)
      BY <2>1
    <3>2. Head(q) = q[1]
      BY <3>1
    <3> QED BY <3>1, <3>2, ElementOfSeq
  <2>4. send_queue # <<>> => Head(send_queue) = send_queue[1] /\ 1 \in 1 .. n
    BY <1>2, <2>1, HeadTailProperties
  <2> QED BY <2>1, <2>2, <2>3, <2>4
<1>6. due \in BOOLEAN /\ (due <=> send_queue = <<>> /\ ~is_stopped)
  BY <1>5 DEF WritesFirst
<1> HIDE DEF q, due
<1>7. Wrote(send_queue', {}, due) /\ {} \in SUBSET {Op("read", session_number, 0)}
  BY <1>1, <1>5 DEF Wrote
<1>8. /\ Types' /\ Numbered' /\ Stopping' /\ Quiet' /\ First'
      /\ UNCHANGED <<is_stopped, session_number, ws, inside, wire, starter, stopper, posted, failures,
                     starts, raced, overlapped, threw>>
  <2>1. /\ UNCHANGED <<is_stopped, session_number, ws, inside, wire, threads, counts, flags>>
        /\ send_queue' \in Seq(1 .. MaxMessages) /\ told' \in BOOLEAN /\ UNCHANGED told
    BY <1>1, <1>2, <1>5, <1>3
  <2>2. is_stopped => ~due
    BY <1>6
  <2> QED BY <1>1, <1>6, <1>7, <2>1, <2>2, WroteTypes
<1>9. Left({})
  BY <1>1, <1>6, <1>7, WroteParts
<1>10. Apart => Live' = Live /\ Live <= 1 /\ Reads' = Reads
  BY <1>1, <1>6, <1>7, <1>8, WroteSums
<1>11. Single'
  BY <1>1, <1>2, <1>8, <1>10 DEF Inv, Single, Apart, Ended
<1>12. ~due => ops' = ops /\ strand' = Rest /\ ~fault' /\ UNCHANGED early
  BY <1>7 DEF Wrote, NoWrite
<1>13. ASSUME Calm' PROVE Shaken' /\ Pending' /\ Writing' /\ ~fault'
  <2>1. Calm /\ Apart
    BY <1>8, <1>9, <1>13 DEF Calm, Apart, Left
  <2>2. send_queue = <<>> => /\ \A p \in ops : p.op # "write"
                             /\ \A h \in Elems(strand) : ~Written(h)
    BY <2>1 DEF Inv, Pending
  <2>3. Reads' = Reads
    BY <1>10, <2>1
  <2>4. CASE due
    <3>1. send_queue = <<>> /\ ~is_stopped /\ send_queue' # <<>>
      BY <1>1, <1>5, <1>6, <2>4
    <3>2. /\ \A p \in ops : p.op # "write"
          /\ \A h \in Elems(Rest) : ~Written(h)
      BY <1>2, <2>2, <3>1
    <3>3. Reads' > 0 => /\ ws # "null" /\ (due <=> send_queue' # <<>>)
                        /\ \A h \in Elems(Rest) : h.op # "write"
      <4> SUFFICES ASSUME Reads' > 0
                   PROVE  ws # "null" /\ \A h \in Elems(Rest) : h.op # "write"
        BY <2>4, <3>1
      <4>1. WritesOf = 0
        BY <1>2, <2>1, <2>3, <3>1 DEF Inv, Writing
      <4>2. \A h \in Elems(strand) : ~(h.num = session_number /\ h.op = "write")
        BY <1>2, <4>1, WritesNone
      <4>3. ws # "null" /\ \A h \in Elems(strand) : h.op = "write" => h.num = session_number
        BY <2>1, <2>3 DEF Inv, Shaken
      <4> QED BY <1>2, <4>2, <4>3
    <3> QED BY <1>1, <1>6, <1>7, <1>8, <1>13, <3>1, <3>2, <3>3, WroteFront
  <2>5. CASE ~due
    <3>1. ops' = ops /\ strand' = Rest /\ ~fault'
      BY <1>12, <2>5
    <3>2. Pending'
      BY <1>1, <1>2, <1>5, <2>1, <2>2, <3>1 DEF Inv, Pending
    <3>3. Shaken'
      BY <1>2, <1>8, <2>1, <2>3, <3>1 DEF Inv, Shaken
    <3>4. Writing'
      <4>1. HandlerCount(strand', session_number, {"write"}) = HandlerCount(strand, session_number, {"write"})
        <5>1. ~Counts(Handler, session_number, {"write"})
          BY <1>2 DEF Counts
        <5>2. HandlerCount(Rest, session_number, {"write"}) \in Nat
          BY <1>2, CountNone
        <5> QED BY <1>2, <3>1, <5>1, <5>2
      <4>2. WritesOf' = WritesOf
        BY <1>8, <3>1, <4>1 DEF WritesOf
      <4>3. ~is_stopped => send_queue # <<>> /\ send_queue' # <<>>
        BY <1>1, <1>5, <1>6, <2>5
      <4> QED BY <1>2, <1>8, <2>1, <2>3, <4>2, <4>3 DEF Inv, Writing
    <3> QED BY <3>1, <3>2, <3>3, <3>4
  <2> QED BY <2>4, <2>5
<1>14. Shaken' /\ Pending' /\ Writing' /\ NoFault'
  BY <1>13 DEF Shaken, Pending, Writing, NoFault
<1>15. Sequel'
  <2> SUFFICES ASSUME starts <= 1, ~is_stopped, ~early'
               PROVE  /\ \A i \in 1 .. Len(wire) : wire[i] = i
                      /\ \A i \in 1 .. Len(q) : q[i] = Gone' + i
                      /\ Gone' + Len(q) <= posted
                      /\ \A d \in Elems(strand') : d.op = "post" => d.msg > Gone' + Len(q)
                      /\ \A m \in Gone' + Len(q) + 1 .. posted :
                           \E d \in Elems(strand') : d.op = "post" /\ d.msg = m
    BY <1>1, <1>8 DEF Sequel
  <2>1. ~early
    BY <1>9 DEF Left
  <2>2. /\ \A i \in 1 .. Len(wire) : wire[i] = i
        /\ \A i \in 1 .. n : send_queue[i] = Gone + i
        /\ \A d \in Elems(strand) : d.op = "post" => d.msg > Gone + n
        /\ \A m \in Gone + n + 1 .. posted : \E d \in Elems(strand) : d.op = "post" /\ d.msg = m
    BY <2>1 DEF Inv, Sequel
  <2>3. /\ \A h \in Elems(Rest) : h \in Elems(strand')
        /\ \A h \in Elems(strand') : h \in Elems(Rest) \/ (h.op = "write" /\ ~Written(h))
    BY <1>9 DEF Left
  <2>4. WritingEnded' <=> WritingEnded
    BY <1>2, <1>4, <2>3 DEF WritingEnded
  <2>5. Gone' = Gone
    BY <1>8, <2>4 DEF Gone
  <2>6. Gone \in Int
    BY <1>2, LenProperties DEF Types, TypeOK, Gone
  <2>7. \A h \in Elems(Rest) : h.op = "post" => Handler.msg < h.msg
    BY <1>2 DEF InOrder
  <2>8. \A h \in Elems(Rest) : h.msg \in Nat
    BY <1>2, BoundsAssumption DEF HandlerType
  <2>9. Handler.msg = Gone + n + 1
    <3>1. Gone + n + 1 \in Gone + n + 1 .. posted
      BY <1>2, <1>4, <1>5, <1>3, <2>2, <2>6
    <3>2. PICK d \in Elems(strand) : d.op = "post" /\ d.msg = Gone + n + 1
      BY <2>2, <3>1
    <3>3. Handler.msg >= Gone + n + 1
      BY <1>2, <1>4, <1>5, <1>3, <2>2, <2>6
    <3>4. d \notin Elems(Rest)
      BY <1>4, <1>5, <2>6, <2>7, <2>8, <3>2, <3>3
    <3> QED BY <1>2, <3>2, <3>4
  <2>10. \A i \in 1 .. Len(q) : q[i] = Gone + i
    <3> TAKE i \in 1 .. Len(q)
    <3>1. CASE i \in 1 .. n
      BY <1>5, <2>2, <3>1
    <3>2. CASE i = n + 1
      BY <1>5, <2>6, <2>9, <3>2
    <3> QED BY <1>5, <3>1, <3>2
  <2>11. Gone + Len(q) = Handler.msg
    BY <1>5, <2>6, <2>9
  <2>12. \A m \in Gone + Len(q) + 1 .. posted : \E d \in Elems(strand') : d.op = "post" /\ d.msg = m
    <3> TAKE m \in Gone + Len(q) + 1 .. posted
    <3>1. m \in Gone + n + 1 .. posted /\ m # Handler.msg
      BY <1>2, <1>5, <1>3, <2>6, <2>9
    <3>2. PICK d \in Elems(strand) : d.op = "post" /\ d.msg = m
      BY <2>2, <3>1
    <3>3. d \in Elems(strand')
      BY <1>2, <2>3, <3>1, <3>2
    <3> QED BY <3>2, <3>3
  <2>13. \A d \in Elems(strand') : d.op = "post" => d.msg > Gone + Len(q)
    <3> SUFFICES ASSUME NEW d \in Elems(strand'), d.op = "post"
                 PROVE  d.msg > Handler.msg
      BY <2>11
    <3>1. d \in Elems(Rest)
      BY <2>3
    <3> QED BY <1>4, <2>7, <2>8, <3>1
  <2> QED BY <1>4, <2>2, <2>5, <2>10, <2>11, <2>12, <2>13
<1> QED BY <1>8, <1>11, <1>14, <1>15 DEF Inv

\* A write that ended is the only one, and it was the front's.
LEMMA OnWriteWritten ==
  ASSUME Inv, Runs("write"), OnWrite, ~is_stopped, Handler.result = "ok",
         send_queue # <<>> /\ Head(send_queue) = Handler.msg
  PROVE  Inv'
<1> DEFINE q == Tail(send_queue)
           due == Handler.num = session_number /\ Len(send_queue) > 1
           n == Len(send_queue)
<1>1. /\ send_queue' = q /\ UNCHANGED inside
      /\ IF due THEN DoWrite(q, Handler.num, {}) ELSE NoWrite({})
      /\ UNCHANGED <<is_stopped, session_number, ws, wire, told, threads, counts, flags>>
  BY DEF OnWrite, OnWriteOk
<1>2. /\ session_number \in Nat /\ Types /\ IsFiniteSet(ops)
      /\ ~fault /\ inside = Nowhere /\ inside.at = "no"
      /\ Handler \in HandlerType /\ Handler \in Elems(strand) /\ Handler.op = "write"
      /\ Rest \in Seq(HandlerType)
      /\ Elems(strand) = Elems(Rest) \union {Handler}
      /\ \A h \in Elems(Rest) : h \in Elems(strand) /\ h \in HandlerType
      /\ Calm => \A h \in Elems(Rest) : <<Handler, h>> \in WriteOrder(session_number)
      /\ send_queue \in Seq(1 .. MaxMessages)
      /\ \A m, hs : HandlerCount(strand, m, hs)
                      = HandlerCount(Rest, m, hs) + IF Counts(Handler, m, hs) THEN 1 ELSE 0
  BY AtHandler
<1>3. told \in BOOLEAN /\ Written(Handler) /\ Handler.op # "post"
  BY <1>2 DEF Types, TypeOK, Written
<1>4. /\ q \in Seq(1 .. MaxMessages) /\ n \in Nat /\ n >= 1 /\ Len(q) = n - 1
      /\ \A i \in 1 .. n - 1 : q[i] = send_queue[i + 1]
      /\ q # <<>> => Head(q) \in 1 .. MaxMessages
      /\ q # <<>> <=> n > 1
  <2>1. q \in Seq(1 .. MaxMessages) /\ n \in Nat /\ n >= 1 /\ Len(q) = n - 1
    BY <1>2, HeadTailProperties, LenProperties, EmptySeq
  <2>2. \A i \in 1 .. n - 1 : q[i] = send_queue[i + 1]
    BY <1>2, HeadTailProperties
  <2> HIDE DEF q, n
  <2>3. q # <<>> <=> n > 1
    BY <2>1, EmptySeq
  <2>4. q # <<>> => Head(q) \in 1 .. MaxMessages
    BY <2>1, HeadTailProperties
  <2> QED BY <2>1, <2>2, <2>3, <2>4
<1>5. due \in BOOLEAN /\ (due <=> Handler.num = session_number /\ q # <<>>)
  BY <1>4
<1> HIDE DEF q, due, n
<1>6. Wrote(send_queue', {}, due) /\ {} \in SUBSET {Op("read", session_number, 0)}
  BY <1>1, <1>4, <1>5 DEF Wrote
<1>7. /\ Types' /\ Numbered' /\ Stopping' /\ Quiet' /\ First'
      /\ UNCHANGED <<is_stopped, session_number, ws, inside, wire, starter, stopper, posted, failures,
                     starts, raced, overlapped, threw>>
  <2>1. /\ UNCHANGED <<is_stopped, session_number, ws, inside, wire, threads, counts, flags>>
        /\ send_queue' \in Seq(1 .. MaxMessages) /\ told' \in BOOLEAN
    BY <1>1, <1>3, <1>4
  <2> QED BY <1>5, <1>6, <2>1, WroteTypes
<1>8. Left({})
  BY <1>5, <1>6, WroteParts
<1>9. Apart => Live' = Live /\ Live <= 1 /\ Reads' = Reads
  BY <1>5, <1>6, <1>7, WroteSums
<1>10. Single'
  BY <1>1, <1>2, <1>7, <1>9 DEF Inv, Single, Apart, Ended
<1>11. ASSUME Calm
       PROVE  /\ \A p \in ops : p.op # "write"
              /\ \A h \in Elems(Rest) : ~Written(h)
  BY <1>2, <1>3, <1>11 DEF Inv, Pending, WriteOrder
<1>12. ASSUME Calm' PROVE Shaken' /\ Pending' /\ Writing' /\ ~fault'
  <2>1. Calm /\ Apart
    BY <1>7, <1>8, <1>12 DEF Calm, Apart, Left
  <2>2. Reads' > 0 => /\ ws # "null" /\ (due <=> send_queue' # <<>>)
                      /\ \A h \in Elems(Rest) : h.op # "write"
    <3> SUFFICES ASSUME Reads' > 0
                 PROVE  /\ ws # "null" /\ (due <=> q # <<>>)
                        /\ \A h \in Elems(Rest) : h.op # "write"
      BY <1>1
    <3>1. Reads > 0
      BY <1>9, <2>1
    <3>2. ws # "null" /\ \A h \in Elems(strand) : h.op = "write" => h.num = session_number
      BY <2>1, <3>1 DEF Inv, Shaken
    <3>3. Counts(Handler, session_number, {"write"}) /\ Handler.num = session_number
      BY <1>2, <3>2 DEF Counts
    <3>4. WritesOf = 1
      BY <1>2, <2>1, <3>1 DEF Inv, Writing
    <3>5. HandlerCount(Rest, session_number, {"write"}) \in Nat /\ OpCount(ops, session_number, {"write"}) \in Nat
      BY <1>2, CountNone, SumsNat
    <3>6. HandlerCount(strand, session_number, {"write"}) = HandlerCount(Rest, session_number, {"write"}) + 1
      BY <1>2, <3>3
    <3>7. HandlerCount(Rest, session_number, {"write"}) = 0
      BY <3>4, <3>5, <3>6 DEF WritesOf
    <3>8. \A h \in Elems(Rest) : ~(h.num = session_number /\ h.op \in {"write"})
      BY <1>2, <3>7, CountNone
    <3> QED BY <1>2, <1>5, <3>2, <3>3, <3>8
  <2>3. due => send_queue' # <<>>
    BY <1>1, <1>5
  <2> QED BY <1>5, <1>6, <1>7, <1>11, <1>12, <2>1, <2>2, <2>3, WroteFront
<1>13. Shaken' /\ Pending' /\ Writing' /\ NoFault'
  BY <1>12 DEF Shaken, Pending, Writing, NoFault
<1>14. Sequel'
  <2> SUFFICES ASSUME starts <= 1, ~is_stopped, ~early'
               PROVE  /\ \A i \in 1 .. Len(wire) : wire[i] = i
                      /\ \A i \in 1 .. Len(q) : q[i] = Gone' + i
                      /\ Gone' + Len(q) <= posted
                      /\ \A d \in Elems(strand') : d.op = "post" => d.msg > Gone' + Len(q)
                      /\ \A m \in Gone' + Len(q) + 1 .. posted :
                           \E d \in Elems(strand') : d.op = "post" /\ d.msg = m
    BY <1>1, <1>7 DEF Sequel
  <2>1. ~early /\ Calm
    BY <1>8 DEF Left, Inv, First, Calm
  <2>2. /\ \A i \in 1 .. Len(wire) : wire[i] = i
        /\ \A i \in 1 .. n : send_queue[i] = Gone + i
        /\ Gone + n <= posted
        /\ \A d \in Elems(strand) : d.op = "post" => d.msg > Gone + n
        /\ \A m \in Gone + n + 1 .. posted : \E d \in Elems(strand) : d.op = "post" /\ d.msg = m
    BY <2>1 DEF Inv, Sequel, n
  <2>3. /\ \A h \in Elems(Rest) : h \in Elems(strand')
        /\ \A h \in Elems(strand') : h \in Elems(Rest) \/ (h.op = "write" /\ ~Written(h))
    BY <1>8 DEF Left
  <2>4. WritingEnded /\ ~WritingEnded'
    BY <1>2, <1>3, <1>11, <2>1, <2>3 DEF WritingEnded
  <2>5. Len(wire) \in Nat
    BY <1>2, LenProperties DEF Types, TypeOK
  <2>6. Gone' = Gone + 1 /\ Gone \in Int
    <3>1. Gone = Len(wire) - 1 /\ Gone' = Len(wire) - 0
      BY <1>7, <2>4 DEF Gone
    <3> QED BY <2>5, <3>1
  <2>7. Gone' + Len(q) = Gone + n
    BY <1>4, <2>6
  <2>8. \A i \in 1 .. Len(q) : q[i] = Gone' + i
    <3> TAKE i \in 1 .. Len(q)
    <3>1. i \in 1 .. n - 1 /\ i + 1 \in 1 .. n
      BY <1>4
    <3>2. q[i] = Gone + (i + 1)
      BY <1>4, <2>2, <3>1
    <3> QED BY <2>6, <3>1, <3>2
  <2>9. \A d : d.op = "post" => (d \in Elems(strand') <=> d \in Elems(strand))
    BY <1>2, <1>3, <2>3
  <2> QED BY <2>2, <2>7, <2>8, <2>9
<1> QED BY <1>7, <1>10, <1>13, <1>14 DEF Inv

LEMMA OnWriteStep ==
  ASSUME Inv, OnWrite
  PROVE  Inv'
<1> DEFINE front == send_queue # <<>> /\ Head(send_queue) = Handler.msg
<1>1. Runs("write") /\ UNCHANGED <<is_stopped, session_number, ws, wire, told, threads, counts, flags>>
  BY DEF OnWrite
<1>2. /\ Types /\ session_number \in Nat /\ inside = Nowhere /\ starts # 0 /\ fault = FALSE
      /\ Handler \in Elems(strand) /\ Handler.op = "write" /\ Rest \in Seq(HandlerType)
      /\ \A h \in Elems(Rest) : h \in Elems(strand)
      /\ Ordered(Rest, InOrder)
  BY <1>1, AtHandler
<1>3. CASE ~is_stopped /\ Handler.result = "ok" /\ front
  BY <1>1, <1>3, OnWriteWritten
<1>4. CASE ~is_stopped /\ Handler.result = "ok" /\ ~front
  <2>1. /\ fault' = TRUE /\ strand' = Rest /\ UNCHANGED <<send_queue, ops, early, inside>>
    BY <1>4 DEF OnWrite
  <2>2. UNCHANGED <<is_stopped, session_number, ws, wire, told, starter, stopper, posted, failures, starts,
                    raced, overlapped, threw>>
    BY <1>1 DEF threads, counts, flags
  <2>3. Types' /\ Numbered' /\ Stopping'
    <3>1. TypeOK'
      BY <1>2, <2>1, <2>2 DEF Types, TypeOK
    <3>2. Types'
      BY <1>2, <2>1, <2>2, <3>1 DEF Types
    <3> QED BY <1>2, <2>1, <2>2, <3>2 DEF Inv, Numbered, Stopping, Apart
  <2>4. Quiet'
    BY <1>4, <2>2 DEF Quiet, Ended
  <2>5. ~Calm'
    <3>1. Written(Handler)
      BY <1>2, <1>4 DEF Written
    <3>2. ~Calm
      BY <1>2, <1>4, <3>1 DEF Inv, Pending
    <3> QED BY <2>1, <2>2, <3>2 DEF Calm, Apart
  <2> QED BY <1>2, <2>1, <2>2, <2>3, <2>4, <2>5, FaultyStep
<1>5. CASE is_stopped \/ Handler.result # "ok"
  <2>1. /\ NoWrite({}) /\ UNCHANGED send_queue
        /\ \/ Handler.result # "ok" /\ Disconnects
           \/ ~Current(Handler.num) /\ UNCHANGED inside
    BY <1>5 DEF OnWrite, Current
  <2>2. Handled
    BY <1>2, <2>1 DEF Handled, Disconnects
  <2>3. /\ strand' = Rest
        /\ UNCHANGED <<is_stopped, session_number, stream, messages, told, threads, counts, flags, fault>>
    BY <1>1, <1>2, <2>1 DEF NoWrite, stream, messages
  <2>4. Written(Handler) => is_stopped
    BY <1>5 DEF Written
  <2> QED BY <1>1, <2>2, <2>3, <2>4, HandledStep DEF ChainOps
<1> QED BY <1>3, <1>4, <1>5

-----------------------------------------------------------------------------
(* Every step keeps it: the end of Stop *)

LEMMA RunStopStep ==
  ASSUME Inv, RunStop
  PROVE  Inv'
<1>1. /\ Runs("stop") /\ stopper' = "idle"
      /\ UNCHANGED <<is_stopped, session_number, inside, send_queue, wire, early, starter, posted, failures,
                     starts, raced, overlapped, fault>>
      /\ \/ /\ ws' = "null" /\ ops' = {} /\ strand' = Rest \o Aborted /\ told' = FALSE /\ UNCHANGED threw
         \/ /\ strand' = Rest /\ threw' = threw \union {"shutdown"} /\ UNCHANGED <<ws, ops, told>>
  BY DEF RunStop, StopTold, stream, messages, counts
<1>2. /\ Types /\ session_number \in Nat /\ strand \in Seq(HandlerType) /\ IsFiniteSet(ops)
      /\ ~fault /\ inside = Nowhere /\ inside.at = "no" /\ starts # 0 /\ starter.num \in Nat
      /\ Handler \in Elems(strand) /\ Handler.op = "stop"
      /\ Rest \in Seq(HandlerType)
      /\ \A h \in Elems(Rest) : h \in Elems(strand)
      /\ Ordered(Rest, InOrder) /\ \A h \in Elems(Rest) : <<Handler, h>> \in InOrder
      /\ Calm => Ordered(Rest, WriteOrder(session_number))
  BY <1>1, AtHandler DEF Types
<1>3. stopper = "waiting" /\ \A h \in Elems(Rest) : h.op # "stop"
  BY <1>2 DEF Inv, Stopping, InOrder
<1>4. ~overlapped => is_stopped /\ Ended
  BY <1>3 DEF Inv, Stopping, Ended
<1>5. \A h \in Elems(Aborted) :
        /\ h.op # "post" /\ h.op # "stop" /\ ~Written(h) /\ h.num = session_number
        /\ \E p \in ops : p.num = session_number /\ p.op = h.op
  BY <1>2, AbortedElems DEF ChainOps, Written
<1>6. /\ \A h \in Elems(strand') : h \in Elems(Rest) \/ h \in Elems(Aborted)
      /\ \A p \in ops' : p \in ops
      /\ strand' \in Seq(HandlerType) /\ Ordered(strand', InOrder)
  BY <1>1, <1>2, BeforeAborted
<1>7. Types'
  <2>1. IsFiniteSet(ops')
    <3>1. ops' \in SUBSET ops
      BY <1>6
    <3> QED BY <1>2, <3>1, FS_Subset
  <2>2. ws' \in {"null", "connecting", "handshaking", "open", "closing", "dead"} /\ told' \in BOOLEAN
    BY <1>1, <1>2 DEF Types, TypeOK
  <2>3. threw' \subseteq {"bind", "shutdown"}
    BY <1>1, <1>2 DEF Types, TypeOK
  <2>4. TypeOK'
    BY <1>1, <1>2, <1>6, <2>2, <2>3 DEF Types, TypeOK
  <2>5. ops' \in SUBSET OpType /\ \A p \in ops' : p.op = "write" <=> p.msg # 0
    BY <1>2, <1>6 DEF Types
  <2>6. \A h \in Elems(strand') : h.op = "post" => h.msg # 0 /\ h.msg <= posted
    BY <1>2, <1>5, <1>6 DEF Types
  <2> QED BY <1>1, <1>2, <1>6, <2>1, <2>4, <2>5, <2>6 DEF Types
<1>8. Numbered'
  BY <1>1, <1>2, <1>5, <1>6 DEF Inv, Numbered
<1>9. Stopping'
  <2>1. \A h \in Elems(strand') : h.op # "stop"
    BY <1>3, <1>5, <1>6
  <2>2. threw' = {} => ~told'
    BY <1>1
  <2> QED BY <1>1, <1>6, <2>1, <2>2 DEF Stopping
<1>10. ASSUME Apart
       PROVE  /\ is_stopped /\ Ended
              /\ \A p \in ops : p.num # session_number
              /\ \A h \in Elems(strand') : h.op \notin {"post", "stop"} => h \in Elems(strand) /\ h.num < session_number
              /\ Starting' = 0 /\ Asleep' = 0 /\ Elems(Aborted) = {}
  <2>1. is_stopped /\ Ended
    BY <1>4, <1>10 DEF Apart
  <2>2. /\ \A p \in ops : p.num < session_number
        /\ \A h \in Elems(strand) : h.op \notin {"post", "stop"} => h.num < session_number
        /\ starter.at = "starting" => starter.num < session_number
    BY <1>10, <2>1 DEF Inv, Quiet
  <2>3. \A p \in ops : p.num # session_number
    BY <1>2, <2>2
  <2>4. Elems(Aborted) = {}
    BY <1>5, <2>3
  <2>5. Starting' = 0 /\ Asleep' = 0
    BY <1>1, <1>2, <2>2 DEF Starting, Asleep
  <2> QED BY <1>2, <1>6, <2>1, <2>2, <2>3, <2>4, <2>5
<1>11. Quiet'
  <2> SUFFICES ASSUME Apart PROVE Quiet'
    BY <1>1 DEF Quiet, Apart
  <2>1. /\ \A p \in ops : p.num < session_number
        /\ starter.at = "starting" => starter.num < session_number
    BY <1>10 DEF Inv, Quiet
  <2> QED BY <1>1, <1>2, <1>6, <1>10, <2>1 DEF Quiet
<1>12. ASSUME Apart
       PROVE  /\ Live' = 0 /\ Reads' = 0
              /\ \A p \in ops' : p.num # session_number
              /\ \A h \in Elems(strand') : ~(h.num = session_number /\ h.op \in ChainOps)
  <2>1. \A p \in ops' : p.num # session_number
    BY <1>6, <1>10, <1>12
  <2>2. \A h \in Elems(strand') : ~(h.num = session_number /\ h.op \in ChainOps)
    BY <1>2, <1>10, <1>12 DEF ChainOps
  <2>3. HandlerCount(strand', session_number, ChainOps) = 0
    BY <1>6, <2>2, CountNone
  <2>4. OpCount(ops', session_number, ChainOps) = 0
    <3>1. IsFiniteSet(ops')
      BY <1>7 DEF Types
    <3>2. \A p \in ops' : ~(p.num = session_number /\ p.op \in ChainOps)
      BY <2>1
    <3> QED BY <3>1, <3>2, OpCountNone
  <2>5. Live' = 0
    BY <1>1, <1>10, <1>12, <2>3, <2>4 DEF Live
  <2>6. Reads' = 0
    <3>1. \A h \in Elems(strand') : ~(h.num = session_number /\ h.op = "read")
      BY <2>2 DEF ChainOps
    <3> QED BY <1>1, <1>7, <2>1, <3>1, SumsNone
  <2> QED BY <2>1, <2>2, <2>5, <2>6
<1>13. Single'
  BY <1>1, <1>10, <1>12 DEF Single, Apart, Ended
<1>14. Shaken'
  <2> SUFFICES ASSUME Calm PROVE Shaken'
    BY <1>1 DEF Shaken, Calm, Apart
  <2>1. Apart
    BY DEF Calm
  <2>2. Ordered(strand', WriteOrder(session_number))
    <3>1. CASE strand' = Rest
      BY <1>2, <3>1
    <3>2. CASE strand' = Rest \o Aborted
      <4>1. \A h \in Elems(Rest) : h \in Elems(strand')
        BY <1>2, <3>2, BeforeAborted
      <4>2. \A h \in Elems(Rest) : ~(h.op = "handshake" /\ h.num = session_number)
        BY <1>12, <2>1, <4>1 DEF ChainOps
      <4> QED BY <1>2, <3>2, <4>2, BeforeAborted
    <3> QED BY <1>1, <3>1, <3>2
  <2> QED BY <1>1, <1>12, <2>1, <2>2 DEF Shaken, ChainOps
<1>15. Pending'
  <2>1. \A h \in Elems(strand') : Written(h) => h \in Elems(strand)
    BY <1>2, <1>5, <1>6
  <2> QED BY <1>1, <1>6, <2>1, PendingKept DEF Inv, Calm, Apart
<1>16. Writing' /\ NoFault'
  BY <1>1, <1>2, <1>10 DEF Writing, NoFault, Calm, Apart
<1>17. First' /\ Sequel'
  BY <1>1, <1>2, <1>3 DEF Inv, First, Sequel
<1> QED BY <1>7, <1>8, <1>9, <1>11, <1>13, <1>14, <1>15, <1>16, <1>17 DEF Inv

-----------------------------------------------------------------------------
(* The theorems *)

LEMMA NextInv == Inv /\ [Next]_vars => Inv'
<1> SUFFICES ASSUME Inv, [Next]_vars PROVE Inv'
  OBVIOUS
<1>1. ASSUME NEW o \in ops, NEW r \in {"ok", "bad", "error"}, OpDone(o, r) PROVE Inv'
  BY <1>1, OpDoneStep
<1>2. CASE Start
  BY <1>2, StartStep
<1>3. CASE StartConnection
  BY <1>3, StartConnectionStep
<1>4. CASE Stop
  BY <1>4, StopStep
<1>5. CASE PostStop
  BY <1>5, PostStopStep
<1>6. CASE Post
  BY <1>6, PostStep
<1>7. CASE Strand
  BY <1>7, WakeStep, LeaveStep, OnConnectionStep, OnHandshakeStep, OnReadStep, WriteStep, OnWriteStep,
     OnDisconnectStep, RunStopStep DEF Strand
<1>8. CASE UNCHANGED vars
  <2>1. UNCHANGED <<is_stopped, session_number, ws, ops, strand, inside, send_queue, told, starter, stopper,
                    posted, failures, starts, wire, early, raced, overlapped, threw, fault>>
    BY <1>8 DEF vars, stream, messages, threads, counts, flags
  <2>2. Live' = Live /\ Reads' = Reads /\ WritesOf' = WritesOf
    BY <2>1 DEF Live, Reads, WritesOf, Asleep, Starting
  <2>3. Types' /\ Numbered' /\ Stopping' /\ Quiet'
    BY <2>1 DEF Inv, Types, TypeOK, Numbered, Stopping, Quiet, Apart, Ended
  <2>4. Single' /\ Shaken' /\ Writing'
    BY <2>1, <2>2 DEF Inv, Single, Shaken, Writing, Calm, Apart, Ended
  <2>5. Pending' /\ NoFault' /\ First' /\ Sequel'
    BY <2>1, SequelKept DEF Inv, Pending, NoFault, First, Calm, Apart
  <2> QED BY <2>3, <2>4, <2>5 DEF Inv
<1> QED BY <1>1, <1>2, <1>3, <1>4, <1>5, <1>6, <1>7, <1>8 DEF Next

LEMMA Invariance == Spec => []Inv
BY InitInv, NextInv, PTL DEF Spec

\* Every variable keeps its type, and no more is posted, failed or started than the
\* bounds of the model let.
THEOREM TypeCorrect == Spec => []TypeOK
<1>1. Inv => TypeOK
  BY DEF Inv, Types
<1> QED BY <1>1, Invariance, PTL

LEMMA InvOneChain == Inv => OneChain
<1> SUFFICES ASSUME Inv, Regular, ~is_stopped, inside.at # "leave"
             PROVE  Chains = 1 /\ (threw = {} => (told <=> Reading = 1))
  BY DEF OneChain
<1>1. Types /\ inside.at \in {"no", "sleep", "leave"} /\ starter.at \in {"no", "starting"}
  BY DEF Inv, Types, TypeOK
<1>2. Live = 1 /\ (threw = {} => (told <=> Reads = 1))
  BY DEF Inv, Single, Regular, Apart
<1>3. Busy(inside) = Asleep /\ Busy(starter) = Starting
  BY <1>1 DEF Busy, Asleep, Starting
<1>4. Chains = 1
  BY <1>2, <1>3, Sums DEF Live
<1>5. Reading = Reads
  <2>1. HandlerCount(strand, session_number, {"read"}) \in Nat /\ OpCount(ops, session_number, {"read"}) \in Nat
    BY <1>1, SumsNat
  <2> QED BY <2>1, Sums DEF Reads
<1> QED BY <1>2, <1>4, <1>5

\* However often connections are lost, handshakes fail and sessions end, a client
\* that was started has one chain of attempts: startConnection, onConnection,
\* onHandshake, read, disconnect and onDisconnect never start a second one beside it
\* and never let the last one end; and the manager is told what is true.
THEOREM OneChainOfAttempts == Spec => []OneChain
BY Invariance, InvOneChain, PTL

LEMMA InvOneWrite == Inv => OneWrite
<1> SUFFICES ASSUME Inv PROVE OneWrite
  OBVIOUS
<1>1. Types
  BY DEF Inv
<1>2. ASSUME Regular, ~early, ~is_stopped, Reading = 1, inside = Nowhere, send_queue # <<>>
      PROVE  Doing(session_number, {"write"}) + Handling(session_number, {"write"}) = 1
  <2>1. \A hs : HandlerCount(strand, session_number, hs) \in Nat /\ OpCount(ops, session_number, hs) \in Nat
    BY <1>1, SumsNat
  <2>2. Reads = 1
    BY <1>2, <2>1, Sums DEF Reads
  <2>3. Calm /\ inside.at # "leave"
    BY <1>2 DEF Regular, Calm, Apart, Nowhere, At
  <2>4. WritesOf = 1
    BY <1>2, <2>2, <2>3 DEF Inv, Writing
  <2> QED BY <2>1, <2>4, Sums DEF WritesOf
<1>3. fault => early \/ overlapped \/ raced
  BY DEF Inv, NoFault, Calm, Apart
<1> QED BY <1>2, <1>3 DEF OneWrite

\* What write, onWrite and onHandshake start is one write at a time, of a connected
\* client that has something to write; two at a time, or a pop of an empty queue,
\* come only of the three races that the model names.
THEOREM WritesOneAtATime == Spec => []OneWrite
BY Invariance, InvOneWrite, PTL

LEMMA InvMessagesInOrder == Inv => MessagesInOrder
<1> SUFFICES ASSUME Inv PROVE MessagesInOrder
  OBVIOUS
<1>1. TypeOK /\ strand \in Seq(HandlerType) /\ posted \in Nat
  BY DEF Inv, Types, TypeOK
<1> DEFINE taken == wire \o Unwritten
<1> SUFFICES ASSUME starts <= 1, ~is_stopped, ~early
             PROVE  /\ \A i \in 1 .. Len(taken) : taken[i] = i
                    /\ {strand[i].msg : i \in Unposted} = Len(taken) + 1 .. posted
                    /\ \A i, j \in Unposted : i < j => strand[i].msg < strand[j].msg
  BY <1>1 DEF MessagesInOrder
<1>2. /\ \A i \in 1 .. Len(wire) : wire[i] = i
      /\ \A i \in 1 .. Len(send_queue) : send_queue[i] = Gone + i
      /\ \A h \in Elems(strand) : h.op = "post" => h.msg > Gone + Len(send_queue)
      /\ \A m \in Gone + Len(send_queue) + 1 .. posted :
           \E h \in Elems(strand) : h.op = "post" /\ h.msg = m
  BY DEF Inv, Sequel
<1>3. DOMAIN strand = 1 .. Len(strand) /\ Len(strand) \in Nat
  BY <1>1, LenProperties
<1>4. WritingEnded <=> \E i \in DOMAIN strand : strand[i].op = "write" /\ strand[i].result = "ok"
  BY <1>3 DEF WritingEnded, Elems, Written
<1>5. /\ wire \in Seq(1 .. MaxMessages) /\ Len(wire) \in Nat
      /\ send_queue \in Seq(1 .. MaxMessages) /\ Len(send_queue) \in Nat
  BY <1>1, LenProperties DEF TypeOK
<1>6. /\ Unwritten \in Seq(1 .. MaxMessages) /\ Len(Unwritten) \in Nat
      /\ Len(wire) + Len(Unwritten) = Gone + Len(send_queue)
      /\ \A i \in 1 .. Len(Unwritten) : Unwritten[i] = Len(wire) + i
  <2>1. CASE WritingEnded
    <3>1. send_queue # <<>>
      BY <2>1 DEF Inv, First, Calm, Pending, WritingEnded
    <3>2. Unwritten = Tail(send_queue) /\ Gone = Len(wire) - 1
      BY <1>4, <2>1 DEF Unwritten, Gone
    <3>3. /\ Tail(send_queue) \in Seq(1 .. MaxMessages) /\ Len(Tail(send_queue)) = Len(send_queue) - 1
          /\ \A i \in 1 .. Len(send_queue) - 1 : Tail(send_queue)[i] = send_queue[i + 1]
          /\ Len(send_queue) >= 1
      BY <1>5, <3>1, HeadTailProperties, LenProperties, EmptySeq
    <3>4. \A i \in 1 .. Len(send_queue) - 1 : i + 1 \in 1 .. Len(send_queue)
      BY <1>5
    <3>5. \A i \in 1 .. Len(send_queue) - 1 : Tail(send_queue)[i] = Gone + (i + 1)
      BY <1>2, <3>3, <3>4
    <3>6. \A i \in 1 .. Len(send_queue) - 1 : Gone + (i + 1) = Len(wire) + i
      BY <1>5, <3>2
    <3> QED BY <1>5, <3>2, <3>3, <3>5, <3>6
  <2>2. CASE ~WritingEnded
    <3>1. Unwritten = send_queue /\ Gone = Len(wire) - 0
      BY <1>4, <2>2 DEF Unwritten, Gone
    <3> QED BY <1>2, <1>5, <3>1
  <2> QED BY <2>1, <2>2
<1>7. /\ Len(taken) = Len(wire) + Len(Unwritten)
      /\ \A i \in 1 .. Len(wire) + Len(Unwritten) :
           taken[i] = IF i <= Len(wire) THEN wire[i] ELSE Unwritten[i - Len(wire)]
  BY <1>5, <1>6, ConcatProperties
<1> HIDE DEF taken
<1>8. \A i \in 1 .. Len(taken) : taken[i] = i
  <2> TAKE i \in 1 .. Len(taken)
  <2>1. CASE i <= Len(wire)
    BY <1>2, <1>5, <1>6, <1>7, <2>1
  <2>2. CASE ~(i <= Len(wire))
    <3>1. i - Len(wire) \in 1 .. Len(Unwritten) /\ Len(wire) + (i - Len(wire)) = i
      BY <1>5, <1>6, <1>7, <2>2
    <3> QED BY <1>6, <1>7, <2>2, <3>1
  <2> QED BY <2>1, <2>2
<1>9. \A i \in Unposted : i \in 1 .. Len(strand) /\ strand[i] \in Elems(strand) /\ strand[i].op = "post"
  BY <1>3 DEF Unposted, Elems
<1>10. {strand[i].msg : i \in Unposted} = Len(taken) + 1 .. posted
  <2>1. ASSUME NEW i \in Unposted PROVE strand[i].msg \in Len(taken) + 1 .. posted
    <3>1. strand[i].msg > Gone + Len(send_queue) /\ strand[i].msg <= posted
      BY <1>2, <1>9 DEF Inv, Types
    <3>2. strand[i] \in HandlerType
      BY <1>1, <1>9, ElemsType
    <3>3. strand[i].msg \in Nat
      BY <3>2, BoundsAssumption DEF HandlerType
    <3> QED BY <1>1, <1>5, <1>6, <1>7, <3>1, <3>3
  <2>2. ASSUME NEW m \in Len(taken) + 1 .. posted PROVE \E i \in Unposted : strand[i].msg = m
    <3>1. PICK h \in Elems(strand) : h.op = "post" /\ h.msg = m
      BY <1>2, <1>6, <1>7
    <3>2. PICK i \in 1 .. Len(strand) : h = strand[i]
      BY DEF Elems
    <3> QED BY <1>3, <3>1, <3>2 DEF Unposted
  <2> QED BY <2>1, <2>2
<1>11. \A i, j \in Unposted : i < j => strand[i].msg < strand[j].msg
  <2> SUFFICES ASSUME NEW i \in Unposted, NEW j \in Unposted, i < j
               PROVE  strand[i].msg < strand[j].msg
    OBVIOUS
  <2>1. <<strand[i], strand[j]>> \in InOrder
    BY <1>9 DEF Inv, Stopping, Ordered
  <2> QED BY <1>9, <2>1 DEF InOrder
<1> QED BY <1>8, <1>10, <1>11

\* Over any number of lost connections, until Stop, what write has queued is on the
\* wire or in the queue once and in the order posted: what was being written when a
\* connection was lost is written again, and what was written is taken off the queue
\* even if its session has ended.
THEOREM WrittenOnceInOrder == Spec => []MessagesInOrder
BY Invariance, InvMessagesInOrder, PTL

=============================================================================
