--------------------------- MODULE KVChannelProofs ---------------------------
(***************************************************************************)
(* Proofs about KVChannel, for every size of the ring, of the header and   *)
(* of the messages, and every number of readers and writers: the ring is a *)
(* queue of whole messages, and no reader misses a wake-up.                *)
(***************************************************************************)
EXTENDS KVChannel, SequenceTheorems, TLAPS

-----------------------------------------------------------------------------
(* The inductive invariant. *)

\* off[i] is the distance from head to the first byte of the i-th message in
\* the ring: the messages lie one after the other and fill the used part.
Layout(off) ==
    /\ off[1] = 0 /\ off[Len(queue) + 1] = Used
    /\ \A i, j \in 1 .. Len(queue) + 1 : i <= j => off[i] <= off[j]
    /\ \A i \in 1 .. Len(queue) :
          /\ off[i + 1] = off[i] + Length(queue[i])
          /\ \A k \in 1 .. Length(queue[i]) :
                buffer[At(head, off[i] + k - 1)] = <<queue[i], k>>

RingInv == \E off \in [1 .. Len(queue) + 1 -> Nat] : Layout(off)

IInv == TypeOK /\ RingInv /\ NoMissedMessage

-----------------------------------------------------------------------------
(* Positions in the ring. *)

\* A position that has run past the end once comes back to the start.
LEMMA ModOnce ==
    ASSUME NEW B \in Nat \ {0}, NEW a \in Nat, a < 2 * B
    PROVE  a % B = IF a < B THEN a ELSE a - B
<1>1. CASE a < B
  BY <1>1
<1>2. CASE ~(a < B)
  BY <1>2
<1> QED
  BY <1>1, <1>2

\* The bytes in use, in terms of the positions.
LEMMA UsedBetween ==
    ASSUME NEW B \in Nat \ {0}, NEW h \in 0 .. B - 1, NEW t \in 0 .. B - 1
    PROVE  (t + B - h) % B = IF h <= t THEN t - h ELSE t + B - h
<1> DEFINE a == t + B - h
<1>1. a \in Nat /\ a < 2 * B /\ (a < B <=> t < h) /\ a - B = t - h
  OBVIOUS
<1> HIDE DEF a
<1>2. a % B = IF a < B THEN a ELSE a - B
  BY <1>1, ModOnce
<1>3. a % B = IF t < h THEN a ELSE t - h
  BY <1>1, <1>2
<1> QED
  BY <1>3 DEF a

\* Advancing the position by a length is looking that far ahead.
LEMMA AdvanceAt ==
    ASSUME NEW p \in 0 .. BufSize - 1, NEW n \in 0 .. BufSize - 1
    PROVE  Advance(p, n) = At(p, n) /\ At(p, n) \in 0 .. BufSize - 1
<1>1. BufSize \in Nat \ {0}
  BY ChannelAssumption
<1> DEFINE a == p + n
<1>2. a \in Nat /\ a < 2 * BufSize
  BY <1>1
<1> HIDE DEF a
<1>3. a % BufSize = IF a < BufSize THEN a ELSE a - BufSize
  BY <1>1, <1>2, ModOnce
<1>4. Advance(p, n) = At(p, n)
  <2>1. Advance(p, n) = a % BufSize
    BY DEF Advance, a
  <2>2. At(p, n) = IF a < BufSize THEN a ELSE a - BufSize
    BY <1>1 DEF At, a
  <2> QED
    BY <1>3, <2>1, <2>2
<1>5. At(p, n) \in 0 .. BufSize - 1
  BY <1>1 DEF At
<1> QED
  BY <1>4, <1>5

\* Different distances lead to different places.
LEMMA AtInjective ==
    ASSUME NEW p \in 0 .. BufSize - 1, NEW i \in 0 .. BufSize - 1, NEW j \in 0 .. BufSize - 1,
           At(p, i) = At(p, j)
    PROVE  i = j
BY ChannelAssumption DEF At

\* Looking ahead twice is looking ahead once.
LEMMA AtTwice ==
    ASSUME NEW p \in 0 .. BufSize - 1, NEW i \in Nat, NEW j \in Nat, i + j < BufSize
    PROVE  At(At(p, i), j) = At(p, i + j)
BY ChannelAssumption DEF At

\* The used bytes end at tail.
LEMMA UsedFacts ==
    ASSUME TypeOK
    PROVE  /\ Used \in 0 .. BufSize - 1 /\ BufSize \in Nat \ {0}
           /\ At(head, Used) = tail
           /\ Used = IF head <= tail THEN tail - head ELSE tail + BufSize - head
<1>1. BufSize \in Nat \ {0} /\ head \in 0 .. BufSize - 1 /\ tail \in 0 .. BufSize - 1
  BY ChannelAssumption DEF TypeOK
<1>2. Used = IF head <= tail THEN tail - head ELSE tail + BufSize - head
  BY <1>1, UsedBetween DEF Used
<1> QED
  BY <1>1, <1>2 DEF At

\* A message has a header at least and is smaller than the ring.
LEMMA MessageFacts ==
    ASSUME NEW m \in Messages
    PROVE  /\ m.size \in Nat /\ Length(m) \in Nat /\ Length(m) = HeaderSize + m.size
           /\ HeaderSize \in Nat /\ HeaderSize >= 1 /\ m.n \in 0 .. 1
<1>1. PICK p \in Writers : m \in [from: {p}, n: 0 .. 1, size: Sizes[p]]
  BY DEF Messages
<1>2. m.size \in Sizes[p] /\ m.n \in 0 .. 1
  BY <1>1
<1>3. m.size \in Nat
  BY <1>2, ChannelAssumption
<1> QED
  BY <1>2, <1>3, ChannelAssumption DEF Length

\* A copy of n bytes is a sequence of length n.
LEMMA CopyIsSeq ==
    ASSUME NEW S, NEW n \in Nat, NEW f \in [1 .. n -> S]
    PROVE  f \in Seq(S) /\ Len(f) = n
<1>1. f \in Seq(S)
  BY SeqDef
<1>2. DOMAIN f = 1 .. n /\ DOMAIN f = 1 .. Len(f) /\ Len(f) \in Nat
  BY <1>1, LenProperties
<1>3. ASSUME Len(f) < n PROVE FALSE
  BY <1>2, <1>3
<1>4. ASSUME n < Len(f) PROVE FALSE
  BY <1>2, <1>4
<1> QED
  BY <1>1, <1>2, <1>3, <1>4

-----------------------------------------------------------------------------
(* The messages in the ring. *)

\* A channel without a message is empty, and one with a message holds at least
\* the first one.
LEMMA RingUsed ==
    ASSUME TypeOK, RingInv
    PROVE  /\ queue = <<>> => Used = 0
           /\ queue # <<>> => /\ queue[1] \in Messages
                              /\ Length(queue[1]) <= Used
                              /\ HeaderSize <= Used /\ Used # 0
<1>1. PICK off \in [1 .. Len(queue) + 1 -> Nat] : Layout(off)
  BY DEF RingInv
<1>2. queue \in Seq(Messages)
  BY DEF TypeOK
<1>3. Len(queue) \in Nat /\ (queue = <<>> <=> Len(queue) = 0)
  BY <1>2
<1>4. ASSUME queue = <<>> PROVE Used = 0
  BY <1>1, <1>3, <1>4 DEF Layout
<1>5. ASSUME queue # <<>>
      PROVE  /\ queue[1] \in Messages /\ Length(queue[1]) <= Used
             /\ HeaderSize <= Used /\ Used # 0
  <2>1. 1 \in 1 .. Len(queue) /\ 1 + 1 \in 1 .. Len(queue) + 1 /\ 1 + 1 <= Len(queue) + 1
        /\ Len(queue) + 1 \in 1 .. Len(queue) + 1
    BY <1>3, <1>5
  <2>2. queue[1] \in Messages
    BY <1>2, <2>1
  <2>3. off[1 + 1] = off[1] + Length(queue[1]) /\ off[1] = 0 /\ off[1 + 1] <= off[Len(queue) + 1]
        /\ off[Len(queue) + 1] = Used
    BY <1>1, <2>1 DEF Layout
  <2>4. Length(queue[1]) <= Used
    BY <2>2, <2>3, MessageFacts
  <2>5. Used \in Nat
    BY UsedFacts
  <2> QED
    BY <2>2, <2>4, <2>5, MessageFacts
<1> QED
  BY <1>4, <1>5

\* A message lies in the used part of the ring.
LEMMA InsideUsed ==
    ASSUME TypeOK, NEW off \in [1 .. Len(queue) + 1 -> Nat], Layout(off),
           NEW i \in 1 .. Len(queue), NEW k \in 1 .. Length(queue[i])
    PROVE  off[i] + k - 1 \in 0 .. Used - 1
<1>1. queue \in Seq(Messages)
  BY DEF TypeOK
<1>2. Len(queue) \in Nat /\ queue[i] \in Messages
  BY <1>1
<1>3. i + 1 \in 1 .. Len(queue) + 1 /\ Len(queue) + 1 \in 1 .. Len(queue) + 1
      /\ i + 1 <= Len(queue) + 1 /\ i \in 1 .. Len(queue) + 1
  BY <1>2
<1>4. off[i + 1] = off[i] + Length(queue[i]) /\ off[i + 1] <= off[Len(queue) + 1]
      /\ off[Len(queue) + 1] = Used
  BY <1>3 DEF Layout
<1>5. off[i] \in Nat /\ Length(queue[i]) \in Nat /\ Used \in Nat
  BY <1>2, <1>3, MessageFacts, UsedFacts
<1> QED
  BY <1>4, <1>5

\* A step that leaves the ring and the history alone keeps the layout.
LEMMA RingSame ==
    ASSUME RingInv, UNCHANGED <<head, tail, buffer, queue>>
    PROVE  RingInv' /\ Used' = Used
<1>1. Used' = Used
  BY DEF Used
<1>2. PICK off \in [1 .. Len(queue) + 1 -> Nat] : Layout(off)
  BY DEF RingInv
<1>3. Layout(off)'
  BY <1>1, <1>2 DEF Layout
<1> QED
  BY <1>1, <1>2, <1>3 DEF RingInv

-----------------------------------------------------------------------------
(* The steps. *)

\* KVChannelPush: the message is written behind those in the ring.
LEMMA PushRing ==
    ASSUME TypeOK, RingInv, NEW p \in Writers, Push(p)
    PROVE  RingInv' /\ tail' \in 0 .. BufSize - 1 /\ buffer' \in [0 .. BufSize - 1 -> Byte]
<1> DEFINE m == msg[p]
           L == Length(m)
           q == Len(queue)
<1>1. PICK off \in [1 .. q + 1 -> Nat] : Layout(off)
  BY DEF RingInv
<1>2. queue \in Seq(Messages) /\ m \in Messages
  BY DEF TypeOK
<1>3. L \in Nat /\ L >= 1
  BY <1>2, MessageFacts
<1>4. /\ Used \in 0 .. BufSize - 1 /\ BufSize \in Nat \ {0} /\ At(head, Used) = tail
      /\ head \in 0 .. BufSize - 1 /\ tail \in 0 .. BufSize - 1
  BY UsedFacts DEF TypeOK
<1>5. Used + L < BufSize
  <2>1. Writers \intersect Readers = {} /\ L <= Space
    BY ChannelAssumption DEF Push, Ready
  <2> QED
    BY <1>3, <1>4, <2>1 DEF Space
<1>6. /\ buffer' = [i \in 0 .. BufSize - 1 |->
                       IF \E j \in 1 .. L : i = At(tail, j - 1)
                       THEN <<m, CHOOSE j \in 1 .. L : i = At(tail, j - 1)>>
                       ELSE buffer[i]]
      /\ tail' = Advance(tail, L) /\ queue' = Append(queue, m) /\ head' = head
  BY DEF Push
<1> HIDE DEF m, L
<1>7. L \in 0 .. BufSize - 1
  BY <1>3, <1>4, <1>5
<1>8. tail' = At(tail, L) /\ tail' \in 0 .. BufSize - 1
  BY <1>4, <1>6, <1>7, AdvanceAt
<1>9. tail' = At(head, Used + L)
  BY <1>3, <1>4, <1>5, <1>8, AtTwice
<1>10. Used' = Used + L
  <2>1. Used' = (tail' + BufSize - head) % BufSize
    BY <1>6 DEF Used
  <2>2. Used' = IF head <= tail' THEN tail' - head ELSE tail' + BufSize - head
    BY <1>4, <1>8, <2>1, UsedBetween
  <2> QED
    BY <1>3, <1>4, <1>5, <1>9, <2>2 DEF At
<1>11. \A k \in 1 .. L : At(tail, k - 1) = At(head, Used + k - 1) /\ Used + k - 1 \in 0 .. BufSize - 1
  <2> SUFFICES ASSUME NEW k \in 1 .. L
               PROVE  At(tail, k - 1) = At(head, Used + k - 1) /\ Used + k - 1 \in 0 .. BufSize - 1
    OBVIOUS
  <2>1. k - 1 \in Nat /\ Used \in Nat /\ Used + (k - 1) < BufSize
    BY <1>3, <1>4, <1>5
  <2>2. At(At(head, Used), k - 1) = At(head, Used + (k - 1))
    BY <1>4, <2>1, AtTwice
  <2>3. Used + (k - 1) = Used + k - 1
    BY <2>1
  <2> QED
    BY <1>4, <2>1, <2>2, <2>3
<1>12. ASSUME NEW d \in 0 .. Used - 1
       PROVE  buffer'[At(head, d)] = buffer[At(head, d)]
  <2>1. d \in 0 .. BufSize - 1
    BY <1>4
  <2>2. At(head, d) \in 0 .. BufSize - 1
    BY <1>4, <2>1, AdvanceAt
  <2>3. ASSUME NEW j \in 1 .. L, At(head, d) = At(tail, j - 1) PROVE FALSE
    <3>1. At(head, d) = At(head, Used + j - 1) /\ Used + j - 1 \in 0 .. BufSize - 1
      BY <1>11, <2>3
    <3>2. d = Used + j - 1
      BY <1>4, <2>1, <3>1, AtInjective
    <3> QED
      BY <1>3, <1>4, <3>2
  <2> QED
    BY <1>6, <2>2, <2>3
<1>13. ASSUME NEW k \in 1 .. L
       PROVE  buffer'[At(head, Used + k - 1)] = <<m, k>>
  <2> DEFINE z == At(tail, k - 1)
  <2>1. z = At(head, Used + k - 1) /\ k - 1 \in 0 .. BufSize - 1 /\ z \in 0 .. BufSize - 1
    <3>1. k - 1 \in 0 .. BufSize - 1
      BY <1>3, <1>4, <1>5
    <3> QED
      BY <1>4, <1>11, <3>1, AdvanceAt
  <2>2. ASSUME NEW j \in 1 .. L, z = At(tail, j - 1) PROVE j = k
    <3>1. j - 1 \in 0 .. BufSize - 1 /\ j \in Nat /\ k \in Nat
      BY <1>3, <1>4, <1>5
    <3>2. j - 1 = k - 1
      BY <1>4, <2>1, <2>2, <3>1, AtInjective
    <3> QED
      BY <3>1, <3>2
  <2>3. z = At(tail, k - 1)
    OBVIOUS
  <2> HIDE DEF z
  <2>4. (CHOOSE j \in 1 .. L : z = At(tail, j - 1)) = k
    BY <2>2, <2>3
  <2>5. buffer'[z] = <<m, k>>
    BY <1>6, <2>1, <2>3, <2>4
  <2> QED
    BY <2>1, <2>5
<1>14. buffer' \in [0 .. BufSize - 1 -> Byte]
  <2>0. ASSUME NEW j \in 1 .. L PROVE <<m, j>> \in Byte
    <3>1. j \in 0 .. BufSize
      BY <1>3, <1>4, <1>5
    <3> QED
      BY <1>2, <3>1 DEF Byte
  <2>1. ASSUME NEW i \in 0 .. BufSize - 1, \E j \in 1 .. L : i = At(tail, j - 1)
        PROVE  <<m, CHOOSE j \in 1 .. L : i = At(tail, j - 1)>> \in Byte
    <3>1. (CHOOSE j \in 1 .. L : i = At(tail, j - 1)) \in 1 .. L
      BY <2>1
    <3> QED
      BY <2>0, <3>1
  <2>2. buffer \in [0 .. BufSize - 1 -> Byte]
    BY DEF TypeOK
  <2> QED
    BY <1>6, <2>1, <2>2
<1>15. /\ q \in Nat /\ Len(queue') = q + 1 /\ queue'[q + 1] = m
       /\ \A i \in 1 .. q : queue'[i] = queue[i] /\ queue[i] \in Messages
  BY <1>2, <1>6
<1>16. PICK g : g = [i \in 1 .. q + 2 |-> IF i <= q + 1 THEN off[i] ELSE Used + L]
  OBVIOUS
<1>17. /\ g \in [1 .. Len(queue') + 1 -> Nat] /\ g[q + 2] = Used + L
       /\ \A i \in 1 .. q + 1 : g[i] = off[i]
  BY <1>3, <1>4, <1>15, <1>16
<1>18. Layout(g)'
  <2>1. off[q + 1] = Used /\ off[1] = 0
    BY <1>1 DEF Layout
  <2>2. g[1] = 0 /\ g[Len(queue') + 1] = Used'
    BY <1>10, <1>15, <1>17, <2>1
  <2>3. \A i, j \in 1 .. Len(queue') + 1 : i <= j => g[i] <= g[j]
    <3> SUFFICES ASSUME NEW i \in 1 .. q + 2, NEW j \in 1 .. q + 2, i <= j PROVE g[i] <= g[j]
      BY <1>15
    <3>1. CASE j <= q + 1
      BY <1>1, <1>15, <1>17, <3>1 DEF Layout
    <3>2. CASE i <= q + 1 /\ j = q + 2
      <4>1. i \in 1 .. q + 1 /\ q + 1 \in 1 .. q + 1 /\ i <= q + 1
        BY <1>15, <3>2
      <4>2. off[i] <= Used /\ off[i] \in Nat
        BY <1>1, <2>1, <4>1 DEF Layout
      <4> QED
        BY <1>3, <1>4, <1>17, <3>2, <4>1, <4>2
    <3>3. CASE i = q + 2 /\ j = q + 2
      BY <1>3, <1>4, <1>17, <3>3
    <3> QED
      BY <1>15, <3>1, <3>2, <3>3
  <2>4. ASSUME NEW i \in 1 .. Len(queue')
        PROVE  /\ g[i + 1] = g[i] + Length(queue'[i])
               /\ \A k \in 1 .. Length(queue'[i]) :
                     buffer'[At(head', g[i] + k - 1)] = <<queue'[i], k>>
    <3>1. CASE i \in 1 .. q
      <4>1. queue'[i] = queue[i] /\ g[i] = off[i] /\ g[i + 1] = off[i + 1]
        BY <1>15, <1>17, <3>1
      <4>2. ASSUME NEW k \in 1 .. Length(queue[i])
            PROVE  buffer'[At(head, off[i] + k - 1)] = <<queue[i], k>>
        <5>1. off[i] + k - 1 \in 0 .. Used - 1
          BY <1>1, <3>1, InsideUsed
        <5>2. buffer[At(head, off[i] + k - 1)] = <<queue[i], k>>
          BY <1>1, <3>1 DEF Layout
        <5> QED
          BY <1>12, <5>1, <5>2
      <4>3. off[i + 1] = off[i] + Length(queue[i])
        BY <1>1, <3>1 DEF Layout
      <4> QED
        BY <1>6, <4>1, <4>2, <4>3
    <3>2. CASE i = q + 1
      <4>1. queue'[i] = m /\ g[i] = Used /\ g[i + 1] = Used + L
        BY <1>15, <1>17, <2>1, <3>2
      <4>2. Length(m) = L
        BY DEF L
      <4> QED
        BY <1>6, <1>13, <4>1, <4>2
    <3> QED
      BY <1>15, <3>1, <3>2
  <2> QED
    BY <2>2, <2>3, <2>4 DEF Layout
<1> QED
  BY <1>8, <1>14, <1>17, <1>18 DEF RingInv

\* KVChannelPopMsg: what the two reads deliver is the oldest message, whole,
\* and the rest of the ring begins where it ended.
LEMMA PopRing ==
    ASSUME TypeOK, RingInv, NEW p \in Readers, PopMsg(p)
    PROVE  /\ RingInv' /\ head' \in 0 .. BufSize - 1
           /\ queue # <<>> /\ queue[1] \in Messages /\ Head(queue) = queue[1]
           /\ out' = [out EXCEPT ![p] = queue[1]]
<1> DEFINE q == Len(queue)
           m == queue[1]
           L == Length(m)
           header == Read(head, HeaderSize)
           entity == Read(At(head, HeaderSize), m.size)
<1>1. PICK off \in [1 .. q + 1 -> Nat] : Layout(off)
  BY DEF RingInv
<1>2. queue \in Seq(Messages)
  BY DEF TypeOK
<1>3. /\ Used \in 0 .. BufSize - 1 /\ BufSize \in Nat \ {0}
      /\ Used = IF head <= tail THEN tail - head ELSE tail + BufSize - head
      /\ head \in 0 .. BufSize - 1 /\ tail \in 0 .. BufSize - 1
  BY UsedFacts DEF TypeOK
<1>4. HeaderSize \in Nat /\ HeaderSize >= 1 /\ HeaderSize <= Used
  BY ChannelAssumption DEF PopMsg, Ready
<1>5. queue # <<>> /\ m \in Messages /\ L <= Used
  BY <1>3, <1>4, RingUsed
<1>6. q \in Nat /\ q >= 1 /\ Head(queue) = m
  BY <1>2, <1>5
<1>7. m.size \in Nat /\ L \in Nat /\ L = HeaderSize + m.size
  BY <1>5, MessageFacts
<1>8. L < BufSize /\ L \in 0 .. BufSize - 1 /\ HeaderSize \in 0 .. BufSize - 1
  BY <1>3, <1>4, <1>5, <1>7
<1> HIDE DEF m, L, header, entity
<1>9. ASSUME NEW k \in 1 .. L PROVE buffer[At(head, k - 1)] = <<m, k>>
  <2>1. 1 \in 1 .. q /\ off[1] = 0
    BY <1>1, <1>6 DEF Layout
  <2>2. buffer[At(head, off[1] + k - 1)] = <<m, k>>
    BY <1>1, <2>1 DEF Layout, m, L
  <2>3. off[1] + k - 1 = k - 1
    BY <1>7, <2>1
  <2> QED
    BY <2>2, <2>3
<1>10. /\ Len(header) = HeaderSize /\ header \in Seq(Byte)
       /\ \A k \in 1 .. HeaderSize : header[k] = <<m, k>>
  <2>1. \A k \in 1 .. HeaderSize : buffer[At(head, k - 1)] = <<m, k>> /\ <<m, k>> \in Byte
    <3> SUFFICES ASSUME NEW k \in 1 .. HeaderSize
                 PROVE  buffer[At(head, k - 1)] = <<m, k>> /\ <<m, k>> \in Byte
      OBVIOUS
    <3>1. k \in 1 .. L /\ k \in 0 .. BufSize
      BY <1>3, <1>4, <1>7, <1>8
    <3>2. <<m, k>> \in Byte
      BY <1>5, <3>1 DEF Byte
    <3> QED
      BY <1>9, <3>1, <3>2
  <2> QED
    <3>1. /\ header \in [1 .. HeaderSize -> Byte]
          /\ \A k \in 1 .. HeaderSize : header[k] = <<m, k>>
      BY <2>1 DEF Read, header
    <3> QED
      BY <1>4, <3>1, CopyIsSeq
<1>11. /\ Len(entity) = m.size /\ entity \in Seq(Byte)
       /\ \A k \in 1 .. m.size : entity[k] = <<m, HeaderSize + k>>
  <2>1. \A k \in 1 .. m.size : /\ buffer[At(At(head, HeaderSize), k - 1)] = <<m, HeaderSize + k>>
                               /\ <<m, HeaderSize + k>> \in Byte
    <3> SUFFICES ASSUME NEW k \in 1 .. m.size
                 PROVE  /\ buffer[At(At(head, HeaderSize), k - 1)] = <<m, HeaderSize + k>>
                        /\ <<m, HeaderSize + k>> \in Byte
      OBVIOUS
    <3>1. /\ HeaderSize + k \in 1 .. L /\ HeaderSize + k \in 0 .. BufSize /\ k - 1 \in Nat
          /\ HeaderSize + (k - 1) < BufSize /\ (HeaderSize + k) - 1 = HeaderSize + (k - 1)
      BY <1>3, <1>4, <1>7, <1>8
    <3>2. At(At(head, HeaderSize), k - 1) = At(head, HeaderSize + (k - 1))
      BY <1>3, <1>4, <3>1, AtTwice
    <3>3. buffer[At(head, (HeaderSize + k) - 1)] = <<m, HeaderSize + k>>
      BY <1>9, <3>1
    <3>4. <<m, HeaderSize + k>> \in Byte
      BY <1>5, <3>1 DEF Byte
    <3> QED
      BY <3>1, <3>2, <3>3, <3>4
  <2> QED
    <3>1. /\ entity \in [1 .. m.size -> Byte]
          /\ \A k \in 1 .. m.size : entity[k] = <<m, HeaderSize + k>>
      BY <2>1 DEF Read, entity
    <3> QED
      BY <1>7, <3>1, CopyIsSeq
<1>12. Header(header) = m
  <2>1. header[1] = <<m, 1>>
    BY <1>4, <1>10
  <2> QED
    BY <2>1 DEF Header
<1>13. header \o entity = Bytes(m)
  <2>1. Bytes(m) = [k \in 1 .. HeaderSize + m.size |-> <<m, k>>]
    BY <1>7 DEF Bytes, L
  <2>2. /\ Len(header \o entity) = HeaderSize + m.size /\ header \o entity \in Seq(Byte)
        /\ \A k \in 1 .. HeaderSize + m.size :
              (header \o entity)[k] = IF k <= HeaderSize THEN header[k] ELSE entity[k - HeaderSize]
    <3>1. header \in Seq(Byte) /\ entity \in Seq(Byte)
      BY <1>10, <1>11
    <3>2. /\ header \o entity \in Seq(Byte)
          /\ Len(header \o entity) = Len(header) + Len(entity)
          /\ \A k \in 1 .. Len(header) + Len(entity) :
                (header \o entity)[k] = IF k <= Len(header) THEN header[k] ELSE entity[k - Len(header)]
      BY <3>1, ConcatProperties
    <3>3. Len(header) = HeaderSize /\ Len(entity) = m.size
      BY <1>10, <1>11
    <3> QED
      BY <3>2, <3>3
  <2>3. ASSUME NEW k \in 1 .. HeaderSize + m.size PROVE (header \o entity)[k] = <<m, k>>
    <3>1. CASE k <= HeaderSize
      BY <1>4, <1>10, <2>2, <3>1
    <3>2. CASE ~(k <= HeaderSize)
      <4>1. k - HeaderSize \in 1 .. m.size /\ HeaderSize + (k - HeaderSize) = k
        BY <1>4, <1>7, <3>2
      <4>2. entity[k - HeaderSize] = <<m, HeaderSize + (k - HeaderSize)>>
        BY <1>11, <4>1
      <4> QED
        BY <2>2, <3>2, <4>1, <4>2
    <3> QED
      BY <3>1, <3>2
  <2>4. header \o entity = [k \in 1 .. HeaderSize + m.size |-> (header \o entity)[k]]
    BY <2>2, LenProperties
  <2> QED
    BY <2>1, <2>3, <2>4
<1>14. /\ out' = [out EXCEPT ![p] = m] /\ head' = Advance(head, L) /\ queue' = Tail(queue)
       /\ UNCHANGED <<tail, buffer>>
  <2>1. Header(Read(head, HeaderSize)) = m
    BY <1>12 DEF header
  <2>2. Read(head, HeaderSize) \o Read(At(head, HeaderSize), m.size) = Bytes(m)
    BY <1>13 DEF header, entity
  <2> QED
    BY <2>1, <2>2 DEF PopMsg, L
<1>15. head' = At(head, L) /\ head' \in 0 .. BufSize - 1
  BY <1>3, <1>8, <1>14, AdvanceAt
<1>16. Used' = Used - L
  <2>1. Used' = (tail + BufSize - head') % BufSize
    BY <1>14 DEF Used
  <2>2. Used' = IF head' <= tail THEN tail - head' ELSE tail + BufSize - head'
    BY <1>3, <1>15, <2>1, UsedBetween
  <2>3. head' = IF head + L < BufSize THEN head + L ELSE head + L - BufSize
    BY <1>15 DEF At
  <2>4. CASE head <= tail
    BY <1>3, <1>5, <1>7, <2>2, <2>3, <2>4
  <2>5. CASE ~(head <= tail)
    <3>1. L \in Nat /\ L <= tail + BufSize - head
      BY <1>3, <1>5, <1>7, <2>5
    <3>2. CASE head + L < BufSize
      BY <1>3, <2>2, <2>3, <2>5, <3>1, <3>2
    <3>3. CASE ~(head + L < BufSize)
      BY <1>3, <2>2, <2>3, <2>5, <3>1, <3>3
    <3> QED
      BY <3>2, <3>3
  <2> QED
    BY <2>4, <2>5
<1>17. /\ Len(queue') = q - 1 /\ Len(queue') \in Nat
       /\ \A i \in 1 .. q - 1 : queue'[i] = queue[i + 1] /\ i + 1 \in 1 .. q
  BY <1>2, <1>5, <1>6, <1>14
<1>18. off[1] = 0 /\ off[q + 1] = Used /\ off[2] = L
  <2>1. 1 \in 1 .. q /\ 1 + 1 = 2
    BY <1>6
  <2>2. off[1] = 0 /\ off[q + 1] = Used /\ off[1 + 1] = off[1] + Length(queue[1])
    BY <1>1, <2>1 DEF Layout
  <2>3. Length(queue[1]) = L
    BY DEF L, m
  <2> QED
    BY <1>7, <2>1, <2>2, <2>3
<1>19. PICK g : g = [i \in 1 .. q |-> off[i + 1] - L]
  OBVIOUS
<1>20. \A i \in 1 .. q : g[i] = off[i + 1] - L /\ off[i + 1] \in Nat /\ off[i + 1] >= L
  <2> SUFFICES ASSUME NEW i \in 1 .. q
               PROVE  g[i] = off[i + 1] - L /\ off[i + 1] \in Nat /\ off[i + 1] >= L
    OBVIOUS
  <2>1. i + 1 \in 1 .. q + 1 /\ 2 \in 1 .. q + 1 /\ 2 <= i + 1
    BY <1>6
  <2>2. off[2] <= off[i + 1]
    BY <1>1, <2>1 DEF Layout
  <2> QED
    BY <1>7, <1>18, <1>19, <2>1, <2>2
<1>21. g \in [1 .. Len(queue') + 1 -> Nat]
  <2>1. Len(queue') + 1 = q
    BY <1>6, <1>17
  <2> QED
    BY <1>7, <1>19, <1>20, <2>1
<1>22. Layout(g)'
  <2>1. g[1] = 0
    BY <1>6, <1>7, <1>18, <1>20
  <2>2. g[Len(queue') + 1] = Used'
    <3>1. Len(queue') + 1 = q /\ q \in 1 .. q
      BY <1>6, <1>17
    <3> QED
      BY <1>16, <1>18, <1>20, <3>1
  <2>3. \A i, j \in 1 .. Len(queue') + 1 : i <= j => g[i] <= g[j]
    <3> SUFFICES ASSUME NEW i \in 1 .. q, NEW j \in 1 .. q, i <= j PROVE g[i] <= g[j]
      BY <1>6, <1>17
    <3>1. i + 1 \in 1 .. q + 1 /\ j + 1 \in 1 .. q + 1 /\ i + 1 <= j + 1
      BY <1>6
    <3>2. off[i + 1] <= off[j + 1]
      BY <1>1, <3>1 DEF Layout
    <3> QED
      BY <1>7, <1>20, <3>2
  <2>4. ASSUME NEW i \in 1 .. Len(queue')
        PROVE  /\ g[i + 1] = g[i] + Length(queue'[i])
               /\ \A k \in 1 .. Length(queue'[i]) :
                     buffer'[At(head', g[i] + k - 1)] = <<queue'[i], k>>
    <3> DEFINE j == i + 1
    <3>1. j \in 1 .. q /\ i \in 1 .. q /\ i + 1 \in 1 .. q /\ queue'[i] = queue[j]
      BY <1>6, <1>17
    <3> HIDE DEF j
    <3>2. /\ off[j + 1] = off[j] + Length(queue[j])
          /\ \A k \in 1 .. Length(queue[j]) : buffer[At(head, off[j] + k - 1)] = <<queue[j], k>>
      BY <1>1, <3>1 DEF Layout
    <3>3. Length(queue[j]) \in Nat
      <4>1. queue[j] \in Messages
        BY <1>2, <3>1
      <4> QED
        BY <4>1, MessageFacts
    <3>4. g[i] = off[j] - L /\ g[j] = off[j + 1] - L /\ off[j] \in Nat /\ off[j] >= L
      BY <1>20, <3>1 DEF j
    <3>5. g[j] = g[i] + Length(queue'[i])
      BY <1>7, <3>1, <3>2, <3>3, <3>4
    <3>6. ASSUME NEW k \in 1 .. Length(queue[j])
          PROVE  buffer[At(head', g[i] + k - 1)] = <<queue[j], k>>
      <4>1. off[j] + k - 1 \in 0 .. Used - 1
        BY <1>1, <3>1, InsideUsed
      <4>2. /\ g[i] + k - 1 \in Nat /\ L + (g[i] + k - 1) = off[j] + k - 1
            /\ L + (g[i] + k - 1) < BufSize
        <5>1. g[i] \in Nat /\ L + g[i] = off[j] /\ k \in Nat /\ k >= 1 /\ L \in Nat
          BY <1>7, <3>3, <3>4
        <5>2. off[j] + k - 1 < BufSize
          BY <1>3, <3>3, <3>4, <4>1
        <5> QED
          BY <1>3, <3>4, <5>1, <5>2
      <4>3. At(At(head, L), g[i] + k - 1) = At(head, L + (g[i] + k - 1))
        BY <1>3, <1>7, <4>2, AtTwice
      <4> QED
        BY <1>15, <3>2, <4>2, <4>3
    <3> QED
      BY <1>14, <3>1, <3>5, <3>6 DEF j
  <2> QED
    BY <2>1, <2>2, <2>3, <2>4 DEF Layout
<1> QED
  BY <1>5, <1>6, <1>14, <1>15, <1>21, <1>22 DEF RingInv, m

\* A step of a process outside the ring, or of TerminateChannel.
LEMMA QuietInv ==
    ASSUME IInv,
           \/ \E p \in Procs : \/ Call(p) \/ Test(p) \/ GiveUp(p) \/ Sleep(p) \/ Wake(p)
                               \/ TimeOut(p) \/ Cancel(p)
           \/ StopFlag \/ StopBroadcast \/ UNCHANGED vars
    PROVE  IInv'
<1>0. TypeOK /\ RingInv /\ NoMissedMessage
  BY DEF IInv
<1>1. UNCHANGED <<head, tail, buffer, queue, out>>
  BY DEF Call, CallPush, CallPop, Test, GiveUp, Sleep, Wake, TimeOut, Cancel, StopFlag,
         StopBroadcast, vars
<1>2. RingInv' /\ Used' = Used
  BY <1>0, <1>1, RingSame
<1>3. NoMissedMessage'
  <2>1. CASE waiters' \subseteq waiters
    BY <1>0, <1>2, <2>1 DEF NoMissedMessage
  <2>2. ASSUME NEW p \in Procs, Sleep(p) PROVE NoMissedMessage'
    <3>1. ASSUME p \in Readers PROVE Used = 0
      <4>1. ~(HeaderSize <= Used)
        BY <2>2, <3>1, ChannelAssumption DEF Sleep, Ready
      <4> QED
        BY <1>0, <4>1, RingUsed
    <3>2. waiters' = waiters \union {p}
      BY <2>2 DEF Sleep
    <3> QED
      BY <1>0, <1>2, <3>1, <3>2 DEF NoMissedMessage
  <2>3. ASSUME NEW p \in Procs, Call(p) \/ Test(p) \/ GiveUp(p) \/ Wake(p) \/ TimeOut(p) \/ Cancel(p)
        PROVE  waiters' \subseteq waiters
    BY <2>3 DEF Call, CallPush, CallPop, Test, GiveUp, Wake, TimeOut, Cancel
  <2>4. ASSUME StopFlag \/ StopBroadcast \/ UNCHANGED vars PROVE waiters' \subseteq waiters
    BY <2>4 DEF StopFlag, StopBroadcast, vars
  <2> QED
    BY <2>1, <2>2, <2>3, <2>4
<1>4. TypeOK'
  <2>1. ASSUME NEW p \in Writers, NEW s \in Sizes[p], NEW w \in Waits[p], CallPush(p, s, w)
        PROVE  TypeOK'
    <3>1. msg[p] \in Messages
      BY <1>0 DEF TypeOK
    <3>2. 1 - msg[p].n \in 0 .. 1
      BY <3>1, MessageFacts
    <3>3. [from |-> p, n |-> 1 - msg[p].n, size |-> s] \in Messages
      BY <3>2 DEF Messages
    <3>4. w \in {"no", "timed", "forever"} /\ p \in Procs
      BY ChannelAssumption DEF Procs
    <3> QED
      BY <1>0, <2>1, <3>3, <3>4 DEF CallPush, TypeOK
  <2>2. ASSUME NEW p \in Readers, NEW w \in Waits[p], CallPop(p, w) PROVE TypeOK'
    <3>1. w \in {"no", "timed", "forever"} /\ p \in Procs
      BY ChannelAssumption DEF Procs
    <3> QED
      BY <1>0, <2>2, <3>1 DEF CallPop, TypeOK
  <2>3. ASSUME NEW p \in Procs, Test(p) PROVE TypeOK'
    BY <1>0, <2>3 DEF Test, Return, TypeOK
  <2>4. ASSUME NEW p \in Procs, GiveUp(p) PROVE TypeOK'
    BY <1>0, <2>4 DEF GiveUp, Return, TypeOK
  <2>5. ASSUME NEW p \in Procs, Sleep(p) PROVE TypeOK'
    BY <1>0, <2>5 DEF Sleep, TypeOK
  <2>6. ASSUME NEW p \in Procs, Wake(p) PROVE TypeOK'
    BY <1>0, <2>6 DEF Wake, TypeOK
  <2>7. ASSUME NEW p \in Procs, TimeOut(p) PROVE TypeOK'
    BY <1>0, <2>7 DEF TimeOut, TypeOK
  <2>8. ASSUME NEW p \in Procs, Cancel(p) PROVE TypeOK'
    BY <1>0, <2>8 DEF Cancel, Return, TypeOK
  <2>9. CASE StopFlag
    BY <1>0, <2>9 DEF StopFlag, TypeOK
  <2>10. CASE StopBroadcast
    BY <1>0, <2>10 DEF StopBroadcast, TypeOK
  <2>11. CASE UNCHANGED vars
    BY <1>0, <2>11 DEF vars, TypeOK
  <2> QED
    BY <2>1, <2>2, <2>3, <2>4, <2>5, <2>6, <2>7, <2>8, <2>9, <2>10, <2>11 DEF Call
<1> QED
  BY <1>2, <1>3, <1>4 DEF IInv

\* A push empties the list of waiters, so none of them misses the message.
LEMMA PushInv ==
    ASSUME IInv, NEW p \in Writers, Push(p)
    PROVE  IInv'
<1>0. TypeOK /\ RingInv
  BY DEF IInv
<1>1. RingInv' /\ tail' \in 0 .. BufSize - 1 /\ buffer' \in [0 .. BufSize - 1 -> Byte]
  BY <1>0, PushRing
<1>2. /\ waiters' = {} /\ pc' = [pc EXCEPT ![p] = "idle"] /\ wait' = [wait EXCEPT ![p] = "no"]
      /\ queue' = Append(queue, msg[p]) /\ UNCHANGED <<head, running, msg, out, stop>>
  BY DEF Push, Return
<1>3. queue' \in Seq(Messages)
  <2>1. queue \in Seq(Messages) /\ msg[p] \in Messages
    BY <1>0 DEF TypeOK
  <2> QED
    BY <1>2, <2>1
<1>4. TypeOK'
  BY <1>0, <1>1, <1>2, <1>3 DEF TypeOK
<1>5. NoMissedMessage'
  BY <1>2 DEF NoMissedMessage
<1> QED
  BY <1>1, <1>4, <1>5 DEF IInv

\* A pop finds a message, so no reader is on the list.
LEMMA PopInv ==
    ASSUME IInv, NEW p \in Readers, PopMsg(p)
    PROVE  IInv'
<1>0. TypeOK /\ RingInv /\ NoMissedMessage
  BY DEF IInv
<1>1. /\ RingInv' /\ head' \in 0 .. BufSize - 1 /\ queue # <<>> /\ queue[1] \in Messages
      /\ out' = [out EXCEPT ![p] = queue[1]]
  BY <1>0, PopRing
<1>2. /\ pc' = [pc EXCEPT ![p] = "idle"] /\ wait' = [wait EXCEPT ![p] = "no"]
      /\ queue' = Tail(queue) /\ UNCHANGED <<tail, buffer, running, waiters, msg, stop>>
  BY DEF PopMsg, Return
<1>3. queue' \in Seq(Messages)
  <2>1. queue \in Seq(Messages)
    BY <1>0 DEF TypeOK
  <2> QED
    BY <1>1, <1>2, <2>1
<1>4. TypeOK'
  BY <1>0, <1>1, <1>2, <1>3 DEF TypeOK
<1>5. NoMissedMessage'
  <2>1. Used # 0
    BY <1>0, <1>1, RingUsed
  <2> QED
    BY <1>0, <1>2, <2>1 DEF NoMissedMessage
<1> QED
  BY <1>1, <1>4, <1>5 DEF IInv

-----------------------------------------------------------------------------
(* The theorems. *)

\* The ring starts empty.
LEMMA InitInv == Init => IInv
<1> SUFFICES ASSUME Init PROVE IInv
  OBVIOUS
<1>1. BufSize \in Nat \ {0} /\ 0 \in 0 .. BufSize - 1
  BY ChannelAssumption
<1>2. ASSUME NEW p \in Writers
      PROVE  [from |-> p, n |-> 0, size |-> CHOOSE s \in Sizes[p] : TRUE] \in Messages
  <2>1. Sizes[p] # {}
    BY ChannelAssumption
  <2>2. (CHOOSE s \in Sizes[p] : TRUE) \in Sizes[p]
    BY <2>1
  <2> QED
    BY <2>2 DEF Messages
<1>3. NoByte \in Byte
  BY <1>1 DEF NoByte, Byte
<1>4. TypeOK
  BY <1>1, <1>2, <1>3 DEF Init, TypeOK
<1>5. Used = 0
  <2>1. head = 0 /\ tail = 0
    BY DEF Init
  <2> QED
    BY <1>1, <1>4, <2>1, UsedFacts
<1>6. NoMissedMessage
  BY <1>5 DEF NoMissedMessage
<1>7. RingInv
  <2>1. Len(queue) = 0
    BY DEF Init
  <2>2. PICK off : off = [i \in 1 .. 1 |-> 0]
    OBVIOUS
  <2>3. off \in [1 .. Len(queue) + 1 -> Nat] /\ off[1] = 0
    BY <2>1, <2>2
  <2>4. Layout(off)
    BY <1>5, <2>1, <2>3 DEF Layout
  <2> QED
    BY <2>3, <2>4 DEF RingInv
<1> QED
  BY <1>4, <1>6, <1>7 DEF IInv

\* Every step keeps the invariant.
LEMMA NextInv == IInv /\ [Next]_vars => IInv'
<1> SUFFICES ASSUME IInv, [Next]_vars PROVE IInv'
  OBVIOUS
<1>1. ASSUME NEW p \in Writers, Push(p) PROVE IInv'
  BY <1>1, PushInv
<1>2. ASSUME NEW p \in Readers, PopMsg(p) PROVE IInv'
  BY <1>2, PopInv
<1>3. CASE \/ \E p \in Procs : \/ Call(p) \/ Test(p) \/ GiveUp(p) \/ Sleep(p) \/ Wake(p)
                               \/ TimeOut(p) \/ Cancel(p)
           \/ StopFlag \/ StopBroadcast \/ UNCHANGED vars
  BY <1>3, QuietInv
<1> QED
  BY <1>1, <1>2, <1>3 DEF Next, Step

\* The bytes in the ring are at all times those of the messages pushed and not
\* yet popped, one after the other from head to tail, wherever they wrap.
THEOREM ChannelInvariant == Spec => []IInv
<1> QED
  BY InitInv, NextInv, PTL DEF Spec

\* Positions stay inside the ring and every byte read or written is one of a
\* message.
THEOREM ChannelTyped == Spec => []TypeOK
<1>1. IInv => TypeOK
  BY DEF IInv
<1> QED
  BY <1>1, ChannelInvariant, PTL

\* No reader of KVChannelPopMsg stays on the list of the condition variable
\* while there is a message.
THEOREM NoWakeupLost == Spec => []NoMissedMessage
<1>1. IInv => NoMissedMessage
  BY DEF IInv
<1> QED
  BY <1>1, ChannelInvariant, PTL

\* KVChannelPush and KVChannelPopMsg implement a queue of whole messages: what a
\* reader gets is what one writer pushed, once, in the order of the pushes.
THEOREM ChannelRefinesFifo == Spec => IsFifo
<1>1. Init => Fifo!FifoInit
  BY DEF Init, Fifo!FifoInit
<1>2. IInv /\ [Next]_vars => [Fifo!FifoNext]_<<queue, out>>
  <2> SUFFICES ASSUME IInv, [Next]_vars PROVE [Fifo!FifoNext]_<<queue, out>>
    OBVIOUS
  <2>1. ASSUME NEW p \in Writers, Push(p) PROVE Fifo!FifoNext
    <3>1. msg[p] \in Messages
      BY DEF IInv, TypeOK
    <3>2. Fifo!Put(msg[p])
      BY <2>1 DEF Push, Fifo!Put
    <3> QED
      BY <3>1, <3>2 DEF Fifo!FifoNext
  <2>2. ASSUME NEW p \in Readers, PopMsg(p) PROVE Fifo!FifoNext
    <3>1. queue # <<>> /\ Head(queue) = queue[1] /\ out' = [out EXCEPT ![p] = queue[1]]
      BY <2>2, PopRing DEF IInv
    <3>2. queue' = Tail(queue)
      BY <2>2 DEF PopMsg
    <3> QED
      BY <3>1, <3>2 DEF Fifo!FifoNext, Fifo!Take
  <2>3. CASE \/ \E p \in Procs : \/ Call(p) \/ Test(p) \/ GiveUp(p) \/ Sleep(p) \/ Wake(p)
                                 \/ TimeOut(p) \/ Cancel(p)
             \/ StopFlag \/ StopBroadcast \/ UNCHANGED vars
    BY <2>3 DEF Call, CallPush, CallPop, Test, GiveUp, Sleep, Wake, TimeOut, Cancel, StopFlag,
                StopBroadcast, vars
  <2> QED
    BY <2>1, <2>2, <2>3 DEF Next, Step
<1> QED
  BY <1>1, <1>2, ChannelInvariant, PTL DEF Spec, IsFifo, Fifo!FifoSpec
=============================================================================
