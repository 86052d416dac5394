-------------------------- MODULE TaskStreamProofs --------------------------
(***************************************************************************)
(* The proof that the task sessions implement BatchStream, when tasks run  *)
(* one at a time and none is started after one has failed: for any number  *)
(* of sessions and batches and any sizes of the queue and the cache.       *)
(***************************************************************************)
EXTENDS TaskHealthProofs

-----------------------------------------------------------------------------
(* The batches of a task that runs. *)

HasTask(s) == main[s] \in {"task", "feed"} /\ s \in bound

\* They are numbered without a gap, from the last one used to the last one queued.
Ordered(s) ==
    /\ \A i \in 1 .. Len(InTransit(s)) : InTransit(s)[i] = builder[s].last + i
    /\ builder[s].last + Len(InTransit(s)) = fed[s]
    /\ builder[s].last + Len(cache[s]) = added[s]

\* They are the session's own, and nothing else is on its way to the engine.
Flowing(s) ==
    /\ \A i \in 1 .. Len(up[s]) : up[s][i].ev = "batch_data" /\ up[s][i].sid = s
    /\ \A i \in 1 .. Len(queue[s]) : queue[s][i].sid = s
    /\ main[s] = "task" => InTransit(s) = <<>> /\ fed[s] = 0

\* After its task has failed, a session keeps its id, its connection and the order
\* of its batches until the backend hangs up.
NoSetupIn(q) == \A i \in 1 .. Len(q) : q[i].ev # "ack_setup"
Failing(t) ==
    \/ main[t] \in {"join", "done"}
    \/ /\ main[t] \in {"task", "feed"} /\ sid[t] = t /\ t \in bound /\ Served(t)
       /\ builder[t].stage = 0 \/ TaskEnded(t)
       /\ Flowing(t) /\ NoSetupIn(Queued(t)) /\ NoSetupIn(down[t])

\* The sessions that do not run take no step of their own.
Stopped(u) ==
    /\ main[u] \in {"idle", "done"} /\ thread[u] \in {"off", "ended"} /\ up[u] = <<>>
    /\ sender[u] = NoQueue /\ builder[u].stage = 0

FailInv ==
    \E t \in Sessions :
        failed = {t} /\ Failing(t) /\ \A u \in Sessions : u # t => Stopped(u)

OrderInv == \A s \in Sessions : HasTask(s) => Ordered(s)

StreamInv == IF Healthy THEN OrderInv ELSE FailInv

-----------------------------------------------------------------------------
(* Sequences that are moved from one queue to the next. *)

\* Three sequences, one after the other.
Chained(c, u, q) == c \o u \o q

IsChain(v, c, u, q) ==
    /\ v \in Seq(Nat) /\ Len(v) = Len(c) + Len(u) + Len(q)
    /\ \A i \in 1 .. Len(c) : v[i] = c[i]
    /\ \A i \in 1 .. Len(u) : v[Len(c) + i] = u[i]
    /\ \A i \in 1 .. Len(q) : v[Len(c) + Len(u) + i] = q[i]

LEMMA LengthsAre ==
    ASSUME NEW c \in Seq(Nat)
    PROVE  Len(c) \in Nat
BY LenProperties

LEMMA ChainedIs ==
    ASSUME NEW c \in Seq(Nat), NEW u \in Seq(Nat), NEW q \in Seq(Nat)
    PROVE  IsChain(Chained(c, u, q), c, u, q)
<1> DEFINE k == c \o u
           v == k \o q
<1>1. /\ k \in Seq(Nat) /\ Len(k) = Len(c) + Len(u)
      /\ \A i \in 1 .. Len(c) + Len(u) : k[i] = IF i <= Len(c) THEN c[i] ELSE u[i - Len(c)]
  BY ConcatProperties
<1> HIDE DEF k
<1>2. k \in Seq(Nat)
  BY <1>1
<1>3. /\ v \in Seq(Nat) /\ Len(v) = Len(k) + Len(q)
      /\ \A i \in 1 .. Len(k) + Len(q) : v[i] = IF i <= Len(k) THEN k[i] ELSE q[i - Len(k)]
  BY <1>2, ConcatProperties
<1>4. Len(c) \in Nat /\ Len(u) \in Nat /\ Len(q) \in Nat
  BY LenProperties
<1> HIDE DEF v
<1> DEFINE lc == Len(c)
           lu == Len(u)
           lq == Len(q)
<1>5. lc \in Nat /\ lu \in Nat /\ lq \in Nat /\ Len(k) = lc + lu /\ Len(v) = lc + lu + lq
  BY <1>1, <1>3, <1>4
<1>6. \A i \in 1 .. lc + lu : k[i] = IF i <= lc THEN c[i] ELSE u[i - lc]
  BY <1>1
<1>7. \A i \in 1 .. lc + lu + lq : v[i] = IF i <= lc + lu THEN k[i] ELSE q[i - (lc + lu)]
  BY <1>3, <1>5
<1> HIDE DEF lc, lu, lq
<1>8. ASSUME NEW i \in 1 .. lc PROVE v[i] = c[i]
  BY <1>5, <1>6, <1>7
<1>9. ASSUME NEW i \in 1 .. lu PROVE v[lc + i] = u[i]
  <2>1. lc + i \in 1 .. lc + lu /\ ~(lc + i <= lc) /\ (lc + i) - lc = i
    BY <1>5
  <2> QED  BY <1>5, <1>6, <1>7, <2>1
<1>10. ASSUME NEW i \in 1 .. lq PROVE v[lc + lu + i] = q[i]
  <2>1. /\ lc + lu + i \in 1 .. lc + lu + lq /\ ~(lc + lu + i <= lc + lu)
        /\ (lc + lu + i) - (lc + lu) = i
    BY <1>5
  <2> QED  BY <1>7, <2>1
<1> QED  BY <1>3, <1>5, <1>8, <1>9, <1>10 DEF v, k, lc, lu, lq, Chained, IsChain

LEMMA ChainIsUnique ==
    ASSUME NEW c \in Seq(Nat), NEW u \in Seq(Nat), NEW q \in Seq(Nat),
           NEW v, IsChain(v, c, u, q), NEW w, IsChain(w, c, u, q)
    PROVE  v = w
<1> DEFINE a == Len(c)
           b == Len(u)
           n == Len(q)
<1>1. a \in Nat /\ b \in Nat /\ n \in Nat
  BY LengthsAre
<1>2. /\ v \in Seq(Nat) /\ w \in Seq(Nat) /\ Len(v) = a + b + n /\ Len(w) = a + b + n
      /\ \A i \in 1 .. a : v[i] = c[i] /\ w[i] = c[i]
      /\ \A i \in 1 .. b : v[a + i] = u[i] /\ w[a + i] = u[i]
      /\ \A i \in 1 .. n : v[a + b + i] = q[i] /\ w[a + b + i] = q[i]
  BY DEF IsChain
<1> HIDE DEF a, b, n
<1>3. ASSUME NEW i \in 1 .. Len(v) PROVE v[i] = w[i]
  <2>1. CASE i <= a
    BY <1>1, <1>2, <2>1
  <2>2. CASE i > a /\ i <= a + b
    <3>1. i - a \in 1 .. b /\ a + (i - a) = i
      BY <1>1, <1>2, <2>2
    <3> QED  BY <1>2, <3>1
  <2>3. CASE i > a + b
    <3>1. i - (a + b) \in 1 .. n /\ a + b + (i - (a + b)) = i
      BY <1>1, <1>2, <2>3
    <3> QED  BY <1>2, <3>1
  <2> QED  BY <1>1, <1>2, <2>1, <2>2, <2>3
<1> QED  BY <1>2, <1>3, SeqEqual

\* What is the chain of three sequences is Chained of them.
LEMMA ChainIs ==
    ASSUME NEW c \in Seq(Nat), NEW u \in Seq(Nat), NEW q \in Seq(Nat),
           NEW v, IsChain(v, c, u, q)
    PROVE  v = Chained(c, u, q)
<1>1. IsChain(Chained(c, u, q), c, u, q)
  BY ChainedIs
<1> QED  BY <1>1, ChainIsUnique

\* A batch enters at the end.
LEMMA EnterLast ==
    ASSUME NEW c \in Seq(Nat), NEW u \in Seq(Nat), NEW q \in Seq(Nat), NEW e \in Nat
    PROVE  Chained(c, u, Append(q, e)) = Append(Chained(c, u, q), e)
<1> DEFINE p == Append(q, e)
           x == Chained(c, u, q)
           v == Append(x, e)
           a == Len(c)
           b == Len(u)
           n == Len(q)
<1>1. p \in Seq(Nat) /\ Len(p) = n + 1 /\ p[n + 1] = e /\ \A i \in 1 .. n : p[i] = q[i]
  BY AppendProperties
<1>2. IsChain(x, c, u, q)
  BY ChainedIs
<1>3. a \in Nat /\ b \in Nat /\ n \in Nat
  BY LengthsAre
<1> HIDE DEF p, x
<1>4. /\ x \in Seq(Nat) /\ Len(x) = a + b + n
      /\ \A i \in 1 .. a : x[i] = c[i]
      /\ \A i \in 1 .. b : x[a + i] = u[i]
      /\ \A i \in 1 .. n : x[a + b + i] = q[i]
  BY <1>2 DEF IsChain
<1>5. /\ v \in Seq(Nat) /\ Len(v) = Len(x) + 1 /\ v[Len(x) + 1] = e
      /\ \A i \in 1 .. Len(x) : v[i] = x[i]
  <2>1. x \in Seq(Nat)
    BY <1>4
  <2> QED  BY <2>1, AppendProperties
<1> HIDE DEF v, a, b, n
<1>6. Len(v) = a + b + Len(p)
  BY <1>1, <1>3, <1>4, <1>5
<1>7. ASSUME NEW i \in 1 .. a PROVE v[i] = c[i]
  BY <1>3, <1>4, <1>5
<1>8. ASSUME NEW i \in 1 .. b PROVE v[a + i] = u[i]
  <2>1. a + i \in 1 .. Len(x)
    BY <1>3, <1>4
  <2> QED  BY <1>4, <1>5, <2>1
<1>9. ASSUME NEW i \in 1 .. Len(p) PROVE v[a + b + i] = p[i]
  <2>1. CASE i = n + 1
    <3>1. a + b + i = Len(x) + 1
      BY <1>3, <1>4, <2>1
    <3> QED  BY <1>1, <1>5, <2>1, <3>1
  <2>2. CASE i # n + 1
    <3>1. i \in 1 .. n /\ a + b + i \in 1 .. Len(x)
      BY <1>1, <1>3, <1>4, <2>2
    <3> QED  BY <1>1, <1>4, <1>5, <3>1
  <2> QED  BY <2>1, <2>2
<1>10. IsChain(v, c, u, p)
  BY <1>5, <1>6, <1>7, <1>8, <1>9 DEF IsChain, a, b
<1>11. p \in Seq(Nat)
  BY <1>1
<1>12. v = Chained(c, u, p)
  BY <1>10, <1>11, ChainIs
<1> QED  BY <1>12 DEF v, x, p

\* A batch goes from the last queue to the one before it.
LEMMA MoveLast ==
    ASSUME NEW c \in Seq(Nat), NEW u \in Seq(Nat), NEW q \in Seq(Nat), q # <<>>
    PROVE  Chained(c, Append(u, Head(q)), Tail(q)) = Chained(c, u, q)
<1> DEFINE x == Append(u, Head(q))
           r == Tail(q)
           v == Chained(c, u, q)
           a == Len(c)
           b == Len(u)
           n == Len(q)
<1>1. n \in Nat \ {0} /\ Head(q) = q[1] /\ Head(q) \in Nat /\ a \in Nat /\ b \in Nat
  BY EmptySeq, HeadTailProperties, LengthsAre
<1>2. x \in Seq(Nat) /\ Len(x) = b + 1 /\ x[b + 1] = q[1] /\ \A i \in 1 .. b : x[i] = u[i]
  BY <1>1, AppendProperties
<1>3. r \in Seq(Nat) /\ Len(r) = n - 1 /\ \A i \in 1 .. Len(r) : r[i] = q[i + 1]
  BY HeadTailProperties
<1>4. IsChain(v, c, u, q)
  BY ChainedIs
<1> HIDE DEF x, r, v
<1>5. /\ v \in Seq(Nat) /\ Len(v) = a + b + n
      /\ \A i \in 1 .. a : v[i] = c[i]
      /\ \A i \in 1 .. b : v[a + i] = u[i]
      /\ \A i \in 1 .. n : v[a + b + i] = q[i]
  BY <1>4 DEF IsChain
<1> HIDE DEF a, b, n
<1>6. Len(v) = a + Len(x) + Len(r)
  BY <1>1, <1>2, <1>3, <1>5
<1>7. ASSUME NEW i \in 1 .. Len(x) PROVE v[a + i] = x[i]
  <2>1. CASE i = b + 1
    <3>1. 1 \in 1 .. n /\ a + i = a + b + 1
      BY <1>1, <2>1
    <3> QED  BY <1>2, <1>5, <2>1, <3>1
  <2>2. CASE i # b + 1
    <3>1. i \in 1 .. b
      BY <1>1, <1>2, <2>2
    <3> QED  BY <1>2, <1>5, <3>1
  <2> QED  BY <2>1, <2>2
<1>8. ASSUME NEW i \in 1 .. Len(r) PROVE v[a + Len(x) + i] = r[i]
  <2>1. i + 1 \in 1 .. n /\ a + Len(x) + i = a + b + (i + 1)
    BY <1>1, <1>2, <1>3
  <2> QED  BY <1>3, <1>5, <2>1
<1>9. IsChain(v, c, x, r)
  BY <1>5, <1>6, <1>7, <1>8 DEF IsChain, a
<1>10. x \in Seq(Nat) /\ r \in Seq(Nat)
  BY <1>2, <1>3
<1>11. v = Chained(c, x, r)
  BY <1>9, <1>10, ChainIs
<1> QED  BY <1>11 DEF v, x, r

\* A batch goes from the middle one to the first.
LEMMA MoveMiddle ==
    ASSUME NEW c \in Seq(Nat), NEW u \in Seq(Nat), NEW q \in Seq(Nat), u # <<>>
    PROVE  Chained(Append(c, Head(u)), Tail(u), q) = Chained(c, u, q)
<1> DEFINE x == Append(c, Head(u))
           r == Tail(u)
           v == Chained(c, u, q)
           a == Len(c)
           b == Len(u)
           n == Len(q)
<1>1. b \in Nat \ {0} /\ Head(u) = u[1] /\ Head(u) \in Nat /\ a \in Nat /\ n \in Nat
  BY EmptySeq, HeadTailProperties, LengthsAre
<1>2. x \in Seq(Nat) /\ Len(x) = a + 1 /\ x[a + 1] = u[1] /\ \A i \in 1 .. a : x[i] = c[i]
  BY <1>1, AppendProperties
<1>3. r \in Seq(Nat) /\ Len(r) = b - 1 /\ \A i \in 1 .. Len(r) : r[i] = u[i + 1]
  BY HeadTailProperties
<1>4. IsChain(v, c, u, q)
  BY ChainedIs
<1> HIDE DEF x, r, v
<1>5. /\ v \in Seq(Nat) /\ Len(v) = a + b + n
      /\ \A i \in 1 .. a : v[i] = c[i]
      /\ \A i \in 1 .. b : v[a + i] = u[i]
      /\ \A i \in 1 .. n : v[a + b + i] = q[i]
  BY <1>4 DEF IsChain
<1> HIDE DEF a, b, n
<1>6. Len(v) = Len(x) + Len(r) + n /\ Len(x) + Len(r) = a + b
  BY <1>1, <1>2, <1>3, <1>5
<1>7. ASSUME NEW i \in 1 .. Len(x) PROVE v[i] = x[i]
  <2>1. CASE i = a + 1
    <3>1. 1 \in 1 .. b
      BY <1>1
    <3> QED  BY <1>2, <1>5, <2>1, <3>1
  <2>2. CASE i # a + 1
    <3>1. i \in 1 .. a
      BY <1>1, <1>2, <2>2
    <3> QED  BY <1>2, <1>5, <3>1
  <2> QED  BY <2>1, <2>2
<1>8. ASSUME NEW i \in 1 .. Len(r) PROVE v[Len(x) + i] = r[i]
  <2>1. i + 1 \in 1 .. b /\ Len(x) + i = a + (i + 1)
    BY <1>1, <1>2, <1>3
  <2> QED  BY <1>3, <1>5, <2>1
<1>9. IsChain(v, x, r, q)
  BY <1>5, <1>6, <1>7, <1>8 DEF IsChain, n
<1>10. x \in Seq(Nat) /\ r \in Seq(Nat)
  BY <1>2, <1>3
<1>11. v = Chained(x, r, q)
  BY <1>9, <1>10, ChainIs
<1> QED  BY <1>11 DEF v, x, r

\* A batch leaves at the front.
LEMMA LeaveFirst ==
    ASSUME NEW c \in Seq(Nat), NEW u \in Seq(Nat), NEW q \in Seq(Nat), c # <<>>
    PROVE  /\ Chained(c, u, q) # <<>> /\ Head(Chained(c, u, q)) = Head(c)
           /\ Tail(Chained(c, u, q)) = Chained(Tail(c), u, q)
<1> DEFINE x == Chained(c, u, q)
           r == Tail(c)
           v == Tail(x)
           a == Len(c)
           b == Len(u)
           n == Len(q)
<1>1. a \in Nat \ {0} /\ Head(c) = c[1] /\ b \in Nat /\ n \in Nat
  BY EmptySeq, LengthsAre
<1>2. r \in Seq(Nat) /\ Len(r) = a - 1 /\ \A i \in 1 .. Len(r) : r[i] = c[i + 1]
  BY HeadTailProperties
<1>3. IsChain(x, c, u, q)
  BY ChainedIs
<1> HIDE DEF x, r
<1>4. /\ x \in Seq(Nat) /\ Len(x) = a + b + n
      /\ \A i \in 1 .. a : x[i] = c[i]
      /\ \A i \in 1 .. b : x[a + i] = u[i]
      /\ \A i \in 1 .. n : x[a + b + i] = q[i]
  BY <1>3 DEF IsChain
<1> HIDE DEF a, b, n
<1>5. x # <<>> /\ Head(x) = x[1] /\ x[1] = c[1]
  <2>1. Len(x) # 0 /\ x \in Seq(Nat) /\ 1 \in 1 .. a
    BY <1>1, <1>4
  <2>2. x # <<>> /\ Head(x) = x[1]
    BY <2>1
  <2> QED  BY <1>4, <2>1, <2>2
<1>6. v \in Seq(Nat) /\ Len(v) = Len(x) - 1 /\ \A i \in 1 .. Len(v) : v[i] = x[i + 1]
  BY <1>4, <1>5, HeadTailProperties
<1> HIDE DEF v
<1>7. Len(v) = Len(r) + b + n
  BY <1>1, <1>2, <1>4, <1>6
<1>8. ASSUME NEW i \in 1 .. Len(r) PROVE v[i] = r[i]
  <2>1. i \in 1 .. Len(v) /\ i + 1 \in 1 .. a
    BY <1>1, <1>2, <1>7
  <2> QED  BY <1>2, <1>4, <1>6, <2>1
<1>9. ASSUME NEW i \in 1 .. b PROVE v[Len(r) + i] = u[i]
  <2>1. Len(r) + i \in 1 .. Len(v) /\ (Len(r) + i) + 1 = a + i
    BY <1>1, <1>2, <1>7
  <2> QED  BY <1>4, <1>6, <2>1
<1>10. ASSUME NEW i \in 1 .. n PROVE v[Len(r) + b + i] = q[i]
  <2>1. Len(r) + b + i \in 1 .. Len(v) /\ (Len(r) + b + i) + 1 = a + b + i
    BY <1>1, <1>2, <1>7
  <2> QED  BY <1>4, <1>6, <2>1
<1>11. IsChain(v, r, u, q)
  BY <1>6, <1>7, <1>8, <1>9, <1>10 DEF IsChain, b, n
<1>12. r \in Seq(Nat)
  BY <1>2
<1>13. v = Chained(r, u, q)
  BY <1>11, <1>12, ChainIs
<1> QED  BY <1>1, <1>5, <1>13 DEF v, x, r

-----------------------------------------------------------------------------
(* The numbers of the batches in a queue of events. *)

LEMMA EventNumber == \A e \in UpEvent : e.batch \in Nat
BY WireAssumption DEF UpEvent, BatchEvents

LEMMA NumbersOf ==
    ASSUME NEW u \in Seq(UpEvent)
    PROVE  /\ BatchNumbers(u) \in Seq(Nat) /\ Len(BatchNumbers(u)) = Len(u)
           /\ \A i \in 1 .. Len(u) : BatchNumbers(u)[i] = u[i].batch
<1>1. Len(u) \in Nat /\ \A i \in 1 .. Len(u) : u[i].batch \in Nat
  BY LenProperties, ElementOfSeq, EventNumber
<1> DEFINE n == Len(u)
<1>2. [i \in 1 .. n |-> u[i].batch] \in [1 .. n -> Nat]
  BY <1>1
<1> QED  BY <1>1, <1>2 DEF BatchNumbers

LEMMA NumbersNone == BatchNumbers(<<>>) = <<>>
BY DEF BatchNumbers

LEMMA NumbersAppend ==
    ASSUME NEW u \in Seq(UpEvent), NEW e \in UpEvent
    PROVE  BatchNumbers(Append(u, e)) = Append(BatchNumbers(u), e.batch)
<1> DEFINE v == Append(u, e)
           a == BatchNumbers(v)
           b == BatchNumbers(u)
           c == Append(b, e.batch)
<1>1. /\ v \in Seq(UpEvent) /\ Len(v) = Len(u) + 1 /\ v[Len(u) + 1] = e
      /\ \A i \in 1 .. Len(u) : v[i] = u[i]
  BY AppendProperties
<1> HIDE DEF v
<1>2. a \in Seq(Nat) /\ Len(a) = Len(v) /\ \A i \in 1 .. Len(v) : a[i] = v[i].batch
  BY <1>1, NumbersOf
<1>3. b \in Seq(Nat) /\ Len(b) = Len(u) /\ \A i \in 1 .. Len(u) : b[i] = u[i].batch
  BY NumbersOf
<1> HIDE DEF a, b
<1>4. /\ c \in Seq(Nat) /\ Len(c) = Len(b) + 1 /\ c[Len(b) + 1] = e.batch
      /\ \A i \in 1 .. Len(b) : c[i] = b[i]
  BY <1>3, EventNumber, AppendProperties
<1> HIDE DEF c
<1>5. Len(u) \in Nat
  BY LenProperties
<1>6. Len(a) = Len(c)
  BY <1>1, <1>2, <1>3, <1>4
<1>7. ASSUME NEW i \in 1 .. Len(a) PROVE a[i] = c[i]
  <2>1. CASE i = Len(u) + 1
    BY <1>1, <1>2, <1>3, <1>4, <1>5, <2>1
  <2>2. CASE i \in 1 .. Len(u)
    BY <1>1, <1>2, <1>3, <1>4, <1>5, <2>2
  <2> QED  BY <1>1, <1>2, <1>5, <2>1, <2>2
<1>8. a = c
  BY <1>2, <1>4, <1>6, <1>7, SeqEqual
<1> QED  BY <1>8 DEF a, b, c, v

LEMMA NumbersTail ==
    ASSUME NEW u \in Seq(UpEvent), u # <<>>
    PROVE  /\ BatchNumbers(u) # <<>> /\ Head(BatchNumbers(u)) = Head(u).batch
           /\ BatchNumbers(Tail(u)) = Tail(BatchNumbers(u))
<1> DEFINE v == Tail(u)
           a == BatchNumbers(v)
           b == BatchNumbers(u)
           c == Tail(b)
<1>1. Len(u) \in Nat \ {0} /\ Head(u) = u[1]
  BY EmptySeq
<1>2. v \in Seq(UpEvent) /\ Len(v) = Len(u) - 1 /\ \A i \in 1 .. Len(v) : v[i] = u[i + 1]
  BY HeadTailProperties
<1> HIDE DEF v
<1>3. a \in Seq(Nat) /\ Len(a) = Len(v) /\ \A i \in 1 .. Len(v) : a[i] = v[i].batch
  BY <1>2, NumbersOf
<1>4. b \in Seq(Nat) /\ Len(b) = Len(u) /\ \A i \in 1 .. Len(u) : b[i] = u[i].batch
  BY NumbersOf
<1> HIDE DEF a, b
<1>5. b # <<>> /\ Head(b) = b[1] /\ b[1] = u[1].batch
  BY <1>1, <1>4
<1>6. c \in Seq(Nat) /\ Len(c) = Len(b) - 1 /\ \A i \in 1 .. Len(c) : c[i] = b[i + 1]
  BY <1>4, <1>5, HeadTailProperties
<1> HIDE DEF c
<1>7. Len(a) = Len(c)
  BY <1>2, <1>3, <1>4, <1>6
<1>8. ASSUME NEW i \in 1 .. Len(a) PROVE a[i] = c[i]
  <2>1. i \in 1 .. Len(v) /\ i \in 1 .. Len(c) /\ i + 1 \in 1 .. Len(u)
    BY <1>1, <1>2, <1>3, <1>7
  <2> QED  BY <1>2, <1>3, <1>4, <1>6, <2>1
<1>9. a = c
  BY <1>3, <1>6, <1>7, <1>8, SeqEqual
<1> QED  BY <1>1, <1>5, <1>9 DEF a, b, c, v

-----------------------------------------------------------------------------
(* The batches in transit. *)

LEMMA TransitIs ==
    ASSUME TypeInv, NEW s \in Sessions
    PROVE  /\ InTransit(s) = Chained(cache[s], BatchNumbers(up[s]), BatchNumbers(queue[s]))
           /\ cache[s] \in Seq(Nat) /\ up[s] \in Seq(UpEvent) /\ queue[s] \in Seq(UpEvent)
           /\ BatchNumbers(up[s]) \in Seq(Nat) /\ BatchNumbers(queue[s]) \in Seq(Nat)
           /\ InTransit(s) \in Seq(Nat)
           /\ Len(InTransit(s)) = Len(cache[s]) + Len(up[s]) + Len(queue[s])
           /\ Len(cache[s]) \in Nat /\ Len(up[s]) \in Nat /\ Len(queue[s]) \in Nat
<1>1. cache[s] \in Seq(1 .. NBatches) /\ up[s] \in Seq(UpEvent) /\ queue[s] \in Seq(BatchEvents)
  BY DEF TypeInv, TypeOK, EngineTypeOK, WireTypeOK, ClientTypeOK
<1>2. 1 .. NBatches \subseteq Nat /\ BatchEvents \subseteq UpEvent
  BY WireAssumption, EventsTyped
<1>3. cache[s] \in Seq(Nat)
  BY <1>1, <1>2, SeqMonotonic
<1>4. queue[s] \in Seq(UpEvent)
  BY <1>1, <1>2, SeqMonotonic
<1> DEFINE c == cache[s]
           u == BatchNumbers(up[s])
           q == BatchNumbers(queue[s])
<1>5. u \in Seq(Nat) /\ Len(u) = Len(up[s])
  BY <1>1, NumbersOf
<1>6. q \in Seq(Nat) /\ Len(q) = Len(queue[s])
  BY <1>4, NumbersOf
<1>7. InTransit(s) = Chained(c, u, q)
  BY DEF InTransit, Chained
<1>8. c \in Seq(Nat) /\ u \in Seq(Nat) /\ q \in Seq(Nat)
  BY <1>3, <1>5, <1>6
<1>9. Len(c) \in Nat /\ Len(u) \in Nat /\ Len(q) \in Nat
  BY <1>8, LengthsAre
<1> HIDE DEF c, u, q
<1>10. IsChain(Chained(c, u, q), c, u, q)
  BY <1>8, ChainedIs
<1>11. Chained(c, u, q) \in Seq(Nat) /\ Len(Chained(c, u, q)) = Len(c) + Len(u) + Len(q)
  BY <1>10 DEF IsChain
<1> QED  BY <1>1, <1>3, <1>4, <1>5, <1>6, <1>7, <1>8, <1>9, <1>11 DEF c, u, q

LEMMA TransitSame ==
    ASSUME NEW s, cache'[s] = cache[s], up'[s] = up[s], queue'[s] = queue[s]
    PROVE  InTransit(s)' = InTransit(s)
BY DEF InTransit, BatchNumbers

LEMMA TransitFed ==
    ASSUME TypeInv, NEW s \in Sessions, NEW e \in BatchEvents,
           cache'[s] = cache[s], up'[s] = up[s], queue'[s] = Append(queue[s], e)
    PROVE  InTransit(s)' = Append(InTransit(s), e.batch)
<1> DEFINE c == cache[s]
           u == BatchNumbers(up[s])
           q == BatchNumbers(queue[s])
           n == e.batch
<1>1. e \in UpEvent /\ n \in Nat
  BY EventsTyped, EventNumber
<1>2. queue[s] \in Seq(UpEvent) /\ c \in Seq(Nat) /\ u \in Seq(Nat) /\ q \in Seq(Nat)
  BY TransitIs
<1>3. BatchNumbers(Append(queue[s], e)) = Append(q, n)
  BY <1>1, <1>2, NumbersAppend
<1>4. InTransit(s)' = Chained(c, u, Append(q, n))
  BY <1>3 DEF InTransit, Chained, BatchNumbers
<1>5. InTransit(s) = Chained(c, u, q)
  BY TransitIs
<1> HIDE DEF c, u, q, n
<1>6. Chained(c, u, Append(q, n)) = Append(Chained(c, u, q), n)
  BY <1>1, <1>2, EnterLast
<1> QED  BY <1>4, <1>5, <1>6 DEF n

LEMMA TransitSent ==
    ASSUME TypeInv, NEW s \in Sessions, queue[s] # <<>>, cache'[s] = cache[s],
           up'[s] = Append(up[s], Head(queue[s])), queue'[s] = Tail(queue[s])
    PROVE  InTransit(s)' = InTransit(s)
<1> DEFINE c == cache[s]
           u == BatchNumbers(up[s])
           q == BatchNumbers(queue[s])
           e == Head(queue[s])
<1>1. /\ queue[s] \in Seq(UpEvent) /\ up[s] \in Seq(UpEvent)
      /\ c \in Seq(Nat) /\ u \in Seq(Nat) /\ q \in Seq(Nat)
  BY TransitIs
<1>2. e \in UpEvent
  BY <1>1, HeadTailProperties
<1>3. q # <<>> /\ Head(q) = e.batch /\ BatchNumbers(Tail(queue[s])) = Tail(q)
  BY <1>1, NumbersTail
<1>4. BatchNumbers(Append(up[s], e)) = Append(u, e.batch)
  BY <1>1, <1>2, NumbersAppend
<1>5. BatchNumbers(up[s])' = BatchNumbers(Append(up[s], e))
  BY DEF BatchNumbers
<1>6. BatchNumbers(queue[s])' = BatchNumbers(Tail(queue[s]))
  BY DEF BatchNumbers
<1>7. InTransit(s)' = Chained(cache'[s], BatchNumbers(up[s])', BatchNumbers(queue[s])')
  BY DEF InTransit, Chained
<1>8. InTransit(s)' = Chained(c, Append(u, Head(q)), Tail(q))
  BY <1>3, <1>4, <1>5, <1>6, <1>7
<1>9. InTransit(s) = Chained(c, u, q)
  BY TransitIs
<1> HIDE DEF c, u, q
<1> QED  BY <1>1, <1>3, <1>8, <1>9, MoveLast

LEMMA TransitCached ==
    ASSUME TypeInv, NEW s \in Sessions, up[s] # <<>>, queue'[s] = queue[s],
           cache'[s] = Append(cache[s], Head(up[s]).batch), up'[s] = Tail(up[s])
    PROVE  InTransit(s)' = InTransit(s)
<1> DEFINE c == cache[s]
           u == BatchNumbers(up[s])
           q == BatchNumbers(queue[s])
<1>1. up[s] \in Seq(UpEvent) /\ c \in Seq(Nat) /\ u \in Seq(Nat) /\ q \in Seq(Nat)
  BY TransitIs
<1>2. u # <<>> /\ Head(u) = Head(up[s]).batch /\ BatchNumbers(Tail(up[s])) = Tail(u)
  BY <1>1, NumbersTail
<1>3. BatchNumbers(up[s])' = BatchNumbers(Tail(up[s])) /\ BatchNumbers(queue[s])' = q
  BY DEF BatchNumbers
<1>4. InTransit(s)' = Chained(cache'[s], BatchNumbers(up[s])', BatchNumbers(queue[s])')
  BY DEF InTransit, Chained
<1>5. InTransit(s)' = Chained(Append(c, Head(u)), Tail(u), q)
  BY <1>2, <1>3, <1>4
<1>6. InTransit(s) = Chained(c, u, q)
  BY TransitIs
<1> HIDE DEF c, u, q
<1> QED  BY <1>1, <1>2, <1>5, <1>6, MoveMiddle

LEMMA TransitUsed ==
    ASSUME TypeInv, NEW s \in Sessions, cache[s] # <<>>, cache'[s] = Tail(cache[s]),
           up'[s] = up[s], queue'[s] = queue[s]
    PROVE  /\ InTransit(s) # <<>> /\ Head(InTransit(s)) = Head(cache[s])
           /\ InTransit(s)' = Tail(InTransit(s))
<1> DEFINE c == cache[s]
           u == BatchNumbers(up[s])
           q == BatchNumbers(queue[s])
<1>1. c \in Seq(Nat) /\ u \in Seq(Nat) /\ q \in Seq(Nat)
  BY TransitIs
<1>2. BatchNumbers(up[s])' = u /\ BatchNumbers(queue[s])' = q
  BY DEF BatchNumbers
<1>3. InTransit(s)' = Chained(cache'[s], BatchNumbers(up[s])', BatchNumbers(queue[s])')
  BY DEF InTransit, Chained
<1>4. InTransit(s)' = Chained(Tail(c), u, q) /\ c # <<>>
  BY <1>2, <1>3
<1>5. InTransit(s) = Chained(c, u, q)
  BY TransitIs
<1>6. Head(c) = Head(cache[s])
  OBVIOUS
<1> HIDE DEF c, u, q
<1>7. /\ Chained(c, u, q) # <<>> /\ Head(Chained(c, u, q)) = Head(c)
      /\ Tail(Chained(c, u, q)) = Chained(Tail(c), u, q)
  BY <1>1, <1>4, LeaveFirst
<1> QED  BY <1>4, <1>5, <1>6, <1>7

LEMMA NothingInTransit ==
    ASSUME TypeInv, NEW s \in Sessions
    PROVE  InTransit(s) = <<>> <=> cache[s] = <<>> /\ up[s] = <<>> /\ queue[s] = <<>>
<1>1. /\ InTransit(s) \in Seq(Nat) /\ cache[s] \in Seq(Nat)
      /\ up[s] \in Seq(UpEvent) /\ queue[s] \in Seq(UpEvent)
      /\ Len(InTransit(s)) = Len(cache[s]) + Len(up[s]) + Len(queue[s])
      /\ Len(cache[s]) \in Nat /\ Len(up[s]) \in Nat /\ Len(queue[s]) \in Nat
  BY TransitIs
<1>2. \A S : \A x \in Seq(S) : x = <<>> <=> Len(x) = 0
  BY EmptySeq
<1>3. /\ InTransit(s) = <<>> <=> Len(InTransit(s)) = 0
      /\ cache[s] = <<>> <=> Len(cache[s]) = 0
      /\ up[s] = <<>> <=> Len(up[s]) = 0
      /\ queue[s] = <<>> <=> Len(queue[s]) = 0
  BY <1>1, <1>2, Zenon
<1> DEFINE a == Len(cache[s])
           b == Len(up[s])
           n == Len(queue[s])
           k == Len(InTransit(s))
<1>4. k = a + b + n /\ a \in Nat /\ b \in Nat /\ n \in Nat
  BY <1>1
<1> HIDE DEF a, b, n, k
<1>5. k = 0 <=> a = 0 /\ b = 0 /\ n = 0
  BY <1>4
<1> QED  BY <1>3, <1>5 DEF a, b, n, k

-----------------------------------------------------------------------------
(* The streams that the sessions are shown to implement. *)

Pending(s) == IF main[s] = "feed" THEN InTransit(s) ELSE <<>>
Sent(s)    == IfOpen(s, fed[s])
Used(s)    == IfOpen(s, builder[s].last)

streamVars == <<[s \in Sessions |-> Pending(s)], [s \in Sessions |-> Sent(s)],
                [s \in Sessions |-> Used(s)], [s \in Sessions |-> StreamState(s)]>>

Unmoved(s) ==
    /\ Pending(s)' = Pending(s) /\ Sent(s)' = Sent(s) /\ Used(s)' = Used(s)
    /\ StreamState(s)' = StreamState(s)

LEMMA NoneMoves ==
    ASSUME \A s \in Sessions : Unmoved(s)
    PROVE  UNCHANGED streamVars
<1>1. /\ [s \in Sessions |-> Pending(s)]' = [s \in Sessions |-> Pending(s)]
      /\ [s \in Sessions |-> Sent(s)]' = [s \in Sessions |-> Sent(s)]
      /\ [s \in Sessions |-> Used(s)]' = [s \in Sessions |-> Used(s)]
      /\ [s \in Sessions |-> StreamState(s)]' = [s \in Sessions |-> StreamState(s)]
  BY DEF Unmoved
<1> QED  BY <1>1 DEF streamVars

LEMMA StreamSends ==
    ASSUME NEW s \in Sessions, \A t \in Sessions : t # s => Unmoved(t),
           StreamState(s) # "closed", Sent(s) < NBatches,
           Sent(s)' = Sent(s) + 1, Pending(s)' = Append(Pending(s), Sent(s) + 1),
           Used(s)' = Used(s), StreamState(s)' = StreamState(s)
    PROVE  Stream!SendNext(s)
<1> DEFINE p == [t \in Sessions |-> Pending(t)]
           n == [t \in Sessions |-> Sent(t)]
           k == Sent(s) + 1
<1>1. p' = [p EXCEPT ![s] = Append(p[s], k)]
  <2> HIDE DEF k
  <2>1. Pending(s)' = Append(Pending(s), k)
    BY DEF k
  <2> QED  BY <2>1 DEF Unmoved
<1>2. n' = [n EXCEPT ![s] = k]
  BY DEF Unmoved
<1>3. n[s] + 1 = k /\ n[s] < NBatches
  OBVIOUS
<1>4. /\ [t \in Sessions |-> Used(t)]' = [t \in Sessions |-> Used(t)]
      /\ [t \in Sessions |-> StreamState(t)]' = [t \in Sessions |-> StreamState(t)]
      /\ [t \in Sessions |-> StreamState(t)][s] # "closed"
  BY DEF Unmoved
<1> QED  BY <1>1, <1>2, <1>3, <1>4 DEF Stream!SendNext, Pending, Sent, Used

LEMMA StreamUses ==
    ASSUME NEW s \in Sessions, \A t \in Sessions : t # s => Unmoved(t),
           StreamState(s) = "open", Pending(s) # <<>>,
           Used(s)' = Head(Pending(s)), Pending(s)' = Tail(Pending(s)),
           Sent(s)' = Sent(s), StreamState(s)' = StreamState(s)
    PROVE  Stream!UseNext(s)
BY DEF Stream!UseNext, Unmoved, Pending, Sent, Used

LEMMA StreamFails ==
    ASSUME NEW s \in Sessions, \A t \in Sessions : t # s => Unmoved(t),
           StreamState(s) = "open", StreamState(s)' = "failed",
           Pending(s)' = Pending(s), Sent(s)' = Sent(s), Used(s)' = Used(s)
    PROVE  Stream!Fail(s)
BY DEF Stream!Fail, Unmoved, Pending, Sent, Used

LEMMA StreamCloses ==
    ASSUME NEW s \in Sessions, \A t \in Sessions : t # s => Unmoved(t),
           StreamState(s) = "failed" \/ Used(s) = NBatches, StreamState(s)' = "closed",
           Pending(s)' = <<>>, Sent(s)' = 0, Used(s)' = 0
    PROVE  Stream!Close(s)
BY DEF Stream!Close, Unmoved, Pending, Sent, Used

LEMMA StillUnmoved ==
    ASSUME NEW t, main'[t] = main[t], fed'[t] = fed[t], builder'[t].last = builder[t].last,
           t \in failed' <=> t \in failed, main[t] = "feed" => InTransit(t)' = InTransit(t)
    PROVE  Unmoved(t)
<1>1. StreamState(t)' = StreamState(t)
  BY DEF StreamState
<1>2. Sent(t)' = Sent(t) /\ Used(t)' = Used(t)
  BY <1>1 DEF Sent, Used, IfOpen
<1>3. Pending(t)' = Pending(t)
  BY DEF Pending
<1> QED  BY <1>1, <1>2, <1>3 DEF Unmoved

LEMMA ClosedUnmoved ==
    ASSUME NEW t, main[t] \in {"join", "done"}, main'[t] \in {"join", "done"}
    PROVE  Unmoved(t)
<1>1. StreamState(t) = "closed" /\ StreamState(t)' = "closed"
  BY DEF StreamState
<1>2. Sent(t) = 0 /\ Sent(t)' = 0 /\ Used(t) = 0 /\ Used(t)' = 0
  BY <1>1 DEF Sent, Used, IfOpen
<1>3. Pending(t) = <<>> /\ Pending(t)' = <<>>
  BY DEF Pending
<1> QED  BY <1>1, <1>2, <1>3 DEF Unmoved

\* A session that a step leaves alone, as far as its stream tells.
SameStream(t) ==
    /\ main'[t] = main[t] /\ fed'[t] = fed[t] /\ up'[t] = up[t] /\ queue'[t] = queue[t]
    /\ cache'[t] = cache[t] /\ builder'[t].last = builder[t].last
    /\ t \in failed' <=> t \in failed

LEMMA SameUnmoved ==
    ASSUME NEW t, SameStream(t)
    PROVE  Unmoved(t)
<1>1. InTransit(t)' = InTransit(t)
  BY TransitSame DEF SameStream
<1> QED  BY <1>1, StillUnmoved DEF SameStream

Moves == Stream!StreamNext \/ UNCHANGED streamVars

-----------------------------------------------------------------------------
(* What the invariants say of a session that feeds batches. *)

\* The messages of a task that works, in a healthy state.
LEMMA WorkingFlows ==
    ASSUME NEW s \in Sessions, Working(s)
    PROVE  /\ \A i \in 1 .. Len(up[s]) : up[s][i].ev = "batch_data" /\ up[s][i].sid = s
           /\ \A i \in 1 .. Len(queue[s]) : queue[s][i].sid = s
           /\ sid[s] = s /\ s \in bound /\ Served(s)
<1>1. up[s] = <<>> \/ \E n \in 1 .. NBatches : up[s] = <<BatchEvent(s, n)>>
  BY DEF Working, Streaming, Completing, NothingUnderWay, RequestUnderWay, BatchUnderWay,
         Silent, Wire
<1>2. \A i \in 1 .. Len(up[s]) : up[s][i].ev = "batch_data" /\ up[s][i].sid = s
  <2>1. CASE up[s] = <<>>
    BY <2>1
  <2>2. ASSUME NEW n \in 1 .. NBatches, up[s] = <<BatchEvent(s, n)>>
        PROVE  \A i \in 1 .. Len(up[s]) : up[s][i].ev = "batch_data" /\ up[s][i].sid = s
    <3>1. Len(up[s]) = 1 /\ up[s][1] = BatchEvent(s, n)
      BY <2>2
    <3> QED  BY <3>1 DEF BatchEvent
  <2> QED  BY <1>1, <2>1, <2>2
<1> QED  BY <1>2 DEF Working, Attending, Serving

LEMMA RestingRests ==
    ASSUME NEW t, Resting(t)
    PROVE  /\ main[t] \in {"idle", "done"} /\ thread[t] \in {"off", "ended"}
           /\ up[t] = <<>> /\ sender[t] = NoQueue /\ builder[t].stage = 0
BY DEF Resting, Idle, Done, DisconnectDone, Silent, Wire, Fresh, NoTask, TaskAt

\* When a session has anything under way to the engine or is past its setup, all
\* others rest.
LEMMA OthersRest ==
    ASSUME HealthInv, StreamInv, NEW s \in Sessions,
           up[s] # <<>> \/ main[s] = "feed" \/ builder[s].stage > 0
    PROVE  \A t \in Sessions : t # s =>
               main[t] \in {"idle", "done"} /\ up[t] = <<>> /\ builder[t].stage = 0
<1>1. CASE Healthy
  <2>1. PhaseInv
    BY <1>1 DEF HealthInv
  <2>2. s \in Running
    <3>1. ~Resting(s)
      BY RestingRests
    <3> QED  BY <2>1, <3>1, PhaseMain DEF PhaseInv
  <2>3. ASSUME NEW t \in Sessions, t # s PROVE Resting(t)
    <3>1. t \notin Running
      BY <2>1, <2>2, <2>3 DEF PhaseInv, OneRuns
    <3> QED  BY <2>1, <3>1, PhaseMain DEF PhaseInv
  <2> QED  BY <2>3, RestingRests
<1>2. CASE ~Healthy
  <2>1. FailInv
    BY <1>2 DEF StreamInv
  <2>2. PICK r \in Sessions : \A u \in Sessions : u # r => Stopped(u)
    BY <2>1 DEF FailInv
  <2>3. s = r
    BY <2>2 DEF Stopped
  <2> QED  BY <2>2, <2>3 DEF Stopped
<1> QED  BY <1>1, <1>2

LEMMA FeedFlows ==
    ASSUME HealthInv, StreamInv, NEW s \in Sessions, main[s] = "feed"
    PROVE  Flowing(s) /\ s \in bound /\ sid[s] = s
<1>1. CASE Healthy
  <2>1. Working(s)
    BY <1>1, PhaseMain DEF HealthInv, PhaseInv
  <2> QED  BY <2>1, WorkingFlows DEF Flowing
<1>2. CASE ~Healthy
  <2>1. FailInv
    BY <1>2 DEF StreamInv
  <2> QED  BY <2>1 DEF FailInv, Failing, Stopped
<1> QED  BY <1>1, <1>2

\* Before the main thread knows that its task has been accepted, it feeds nothing.
LEMMA NothingFed ==
    ASSUME TypeInv, HealthInv, StreamInv, NEW s \in Sessions, main[s] = "task", s \in bound
    PROVE  Flowing(s)
<1>1. CASE Healthy
  <2>1. Working(s)
    BY <1>1, PhaseMain DEF HealthInv, PhaseInv, Starting, Fresh
  <2>2. fed[s] = 0 /\ Ordered(s)
    BY <1>1, <2>1 DEF StreamInv, OrderInv, HasTask, Working, Attending
  <2>3. builder[s].last \in Nat /\ Len(InTransit(s)) \in Nat /\ InTransit(s) \in Seq(Nat)
    <3>1. InTransit(s) \in Seq(Nat)
      BY TransitIs
    <3>2. builder[s].last \in 0 .. NBatches
      BY DEF TypeInv, TypeOK, EngineTypeOK
    <3> QED  BY <3>1, <3>2, LengthsAre, WireAssumption
  <2>4. Len(InTransit(s)) = 0
    BY <2>2, <2>3 DEF Ordered
  <2>5. InTransit(s) = <<>>
    BY <2>3, <2>4, EmptySeq
  <2> QED  BY <2>1, <2>2, <2>5, WorkingFlows DEF Flowing
<1>2. CASE ~Healthy
  <2>1. FailInv
    BY <1>2 DEF StreamInv
  <2> QED  BY <2>1 DEF FailInv, Failing, Stopped
<1> QED  BY <1>1, <1>2

\* As long as no task has failed, a result means that every batch has been used.
LEMMA ResultComplete ==
    ASSUME TypeInv, HealthInv, StreamInv, Healthy, NEW s \in Sessions, main[s] = "feed",
           "completed" \in flags[s]
    PROVE  builder[s].last = NBatches
<1>1. Working(s)
  BY PhaseMain DEF HealthInv, PhaseInv
<1>2. Completing(s)
  BY <1>1 DEF Working, Streaming
<1>3. added[s] = NBatches /\ builder[s].stage = 0
  BY <1>2 DEF Completing
<1>4. Taken(s) = NBatches
  BY <1>3, TakenIs
<1>5. added[s] = Len(cache[s]) + Taken(s)
  BY <1>1 DEF Working, Serving
<1>6. builder[s].last + Len(cache[s]) = added[s]
  BY <1>1 DEF StreamInv, OrderInv, HasTask, Ordered, Working, Serving
<1>7. Len(cache[s]) \in Nat /\ builder[s].last \in Int /\ NBatches \in Nat
  <2>1. builder[s].last \in 0 .. NBatches
    BY DEF TypeInv, TypeOK, EngineTypeOK
  <2> QED  BY <2>1, TransitIs, WireAssumption
<1> DEFINE a == Len(cache[s])
           l == builder[s].last
<1>8. a \in Nat /\ l \in Int /\ NBatches \in Nat /\ NBatches = a + NBatches /\ l + a = NBatches
  BY <1>3, <1>4, <1>5, <1>6, <1>7
<1> HIDE DEF a, l
<1>9. l = NBatches
  BY <1>8
<1> QED  BY <1>9 DEF l

-----------------------------------------------------------------------------
(* Every step is a step of the streams, or changes none of them. *)

LEMMA NoneMovesBut ==
    ASSUME NEW s \in Sessions, Unmoved(s), \A t \in Sessions : t # s => SameStream(t)
    PROVE  UNCHANGED streamVars
BY SameUnmoved, NoneMoves

\* A step of a backend is about its own session.
LEMMA BackendAlone ==
    ASSUME TypeInv, NEW s \in Sessions, UNCHANGED engineVars,
           \A t \in Sessions : t # s =>
               main'[t] = main[t] /\ fed'[t] = fed[t] /\ up'[t] = up[t] /\ queue'[t] = queue[t]
    PROVE  /\ \A t \in Sessions : t # s => SameStream(t)
           /\ cache'[s] = cache[s] /\ builder'[s] = builder[s] /\ failed' = failed
BY DEF SameStream, engineVars, dispatcherVars, taskVars

\* The steps up to the task.
LEMMA StartMoves ==
    ASSUME TypeInv, NEW s \in Sessions, UNCHANGED engineVars,
           Open(s) \/ SendSetup(s, Connected(s)) \/ SendTask(s)
    PROVE  UNCHANGED streamVars
<1>1. /\ main \in [Sessions -> {"idle", "connect", "setup", "task", "feed", "join", "done"}]
      /\ up \in [Sessions -> Seq(UpEvent)]
  BY DEF TypeInv, TypeOK, ClientTypeOK, WireTypeOK
<1>2. /\ main[s] \in {"idle", "connect", "setup"} /\ main'[s] \in {"connect", "setup", "task"}
      /\ UNCHANGED <<fed, queue>>
      /\ \A t \in Sessions : t # s => main'[t] = main[t] /\ up'[t] = up[t]
  BY <1>1 DEF Open, SendSetup, SendTask, SendJson, wireVars
<1>3. /\ \A t \in Sessions : t # s => SameStream(t)
      /\ builder'[s] = builder[s] /\ failed' = failed
  BY <1>2, BackendAlone
<1>4. StreamState(s)' = StreamState(s)
  BY <1>2, <1>3 DEF StreamState
<1>5. Unmoved(s)
  BY <1>2, <1>3, <1>4 DEF Unmoved, Pending, Sent, Used, IfOpen
<1> QED  BY <1>3, <1>5, NoneMovesBut

LEMMA AcknowledgedMoves ==
    ASSUME TypeInv, HealthInv, StreamInv, NEW s \in Sessions, UNCHANGED engineVars,
           TaskAcknowledged(s)
    PROVE  UNCHANGED streamVars
<1>1. main \in [Sessions -> {"idle", "connect", "setup", "task", "feed", "join", "done"}]
  BY DEF TypeInv, TypeOK, ClientTypeOK
<1>2. /\ main[s] = "task" /\ main'[s] = "feed" /\ UNCHANGED <<fed, queue, up>>
      /\ \A t \in Sessions : t # s => main'[t] = main[t]
      /\ "task_acknowledged" \in flags[s]
  BY <1>1 DEF TaskAcknowledged, wireVars
<1>3. /\ \A t \in Sessions : t # s => SameStream(t)
      /\ cache'[s] = cache[s] /\ builder'[s] = builder[s] /\ failed' = failed
  BY <1>2, BackendAlone
<1>4. s \in bound
  <2>1. CASE Healthy
    <3>1. Phase(s)
      BY <2>1 DEF HealthInv, PhaseInv
    <3>2. ~Starting(s)
      BY <1>2 DEF Starting
    <3> QED  BY <1>2, <3>1, <3>2, PhaseMain DEF Working, Serving
  <2>2. CASE ~Healthy
    <3>1. FailInv
      BY <2>2 DEF StreamInv
    <3> QED  BY <1>2, <3>1 DEF FailInv, Failing, Stopped
  <2> QED  BY <2>1, <2>2
<1>5. InTransit(s) = <<>>
  BY <1>2, <1>4, NothingFed DEF Flowing
<1>6. InTransit(s)' = <<>>
  BY <1>2, <1>3, <1>5, TransitSame
<1>7. StreamState(s)' = StreamState(s)
  BY <1>2, <1>3 DEF StreamState
<1>8. Unmoved(s)
  BY <1>2, <1>3, <1>6, <1>7 DEF Unmoved, Pending, Sent, Used, IfOpen
<1> QED  BY <1>3, <1>8, NoneMovesBut

LEMMA FeedMoves ==
    ASSUME TypeInv, HealthInv, StreamInv, NEW s \in Sessions, UNCHANGED engineVars, FeedBatch(s)
    PROVE  Stream!SendNext(s)
<1>1. fed \in [Sessions -> 0 .. NBatches] /\ queue \in [Sessions -> Seq(BatchEvents)]
  BY DEF TypeInv, TypeOK, ClientTypeOK
<1>2. sid[s] = s /\ main[s] = "feed"
  BY FeedFlows DEF FeedBatch
<1>3. fed[s] < FetchLimit /\ FetchLimit <= NBatches
  BY ClientAssumption, WireAssumption DEF FeedBatch, FetchLimit
<1>4. fed[s] \in Nat /\ fed[s] < NBatches /\ fed[s] + 1 \in 1 .. NBatches
  BY <1>1, <1>3, ClientAssumption, WireAssumption DEF FetchLimit
<1> DEFINE e == BatchEvent(s, fed[s] + 1)
<1>5. e \in BatchEvents /\ e.batch = fed[s] + 1
  BY <1>4, EventsTyped DEF BatchEvent
<1>6. /\ UNCHANGED <<main, up>> /\ fed'[s] = fed[s] + 1 /\ queue'[s] = Append(queue[s], e)
      /\ \A t \in Sessions : t # s => fed'[t] = fed[t] /\ queue'[t] = queue[t]
  BY <1>1, <1>2 DEF FeedBatch, wireVars
<1> HIDE DEF e
<1>7. /\ \A t \in Sessions : t # s => SameStream(t)
      /\ cache'[s] = cache[s] /\ builder'[s] = builder[s] /\ failed' = failed
  BY <1>6, BackendAlone
<1>8. InTransit(s)' = Append(InTransit(s), fed[s] + 1)
  BY <1>5, <1>6, <1>7, TransitFed
<1>9. StreamState(s)' = StreamState(s) /\ StreamState(s) # "closed"
  BY <1>2, <1>6, <1>7 DEF StreamState
<1>10. Sent(s) = fed[s] /\ Sent(s)' = fed[s] + 1 /\ Used(s)' = Used(s)
  BY <1>6, <1>7, <1>9 DEF Sent, Used, IfOpen
<1>11. Pending(s)' = Append(Pending(s), Sent(s) + 1)
  BY <1>2, <1>6, <1>8, <1>10 DEF Pending
<1>12. \A t \in Sessions : t # s => Unmoved(t)
  BY <1>7, SameUnmoved
<1>13. Sent(s) < NBatches /\ Sent(s)' = Sent(s) + 1
  BY <1>4, <1>10
<1> QED  BY <1>9, <1>10, <1>11, <1>12, <1>13, StreamSends

LEMMA DisconnectMoves ==
    ASSUME TypeInv, HealthInv, StreamInv, NEW s \in Sessions, UNCHANGED engineVars,
           SendDisconnect(s)
    PROVE  Stream!Close(s)
<1>1. /\ main \in [Sessions -> {"idle", "connect", "setup", "task", "feed", "join", "done"}]
      /\ up \in [Sessions -> Seq(UpEvent)]
  BY DEF TypeInv, TypeOK, ClientTypeOK, WireTypeOK
<1>2. /\ main[s] = "feed" /\ "completed" \in flags[s] /\ main'[s] = "join"
      /\ UNCHANGED <<fed, queue>>
      /\ \A t \in Sessions : t # s => main'[t] = main[t] /\ up'[t] = up[t]
  BY <1>1 DEF SendDisconnect, SendJson
<1>3. \A t \in Sessions : t # s => SameStream(t)
  BY <1>2, BackendAlone
<1>4. \A t \in Sessions : t # s => Unmoved(t)
  BY <1>3, SameUnmoved
<1>5. StreamState(s)' = "closed"
  BY <1>2 DEF StreamState
<1>6. Pending(s)' = <<>> /\ Sent(s)' = 0 /\ Used(s)' = 0
  BY <1>2, <1>5 DEF Pending, Sent, Used, IfOpen
<1>7. StreamState(s) = "failed" \/ Used(s) = NBatches
  <2>1. CASE Healthy
    <3>1. builder[s].last = NBatches
      BY <1>2, <2>1, ResultComplete
    <3>2. StreamState(s) # "closed"
      BY <1>2 DEF StreamState
    <3> QED  BY <3>1, <3>2 DEF Used, IfOpen
  <2>2. CASE ~Healthy
    <3>1. FailInv
      BY <2>2 DEF StreamInv
    <3>2. s \in failed
      BY <1>2, <3>1 DEF FailInv, Stopped
    <3> QED  BY <1>2, <3>2 DEF StreamState
  <2> QED  BY <2>1, <2>2
<1> QED  BY <1>4, <1>5, <1>6, <1>7, StreamCloses

LEMMA JoinMoves ==
    ASSUME TypeInv, NEW s \in Sessions, UNCHANGED engineVars, Join(s)
    PROVE  UNCHANGED streamVars
<1>1. /\ main \in [Sessions -> {"idle", "connect", "setup", "task", "feed", "join", "done"}]
      /\ fed \in [Sessions -> 0 .. NBatches] /\ queue \in [Sessions -> Seq(BatchEvents)]
  BY DEF TypeInv, TypeOK, ClientTypeOK
<1>2. /\ main[s] = "join" /\ main'[s] = "done" /\ UNCHANGED up
      /\ \A t \in Sessions :
            t # s => main'[t] = main[t] /\ fed'[t] = fed[t] /\ queue'[t] = queue[t]
  BY <1>1 DEF Join, wireVars
<1>3. \A t \in Sessions : t # s => SameStream(t)
  BY <1>2, BackendAlone
<1> QED  BY <1>2, <1>3, ClosedUnmoved, NoneMovesBut

LEMMA WebsocketMoves ==
    ASSUME TypeInv, NEW s \in Sessions, UNCHANGED engineVars, WebsocketThread(s)
    PROVE  UNCHANGED streamVars
<1>1. up \in [Sessions -> Seq(UpEvent)] /\ queue \in [Sessions -> Seq(BatchEvents)]
  BY DEF TypeInv, TypeOK, ClientTypeOK, WireTypeOK
<1>2. CASE HandleEvent(s)
  <2>1. UNCHANGED <<main, queue, fed, up>>
    BY <1>2 DEF HandleEvent
  <2>2. \A t \in Sessions : SameStream(t)
    BY <2>1 DEF SameStream, engineVars, dispatcherVars, taskVars
  <2> QED  BY <2>2, SameUnmoved, NoneMoves
<1>3. CASE DequeueBatch(s)
  <2>1. /\ queue[s] # <<>> /\ up'[s] = Append(up[s], Head(queue[s]))
        /\ queue'[s] = Tail(queue[s]) /\ UNCHANGED <<main, fed>>
        /\ \A t \in Sessions : t # s => up'[t] = up[t] /\ queue'[t] = queue[t]
    BY <1>1, <1>3 DEF DequeueBatch, SendJson
  <2>2. /\ \A t \in Sessions : t # s => SameStream(t)
        /\ cache'[s] = cache[s] /\ builder'[s] = builder[s] /\ failed' = failed
    BY <2>1, BackendAlone
  <2>3. InTransit(s)' = InTransit(s)
    BY <2>1, <2>2, TransitSent
  <2>4. Unmoved(s)
    BY <2>1, <2>2, <2>3, StillUnmoved
  <2> QED  BY <2>2, <2>4, NoneMovesBut
<1> QED  BY <1>2, <1>3 DEF WebsocketThread

LEMMA BuildersAre ==
    ASSUME TypeInv
    PROVE  /\ builder \in [Sessions -> [sid : Sessions \cup {NoSession}, stage : 0 .. 4,
                                        count : Nat, last : 0 .. NBatches]]
           /\ cache \in [Sessions -> Seq(1 .. NBatches)] /\ up \in [Sessions -> Seq(UpEvent)]
BY DEF TypeInv, TypeOK, EngineTypeOK, WireTypeOK

\* The sender, the dispatchers and the end of a task move no batch.
LEMMA QuietMoves ==
    ASSUME TypeInv, NEW s \in Sessions, UNCHANGED clientVars,
           \/ Accept(s) \/ SendQueued(s) \/ SendResult(s) \/ DispatcherThread(s) \/ WaitTimeout(s)
    PROVE  UNCHANGED streamVars
<1>1. UNCHANGED <<main, fed, queue>>
  BY DEF clientVars
<1>2. CASE Accept(s) \/ SendQueued(s) \/ DispatcherThread(s) \/ WaitTimeout(s)
  <2>1. UNCHANGED <<up, cache, builder, failed>>
    BY <1>2 DEF Accept, SendQueued, DispatcherThread, WaitTimeout, FirstRequest, NextRequest,
                EmitRequest, CheckStop, ClearEvent, dispatcherVars, taskVars, wireVars
  <2>2. \A t \in Sessions : SameStream(t)
    BY <1>1, <2>1 DEF SameStream
  <2> QED  BY <2>2, SameUnmoved, NoneMoves
<1>3. CASE SendResult(s)
  <2>1. UNCHANGED <<up, cache, failed>> /\ builder' = [builder EXCEPT ![s].stage = 0]
    BY <1>3 DEF SendResult, dispatcherVars, wireVars
  <2>2. \A t \in Sessions : builder'[t].last = builder[t].last
    BY <2>1, BuildersAre
  <2>3. \A t \in Sessions : SameStream(t)
    BY <1>1, <2>1, <2>2 DEF SameStream
  <2> QED  BY <2>3, SameUnmoved, NoneMoves
<1> QED  BY <1>2, <1>3

\* A session that is not fed shows nothing of its queues.
LEMMA UnfedUnmoved ==
    ASSUME NEW t, main[t] # "feed", UNCHANGED <<main, fed, failed>>,
           builder'[t].last = builder[t].last
    PROVE  Unmoved(t)
BY StillUnmoved

\* The receive loop moves a batch from the websocket to the cache, which the stream
\* does not see; the other events come from sessions that are not feeding.
LEMMA EventMoves ==
    ASSUME TypeInv, HealthInv, StreamInv, NEW s \in Sessions, UNCHANGED clientVars, Receive(s)
    PROVE  UNCHANGED streamVars
<1> DEFINE e == Head(up[s])
<1>1. UNCHANGED <<main, fed, queue>>
  BY DEF clientVars
<1>2. /\ up[s] # <<>> /\ up' = [up EXCEPT ![s] = Tail(up[s])]
      /\ \/ e.ev = "setup" /\ OnSetup(s)
         \/ e.ev = "task" /\ OnTask(s, e.sid)
         \/ e.ev = "batch_data" /\ OnBatchData(e.sid, e.batch)
         \/ e.ev = "disconnect" /\ OnDisconnect(s, e.sid)
  BY DEF Receive
<1>3. /\ up[s] \in Seq(UpEvent) /\ Len(up[s]) \in Nat \ {0} /\ e = up[s][1]
      /\ up'[s] = Tail(up[s]) /\ \A t \in Sessions : t # s => up'[t] = up[t]
  <2>1. up[s] \in Seq(UpEvent)
    BY BuildersAre
  <2>2. Len(up[s]) \in Nat \ {0} /\ e = up[s][1]
    BY <1>2, <2>1, EmptySeq
  <2> QED  BY <1>2, <2>1, <2>2, BuildersAre
<1>4. \A t \in Sessions : t # s => main[t] # "feed"
  BY <1>2, OthersRest
<1>5. main[s] = "feed" => e.ev = "batch_data" /\ e.sid = s /\ s \in bound
  <2>1. main[s] = "feed" => Flowing(s) /\ s \in bound
    BY FeedFlows
  <2> QED  BY <1>3, <2>1 DEF Flowing
<1>6. ASSUME UNCHANGED failed, main[s] # "feed",
             \A t \in Sessions : builder'[t].last = builder[t].last
      PROVE  UNCHANGED streamVars
  BY <1>1, <1>4, <1>6, UnfedUnmoved, NoneMoves
<1>7. CASE e.ev = "setup" /\ OnSetup(s)
  BY <1>5, <1>6, <1>7 DEF OnSetup, taskVars
<1>8. CASE e.ev = "disconnect" /\ OnDisconnect(s, e.sid)
  BY <1>5, <1>6, <1>8 DEF OnDisconnect, taskVars
<1>9. CASE e.ev = "batch_data" /\ OnBatchData(e.sid, e.batch)
  <2>1. UNCHANGED <<builder, failed>>
    BY <1>9 DEF OnBatchData, taskVars
  <2>2. CASE main[s] # "feed"
    BY <1>6, <2>1, <2>2
  <2>3. CASE main[s] = "feed"
    <3>1. cache' = [cache EXCEPT ![s] = Append(cache[s], e.batch)]
      BY <1>5, <1>9, <2>3 DEF OnBatchData
    <3>2. cache'[s] = Append(cache[s], e.batch) /\ queue'[s] = queue[s]
      BY <1>1, <3>1, BuildersAre
    <3>3. InTransit(s)' = InTransit(s)
      BY <1>2, <1>3, <3>2, TransitCached
    <3>4. Unmoved(s)
      BY <1>1, <2>1, <3>3, StillUnmoved
    <3>5. \A t \in Sessions : t # s => Unmoved(t)
      BY <1>1, <1>4, <2>1, UnfedUnmoved
    <3> QED  BY <3>4, <3>5, NoneMoves
  <2> QED  BY <2>2, <2>3
<1>10. CASE e.ev = "task" /\ OnTask(s, e.sid)
  <2>1. main[s] # "feed" /\ UNCHANGED failed
    BY <1>5, <1>10 DEF OnTask
  <2>2. builder' = builder \/ builder' = [builder EXCEPT ![s] = TaskAt(e.sid, 1)]
    BY <1>10 DEF OnTask
  <2>3. \A t \in Sessions : t # s => Unmoved(t)
    <3>1. \A t \in Sessions : t # s => builder'[t].last = builder[t].last
      BY <2>2, BuildersAre
    <3> QED  BY <1>1, <1>4, <2>1, <3>1, UnfedUnmoved
  <2>4. Unmoved(s)
    <3>1. CASE main[s] \in {"join", "done"}
      BY <1>1, <3>1, ClosedUnmoved
    <3>2. CASE main[s] \notin {"join", "done"}
      <4>1. builder[s].last = 0
        <5>1. CASE Healthy
          <6>1. Phase(s) /\ ~Idle(s) /\ ~Done(s)
            BY <1>2, <5>1 DEF HealthInv, PhaseInv, Idle, Done, DisconnectDone, Silent, Wire
          <6>2. ~Working(s)
            BY <1>3, <1>10, WorkingFlows
          <6>3. Fresh(s)
            BY <3>2, <6>1, <6>2, PhaseMain DEF Phase, Closing, Connecting, Setting, Starting
          <6> QED  BY <6>3 DEF Fresh, NoTask, TaskAt
        <5>2. CASE ~Healthy
          <6>1. FailInv
            BY <5>2 DEF StreamInv
          <6>2. Failing(s)
            BY <1>2, <6>1 DEF FailInv, Stopped
          <6> QED  BY <1>3, <1>10, <3>2, <6>2 DEF Failing, Flowing
        <5> QED  BY <5>1, <5>2
      <4>2. builder'[s].last = builder[s].last
        BY <2>2, <4>1, BuildersAre DEF TaskAt
      <4> QED  BY <1>1, <2>1, <4>2, UnfedUnmoved
    <3> QED  BY <3>1, <3>2
  <2> QED  BY <2>3, <2>4, NoneMoves
<1> QED  BY <1>2, <1>7, <1>8, <1>9, <1>10

\* The builder of a session takes the batches of that session, while it is fed.
LEMMA BuilderWorks ==
    ASSUME TypeInv, HealthInv, StreamInv, Healthy, NEW s \in Sessions, builder[s].stage > 0
    PROVE  /\ builder[s].sid = s /\ main[s] \in {"task", "feed"} /\ Working(s)
           /\ cache[s] # <<>> => main[s] = "feed"
<1>1. Working(s)
  BY BuilderStreams DEF HealthInv
<1>2. main[s] = "task" => cache[s] = <<>>
  <2>1. main[s] = "task" => InTransit(s) = <<>>
    BY <1>1, NothingFed DEF Working, Serving, Flowing
  <2> QED  BY <2>1, NothingInTransit
<1> QED  BY <1>1, <1>2 DEF Working, Attending, Serving

\* After a failure nothing is taken from the cache of a session that is fed.
LEMMA BuilderIdles ==
    ASSUME StreamInv, ~Healthy, NEW s \in Sessions, builder[s].stage > 0, ~TaskEnded(s)
    PROVE  /\ main[s] \in {"join", "done"} /\ failed = {s}
           /\ \A t \in Sessions : t # s => main[t] \in {"idle", "done"}
<1>1. FailInv
  BY DEF StreamInv
<1> QED  BY <1>1 DEF FailInv, Failing, Stopped

LEMMA TakeMoves ==
    ASSUME TypeInv, HealthInv, StreamInv, NEW s \in Sessions, UNCHANGED clientVars, TakeBatch(s)
    PROVE  Stream!UseNext(s) \/ UNCHANGED streamVars
<1> DEFINE x == builder[s].sid
<1>1. UNCHANGED <<main, fed, queue>>
  BY DEF clientVars
<1>2. /\ builder[s].stage > 0 /\ ~TaskEnded(s) /\ cache[x] # <<>>
      /\ cache' = [cache EXCEPT ![x] = Tail(cache[x])] /\ UNCHANGED <<failed, up>>
      /\ builder' = [builder EXCEPT ![s] =
             IF builder[s].count + 1 = Stages(s)[builder[s].stage]
             THEN [builder[s] EXCEPT !.stage = @ + 1, !.count = 0, !.last = Head(cache[x])]
             ELSE [builder[s] EXCEPT !.count = @ + 1, !.last = Head(cache[x])]]
  BY DEF TakeBatch, wireVars
<1>3. \A t \in Sessions : t # s => builder'[t] = builder[t]
  BY <1>2, BuildersAre
<1>4. CASE ~Healthy
  <2>1. main[s] \in {"join", "done"} /\ \A t \in Sessions : t # s => main[t] # "feed"
    BY <1>2, <1>4, BuilderIdles
  <2>2. Unmoved(s)
    BY <1>1, <2>1, ClosedUnmoved
  <2>3. \A t \in Sessions : t # s => Unmoved(t)
    BY <1>1, <1>2, <1>3, <2>1, UnfedUnmoved
  <2> QED  BY <2>2, <2>3, NoneMoves
<1>5. CASE Healthy
  <2>1. x = s /\ main[s] = "feed"
    BY <1>2, <1>5, BuilderWorks
  <2>2. cache[s] # <<>> /\ cache'[s] = Tail(cache[s])
    BY <1>2, <2>1, BuildersAre
  <2>3. builder'[s].last = Head(cache[s])
    BY <1>2, <2>1, BuildersAre
  <2>4. /\ InTransit(s) # <<>> /\ Head(InTransit(s)) = Head(cache[s])
        /\ InTransit(s)' = Tail(InTransit(s))
    BY <1>1, <1>2, <2>2, TransitUsed
  <2>5. StreamState(s) = "open" /\ StreamState(s)' = "open"
    BY <1>1, <1>2, <1>5, <2>1 DEF StreamState, Healthy
  <2>6. Used(s)' = Head(cache[s]) /\ Sent(s)' = Sent(s)
    BY <1>1, <2>3, <2>5 DEF Used, Sent, IfOpen
  <2>7. Pending(s) = InTransit(s) /\ Pending(s)' = Tail(InTransit(s))
    BY <1>1, <2>1, <2>4 DEF Pending
  <2>8. \A t \in Sessions : t # s => Unmoved(t)
    <3>1. \A t \in Sessions : t # s => main[t] # "feed"
      BY <2>1, OthersRest
    <3> QED  BY <1>1, <1>2, <1>3, <3>1, UnfedUnmoved
  <2>9. /\ Pending(s) # <<>> /\ Used(s)' = Head(Pending(s)) /\ Pending(s)' = Tail(Pending(s))
        /\ StreamState(s)' = StreamState(s)
    BY <2>4, <2>5, <2>6, <2>7
  <2> QED  BY <2>5, <2>6, <2>8, <2>9, StreamUses
<1> QED  BY <1>4, <1>5

LEMMA FailureMoves ==
    ASSUME TypeInv, HealthInv, StreamInv, NEW s \in Sessions, UNCHANGED clientVars, TaskFails(s)
    PROVE  Stream!Fail(s) \/ UNCHANGED streamVars
<1>1. UNCHANGED <<main, fed, queue>>
  BY DEF clientVars
<1>2. /\ builder[s].stage > 0 /\ ~TaskEnded(s) /\ failed' = failed \cup {s}
      /\ builder' = [builder EXCEPT ![s].stage = Len(Stages(s)) + 1] /\ UNCHANGED <<cache, up>>
  BY DEF TaskFails, dispatcherVars, wireVars
<1>3. \A t \in Sessions : builder'[t].last = builder[t].last
  BY <1>2, BuildersAre
<1>4. CASE ~Healthy
  <2>1. failed' = failed
    BY <1>2, <1>4, BuilderIdles
  <2>2. \A t \in Sessions : SameStream(t)
    BY <1>1, <1>2, <1>3, <2>1 DEF SameStream
  <2> QED  BY <2>2, SameUnmoved, NoneMoves
<1>5. CASE Healthy
  <2>1. main[s] \in {"task", "feed"} /\ failed = {}
    BY <1>2, <1>5, BuilderWorks DEF Healthy
  <2>2. StreamState(s) = "open" /\ StreamState(s)' = "failed"
    BY <1>1, <1>2, <2>1 DEF StreamState
  <2>3. \A t \in Sessions : t # s => SameStream(t)
    BY <1>1, <1>2, <1>3 DEF SameStream
  <2>4. InTransit(s)' = InTransit(s)
    BY <1>1, <1>2, TransitSame
  <2>5. Pending(s)' = Pending(s) /\ Sent(s)' = Sent(s) /\ Used(s)' = Used(s)
    BY <1>1, <1>3, <2>2, <2>4 DEF Pending, Sent, Used, IfOpen
  <2>6. \A t \in Sessions : t # s => Unmoved(t)
    BY <2>3, SameUnmoved
  <2> QED  BY <2>2, <2>5, <2>6, StreamFails
<1> QED  BY <1>4, <1>5

-----------------------------------------------------------------------------
(* The order of the batches is kept as long as no task fails. *)

\* A session that a step leaves alone, as far as the order of its batches tells.
SameOrder(t) ==
    /\ cache'[t] = cache[t] /\ up'[t] = up[t] /\ queue'[t] = queue[t] /\ fed'[t] = fed[t]
    /\ added'[t] = added[t] /\ builder'[t].last = builder[t].last
    /\ HasTask(t)' => HasTask(t)

LEMMA SameOrdered ==
    ASSUME OrderInv, NEW t \in Sessions, SameOrder(t), HasTask(t)'
    PROVE  Ordered(t)'
<1>1. InTransit(t)' = InTransit(t)
  BY TransitSame DEF SameOrder
<1>2. Ordered(t)
  BY DEF OrderInv, SameOrder
<1> QED  BY <1>1, <1>2 DEF Ordered, SameOrder

\* The steps that move no batch of a task.
LEMMA StillOrdered ==
    ASSUME OrderInv, \A t \in Sessions : SameOrder(t) \/ ~HasTask(t)'
    PROVE  OrderInv'
<1>1. ASSUME NEW t \in Sessions, HasTask(t)' PROVE Ordered(t)'
  BY <1>1, SameOrdered
<1> QED  BY <1>1 DEF OrderInv

\* The steps that move a batch of one.
LEMMA OthersOrdered ==
    ASSUME OrderInv, NEW s \in Sessions, Ordered(s)',
           \A t \in Sessions : t # s => SameOrder(t) \/ ~HasTask(t)'
    PROVE  OrderInv'
<1>1. ASSUME NEW t \in Sessions, HasTask(t)' PROVE Ordered(t)'
  <2>1. CASE t = s
    BY <2>1
  <2>2. CASE t # s
    BY <1>1, <2>2, SameOrdered
  <2> QED  BY <2>1, <2>2
<1> QED  BY <1>1 DEF OrderInv

LEMMA BackendOrder ==
    ASSUME UNCHANGED engineVars, NEW t, main'[t] = main[t], fed'[t] = fed[t],
           up'[t] = up[t], queue'[t] = queue[t]
    PROVE  SameOrder(t)
BY DEF SameOrder, HasTask, engineVars, dispatcherVars, taskVars

LEMMA MainKeepsOrder ==
    ASSUME TypeInv, PhaseInv, OrderInv, NEW s \in Sessions, UNCHANGED engineVars,
           \/ Open(s) \/ SendSetup(s, Connected(s)) \/ SendTask(s) \/ TaskAcknowledged(s)
           \/ SendDisconnect(s) \/ Join(s)
    PROVE  OrderInv'
<1>1. /\ main \in [Sessions -> {"idle", "connect", "setup", "task", "feed", "join", "done"}]
      /\ up \in [Sessions -> Seq(UpEvent)]
      /\ fed \in [Sessions -> 0 .. NBatches] /\ queue \in [Sessions -> Seq(BatchEvents)]
  BY DEF TypeInv, TypeOK, ClientTypeOK, WireTypeOK
<1>2. bound' = bound
  BY DEF engineVars
<1>3. \A t \in Sessions : t # s =>
          main'[t] = main[t] /\ fed'[t] = fed[t] /\ up'[t] = up[t] /\ queue'[t] = queue[t]
  BY <1>1 DEF Open, SendSetup, SendTask, TaskAcknowledged, SendDisconnect, Join, SendJson, wireVars
<1>4. SameOrder(s) \/ ~HasTask(s)'
  <2>1. CASE Open(s) \/ SendSetup(s, Connected(s)) \/ SendDisconnect(s) \/ Join(s)
    BY <1>1, <2>1 DEF Open, SendSetup, SendDisconnect, Join, HasTask
  <2>2. CASE SendTask(s)
    <3>1. s \notin bound
      BY <2>2, PhaseMain DEF SendTask, PhaseInv, Setting, Fresh
    <3> QED  BY <1>2, <3>1 DEF HasTask
  <2>3. CASE TaskAcknowledged(s)
    BY <2>3 DEF TaskAcknowledged, SameOrder, HasTask, engineVars, dispatcherVars, taskVars, wireVars
  <2> QED  BY <2>1, <2>2, <2>3
<1>5. \A t \in Sessions : t # s => SameOrder(t)
  BY <1>3, BackendOrder
<1> QED  BY <1>4, <1>5, StillOrdered

\* Numbers that follow one another still do when the next one is added.
LEMMA OrderGrows ==
    ASSUME NEW v \in Seq(Nat), NEW l \in Nat, NEW n \in Nat, l + Len(v) = n,
           \A i \in 1 .. Len(v) : v[i] = l + i
    PROVE  /\ l + Len(Append(v, n + 1)) = n + 1
           /\ \A i \in 1 .. Len(Append(v, n + 1)) : Append(v, n + 1)[i] = l + i
<1> DEFINE w == Append(v, n + 1)
           k == Len(v)
<1>1. Len(w) = k + 1 /\ w[k + 1] = n + 1 /\ \A i \in 1 .. k : w[i] = v[i]
  BY AppendProperties
<1>2. k \in Nat
  BY LengthsAre
<1>3. l + k = n /\ \A i \in 1 .. k : v[i] = l + i
  OBVIOUS
<1> HIDE DEF w, k
<1>4. l + Len(w) = n + 1
  BY <1>1, <1>2, <1>3
<1>5. ASSUME NEW i \in 1 .. Len(w) PROVE w[i] = l + i
  <2>1. i \in 1 .. k \/ i = k + 1
    BY <1>1, <1>2
  <2> QED  BY <1>1, <1>2, <1>3, <2>1
<1> QED  BY <1>4, <1>5 DEF w

\* And when the first one is taken.
LEMMA OrderShrinks ==
    ASSUME NEW v \in Seq(Nat), v # <<>>, NEW l \in Nat, NEW n \in Nat, l + Len(v) = n,
           \A i \in 1 .. Len(v) : v[i] = l + i
    PROVE  /\ Head(v) = l + 1 /\ l + 1 + Len(Tail(v)) = n
           /\ \A i \in 1 .. Len(Tail(v)) : Tail(v)[i] = l + 1 + i
<1> DEFINE w == Tail(v)
           k == Len(v)
<1>1. k \in Nat \ {0} /\ Head(v) = v[1]
  BY EmptySeq
<1>2. Len(w) = k - 1 /\ \A i \in 1 .. Len(w) : w[i] = v[i + 1]
  BY HeadTailProperties
<1>3. l + k = n /\ \A i \in 1 .. k : v[i] = l + i
  OBVIOUS
<1> HIDE DEF w, k
<1>4. Head(v) = l + 1 /\ l + 1 + Len(w) = n
  BY <1>1, <1>2, <1>3
<1>5. ASSUME NEW i \in 1 .. Len(w) PROVE w[i] = l + 1 + i
  <2>1. i + 1 \in 1 .. k /\ l + (i + 1) = l + 1 + i
    BY <1>1, <1>2
  <2> QED  BY <1>2, <1>3, <2>1
<1> QED  BY <1>4, <1>5 DEF w

LEMMA NumbersTyped ==
    ASSUME TypeInv, NEW s \in Sessions
    PROVE  /\ InTransit(s) \in Seq(Nat) /\ builder[s].last \in Nat /\ fed[s] \in Nat
           /\ Len(cache[s]) \in Nat /\ added[s] \in Nat
<1>1. builder[s].last \in 0 .. NBatches /\ fed[s] \in 0 .. NBatches /\ added[s] \in Nat
  BY DEF TypeInv, TypeOK, EngineTypeOK, ClientTypeOK
<1>2. InTransit(s) \in Seq(Nat) /\ Len(cache[s]) \in Nat
  BY TransitIs
<1>3. builder[s].last \in Nat /\ fed[s] \in Nat
  BY <1>1, WireAssumption
<1> QED  BY <1>1, <1>2, <1>3

LEMMA FeedKeepsOrder ==
    ASSUME TypeInv, PhaseInv, OrderInv, NEW s \in Sessions, UNCHANGED engineVars, FeedBatch(s)
    PROVE  OrderInv'
<1>1. fed \in [Sessions -> 0 .. NBatches] /\ queue \in [Sessions -> Seq(BatchEvents)]
  BY DEF TypeInv, TypeOK, ClientTypeOK
<1>2. main[s] = "feed" /\ Working(s)
  BY PhaseMain DEF FeedBatch, PhaseInv
<1>3. sid[s] = s /\ s \in bound
  BY <1>2, WorkingFlows
<1>4. fed[s] \in Nat /\ fed[s] + 1 \in 1 .. NBatches
  <2>1. fed[s] < FetchLimit /\ FetchLimit <= NBatches /\ FetchLimit \in Nat
    BY ClientAssumption, WireAssumption DEF FeedBatch, FetchLimit
  <2> QED  BY <1>1, <2>1, WireAssumption
<1> DEFINE e == BatchEvent(s, fed[s] + 1)
<1>5. e \in BatchEvents /\ e.batch = fed[s] + 1
  BY <1>4, EventsTyped DEF BatchEvent
<1>6. /\ UNCHANGED <<main, up>> /\ fed'[s] = fed[s] + 1 /\ queue'[s] = Append(queue[s], e)
      /\ \A t \in Sessions : t # s => fed'[t] = fed[t] /\ queue'[t] = queue[t]
  BY <1>1, <1>3 DEF FeedBatch, wireVars
<1> HIDE DEF e
<1>7. UNCHANGED <<cache, added, builder>>
  BY DEF engineVars, dispatcherVars, taskVars
<1>8. InTransit(s)' = Append(InTransit(s), fed[s] + 1)
  BY <1>5, <1>6, <1>7, TransitFed
<1>9. Ordered(s)
  BY <1>2, <1>3 DEF OrderInv, HasTask
<1>10. Ordered(s)'
  <2> DEFINE v == InTransit(s)
             l == builder[s].last
             n == fed[s]
  <2>1. v \in Seq(Nat) /\ l \in Nat /\ n \in Nat
    BY NumbersTyped
  <2>2. l + Len(v) = n /\ \A i \in 1 .. Len(v) : v[i] = l + i
    BY <1>9 DEF Ordered
  <2> HIDE DEF v, l, n
  <2>3. /\ l + Len(Append(v, n + 1)) = n + 1
        /\ \A i \in 1 .. Len(Append(v, n + 1)) : Append(v, n + 1)[i] = l + i
    BY <2>1, <2>2, OrderGrows
  <2> QED  BY <1>6, <1>7, <1>8, <1>9, <2>3 DEF Ordered, v, l, n
<1>11. \A t \in Sessions : t # s => SameOrder(t)
  BY <1>6, BackendOrder
<1> QED  BY <1>10, <1>11, OthersOrdered

LEMMA WebsocketKeepsOrder ==
    ASSUME TypeInv, OrderInv, NEW s \in Sessions, UNCHANGED engineVars, WebsocketThread(s)
    PROVE  OrderInv'
<1>1. up \in [Sessions -> Seq(UpEvent)] /\ queue \in [Sessions -> Seq(BatchEvents)]
  BY DEF TypeInv, TypeOK, ClientTypeOK, WireTypeOK
<1>2. CASE HandleEvent(s)
  <2>1. UNCHANGED <<main, queue, fed, up>>
    BY <1>2 DEF HandleEvent
  <2>2. \A t \in Sessions : SameOrder(t)
    BY <2>1, BackendOrder
  <2> QED  BY <2>2, StillOrdered
<1>3. CASE DequeueBatch(s)
  <2>1. /\ queue[s] # <<>> /\ up'[s] = Append(up[s], Head(queue[s]))
        /\ queue'[s] = Tail(queue[s]) /\ UNCHANGED <<main, fed>>
        /\ \A t \in Sessions : t # s => up'[t] = up[t] /\ queue'[t] = queue[t]
    BY <1>1, <1>3 DEF DequeueBatch, SendJson
  <2>2. UNCHANGED <<cache, added, builder, bound>>
    BY DEF engineVars, dispatcherVars, taskVars
  <2>3. InTransit(s)' = InTransit(s)
    BY <2>1, <2>2, TransitSent
  <2>4. \A t \in Sessions : t # s => SameOrder(t)
    BY <2>1, BackendOrder
  <2>5. CASE HasTask(s)
    <3>1. Ordered(s)'
      BY <2>1, <2>2, <2>3, <2>5 DEF OrderInv, Ordered
    <3> QED  BY <2>4, <3>1, OthersOrdered
  <2>6. CASE ~HasTask(s)
    <3>1. ~HasTask(s)'
      BY <2>1, <2>2, <2>6 DEF HasTask
    <3> QED  BY <2>4, <3>1, StillOrdered
  <2> QED  BY <2>5, <2>6
<1> QED  BY <1>2, <1>3 DEF WebsocketThread

\* The sender, the dispatchers and the end of a task.
LEMMA QuietKeepsOrder ==
    ASSUME TypeInv, OrderInv, NEW s \in Sessions, UNCHANGED clientVars,
           \/ Accept(s) \/ SendQueued(s) \/ SendResult(s) \/ DispatcherThread(s) \/ WaitTimeout(s)
    PROVE  OrderInv'
<1>1. UNCHANGED <<main, fed, queue>>
  BY DEF clientVars
<1>2. UNCHANGED <<up, cache, added, bound>>
  BY DEF Accept, SendQueued, SendResult, DispatcherThread, WaitTimeout, FirstRequest, NextRequest,
         EmitRequest, CheckStop, ClearEvent, dispatcherVars, taskVars, wireVars
<1>3. builder' = builder \/ builder' = [builder EXCEPT ![s].stage = 0]
  BY DEF Accept, SendQueued, SendResult, DispatcherThread, WaitTimeout, FirstRequest, NextRequest,
         EmitRequest, CheckStop, ClearEvent, taskVars
<1>4. \A t \in Sessions : builder'[t].last = builder[t].last
  BY <1>3, BuildersAre
<1>5. \A t \in Sessions : SameOrder(t)
  BY <1>1, <1>2, <1>4 DEF SameOrder, HasTask
<1> QED  BY <1>5, StillOrdered

\* A batch goes from the websocket to the cache of its session; a task that starts
\* has none.
LEMMA ReceiveKeepsOrder ==
    ASSUME TypeInv, HealthInv, StreamInv, Healthy, NEW s \in Sessions, UNCHANGED clientVars,
           Receive(s)
    PROVE  OrderInv'
<1> DEFINE e == Head(up[s])
<1>0. OrderInv /\ Phase(s)
  BY DEF StreamInv, HealthInv, PhaseInv
<1>1. UNCHANGED <<main, fed, queue>>
  BY DEF clientVars
<1>2. /\ up[s] # <<>> /\ up' = [up EXCEPT ![s] = Tail(up[s])]
      /\ \/ e.ev = "setup" /\ OnSetup(s)
         \/ e.ev = "task" /\ OnTask(s, e.sid)
         \/ e.ev = "batch_data" /\ OnBatchData(e.sid, e.batch)
         \/ e.ev = "disconnect" /\ OnDisconnect(s, e.sid)
  BY DEF Receive
<1>3. /\ up[s] \in Seq(UpEvent) /\ Len(up[s]) \in Nat \ {0} /\ e = up[s][1]
      /\ up'[s] = Tail(up[s])
  <2>1. up[s] \in Seq(UpEvent)
    BY BuildersAre
  <2>2. Len(up[s]) \in Nat \ {0} /\ e = up[s][1]
    BY <1>2, <2>1, EmptySeq
  <2> QED  BY <1>2, <2>1, <2>2, BuildersAre
<1>4. \A t \in Sessions : t # s => ~HasTask(t)'
  BY <1>1, <1>2, OthersRest DEF HasTask
<1>5. Working(s) => e.ev = "batch_data" /\ e.sid = s /\ s \in bound
  BY <1>3, WorkingFlows
<1>6. HasTask(s) => Working(s)
  BY <1>0, PhaseMain DEF HasTask, Starting, Fresh
<1>7. ASSUME ~Working(s), bound' \subseteq bound
      PROVE  OrderInv'
  <2>1. ~HasTask(s)'
    BY <1>1, <1>6, <1>7 DEF HasTask
  <2> QED  BY <1>0, <1>4, <2>1, StillOrdered
<1>8. CASE e.ev = "setup" /\ OnSetup(s)
  BY <1>5, <1>7, <1>8 DEF OnSetup
<1>9. CASE e.ev = "disconnect" /\ OnDisconnect(s, e.sid)
  BY <1>5, <1>7, <1>9 DEF OnDisconnect
<1>10. CASE e.ev = "batch_data" /\ OnBatchData(e.sid, e.batch)
  <2>1. UNCHANGED <<builder, bound>>
    BY <1>10 DEF OnBatchData, taskVars
  <2>2. CASE ~Working(s)
    BY <1>7, <2>1, <2>2
  <2>3. CASE Working(s)
    <3>1. /\ cache' = [cache EXCEPT ![s] = Append(cache[s], e.batch)]
          /\ added' = [added EXCEPT ![s] = added[s] + 1]
      BY <1>5, <1>10, <2>3 DEF OnBatchData
    <3>2. cache'[s] = Append(cache[s], e.batch) /\ queue'[s] = queue[s]
      BY <1>1, <3>1, BuildersAre
    <3>3. InTransit(s)' = InTransit(s)
      BY <1>2, <1>3, <3>2, TransitCached
    <3>4. added'[s] = added[s] + 1
      BY <3>1 DEF TypeInv, TypeOK, EngineTypeOK
    <3>5. Len(cache'[s]) = Len(cache[s]) + 1
      <4>1. e.batch \in 1 .. NBatches /\ cache[s] \in Seq(1 .. NBatches)
        <5>1. e \in UpEvent
          BY <1>2, <1>3, HeadTailProperties
        <5> QED  BY <1>5, <2>3, <5>1, EventFields, BuildersAre
      <4> QED  BY <3>2, <4>1, AppendProperties
    <3>6. Ordered(s)
      BY <1>0, <2>3 DEF OrderInv, HasTask, Working, Attending, Serving
    <3>7. builder'[s].last + Len(cache'[s]) = added'[s]
      <4> DEFINE k == Len(cache[s])
                 m == Len(cache'[s])
                 l == builder[s].last
      <4>1. l \in Nat /\ k \in Nat /\ added[s] \in Nat
        BY NumbersTyped
      <4>2. l + k = added[s] /\ m = k + 1
        BY <3>5, <3>6 DEF Ordered
      <4> HIDE DEF k, l, m
      <4>3. l + m = added[s] + 1
        BY <4>1, <4>2
      <4> QED  BY <2>1, <3>4, <4>3 DEF l, m
    <3>8. Ordered(s)'
      BY <1>1, <2>1, <3>3, <3>6, <3>7 DEF Ordered
    <3> QED  BY <1>0, <1>4, <3>8, OthersOrdered
  <2> QED  BY <2>2, <2>3
<1>11. CASE e.ev = "task" /\ OnTask(s, e.sid)
  <2>1. Setting(s) \/ Starting(s) \/ main[s] \notin {"task", "feed"}
    BY <1>0, <1>5, <1>11, PhaseMain
  <2>2. CASE Starting(s)
    <3>1. /\ Fresh(s) /\ up[s] = <<Event("task", s)>> /\ s \in clients
      BY <2>2 DEF Starting, Wire
    <3>2. e = Event("task", s) /\ e.sid = s /\ Tail(up[s]) = <<>>
      BY <3>1, ShortSeqs, EventFields
    <3>3. up'[s] = <<>>
      BY <1>3, <3>2
    <3>4. InitDatabase(s) /\ builder' = [builder EXCEPT ![s] = TaskAt(s, 1)]
      BY <1>11, <3>1, <3>2 DEF OnTask
    <3>5. cache' = [cache EXCEPT ![s] = <<>>] /\ added' = [added EXCEPT ![s] = 0]
      BY <3>1, <3>4, Zenon DEF InitDatabase, Fresh
    <3>6. cache'[s] = <<>> /\ added'[s] = 0 /\ builder'[s].last = 0
      BY <3>4, <3>5 DEF TypeInv, TypeOK, EngineTypeOK, TaskAt
    <3>7. queue'[s] = <<>> /\ fed'[s] = 0
      BY <1>1, <3>1 DEF Fresh
    <3>8. InTransit(s)' = <<>>
      BY <3>3, <3>6, <3>7, NumbersNone DEF InTransit, BatchNumbers
    <3>9. Ordered(s)'
      BY <3>6, <3>7, <3>8 DEF Ordered
    <3> QED  BY <1>0, <1>4, <3>9, OthersOrdered
  <2>3. CASE main[s] \notin {"task", "feed"}
    <3>1. ~HasTask(s)'
      BY <1>1, <2>3 DEF HasTask
    <3> QED  BY <1>0, <1>4, <3>1, StillOrdered
  <2>4. CASE Setting(s)
    BY <2>3, <2>4 DEF Setting
  <2> QED  BY <2>1, <2>2, <2>3, <2>4
<1> QED  BY <1>2, <1>8, <1>9, <1>10, <1>11

LEMMA TakeKeepsOrder ==
    ASSUME TypeInv, HealthInv, StreamInv, Healthy, NEW s \in Sessions, UNCHANGED clientVars,
           TakeBatch(s)
    PROVE  OrderInv'
<1> DEFINE x == builder[s].sid
<1>0. OrderInv
  BY DEF StreamInv
<1>1. UNCHANGED <<main, fed, queue>>
  BY DEF clientVars
<1>2. /\ builder[s].stage > 0 /\ cache[x] # <<>>
      /\ cache' = [cache EXCEPT ![x] = Tail(cache[x])] /\ UNCHANGED <<up, added, bound>>
      /\ builder' = [builder EXCEPT ![s] =
             IF builder[s].count + 1 = Stages(s)[builder[s].stage]
             THEN [builder[s] EXCEPT !.stage = @ + 1, !.count = 0, !.last = Head(cache[x])]
             ELSE [builder[s] EXCEPT !.count = @ + 1, !.last = Head(cache[x])]]
  BY DEF TakeBatch, wireVars
<1>3. x = s /\ Working(s)
  BY <1>2, BuilderWorks
<1>4. cache[s] # <<>> /\ cache'[s] = Tail(cache[s])
  BY <1>2, <1>3, BuildersAre
<1>5. builder'[s].last = Head(cache[s])
  BY <1>2, <1>3, BuildersAre
<1>6. /\ InTransit(s) # <<>> /\ Head(InTransit(s)) = Head(cache[s])
      /\ InTransit(s)' = Tail(InTransit(s))
  BY <1>1, <1>2, <1>4, TransitUsed
<1>7. Ordered(s)
  BY <1>0, <1>3 DEF OrderInv, HasTask, Working, Attending, Serving
<1> DEFINE v == InTransit(s)
           l == builder[s].last
           n == fed[s]
           k == Len(cache[s])
<1>8. v \in Seq(Nat) /\ l \in Nat /\ n \in Nat /\ k \in Nat /\ added[s] \in Nat
  BY NumbersTyped
<1>9. l + Len(v) = n /\ (\A i \in 1 .. Len(v) : v[i] = l + i) /\ l + k = added[s] /\ v # <<>>
  BY <1>6, <1>7 DEF Ordered
<1>10. Len(cache'[s]) = k - 1
  <2>1. cache[s] \in Seq(Nat)
    BY TransitIs
  <2> QED  BY <1>4, <2>1, HeadTailProperties
<1> DEFINE m == Len(cache'[s])
<1>11. m = k - 1 /\ builder'[s].last = Head(v) /\ InTransit(s)' = Tail(v)
  BY <1>5, <1>6, <1>10
<1>12. fed'[s] = n /\ added'[s] = added[s]
  BY <1>1, <1>2
<1> HIDE DEF v, l, n, k, m
<1>13. /\ Head(v) = l + 1 /\ l + 1 + Len(Tail(v)) = n
       /\ \A i \in 1 .. Len(Tail(v)) : Tail(v)[i] = l + 1 + i
  BY <1>8, <1>9, OrderShrinks
<1>14. l + 1 + m = added[s]
  BY <1>8, <1>9, <1>11
<1>15. builder'[s].last = l + 1
  BY <1>11, <1>13
<1>16. Ordered(s)'
  BY <1>11, <1>12, <1>13, <1>14, <1>15 DEF Ordered, m
<1>17. \A t \in Sessions : t # s => ~HasTask(t)'
  BY <1>1, <1>2, OthersRest DEF HasTask
<1> QED  BY <1>0, <1>16, <1>17, OthersOrdered

-----------------------------------------------------------------------------
(* A task fails. *)

LEMMA NoSetupAppend ==
    ASSUME NEW q \in Seq(DownEvent), NEW e \in DownEvent, e.ev # "ack_setup", NoSetupIn(q)
    PROVE  NoSetupIn(Append(q, e))
<1> DEFINE v == Append(q, e)
<1>1. Len(v) = Len(q) + 1 /\ v[Len(q) + 1] = e /\ \A i \in 1 .. Len(q) : v[i] = q[i]
  BY AppendProperties
<1>2. Len(q) \in Nat
  BY LenProperties
<1> HIDE DEF v
<1>3. ASSUME NEW i \in 1 .. Len(v) PROVE v[i].ev # "ack_setup"
  <2>1. i \in 1 .. Len(q) \/ i = Len(q) + 1
    BY <1>1, <1>2
  <2> QED  BY <1>1, <2>1 DEF NoSetupIn
<1> QED  BY <1>3 DEF NoSetupIn, v

LEMMA NoSetupTail ==
    ASSUME NEW q \in Seq(DownEvent), q # <<>>, NoSetupIn(q)
    PROVE  Head(q).ev # "ack_setup" /\ NoSetupIn(Tail(q))
<1> DEFINE v == Tail(q)
<1>1. Len(q) \in Nat \ {0} /\ Head(q) = q[1]
  BY EmptySeq
<1>2. Len(v) = Len(q) - 1 /\ \A i \in 1 .. Len(v) : v[i] = q[i + 1]
  BY HeadTailProperties
<1> HIDE DEF v
<1>3. ASSUME NEW i \in 1 .. Len(v) PROVE v[i].ev # "ack_setup"
  <2>1. i + 1 \in 1 .. Len(q)
    BY <1>1, <1>2
  <2> QED  BY <1>2, <2>1 DEF NoSetupIn
<1> QED  BY <1>1, <1>3 DEF NoSetupIn, v

\* No acknowledgement of the setup is under way to a session whose task works.
LEMMA WorkingIsSet ==
    ASSUME NEW s \in Sessions, Working(s)
    PROVE  NoSetupIn(Queued(s)) /\ NoSetupIn(down[s])
<1>1. NoSetupIn(<<>>)
  BY DEF NoSetupIn
<1>2. ASSUME NEW e, e.ev # "ack_setup" PROVE NoSetupIn(<<e>>)
  BY <1>2 DEF NoSetupIn
<1>3. ASSUME NEW e, NEW f, e.ev # "ack_setup", f.ev # "ack_setup" PROVE NoSetupIn(<<e, f>>)
  BY <1>3 DEF NoSetupIn
<1>4. /\ NoSetupIn(<<Event("ack_task", s)>>) /\ NoSetupIn(<<Event("request_data", s)>>)
      /\ NoSetupIn(<<Event("result", s)>>)
  BY <1>2, EventFields
<1>5. NoSetupIn(<<Event("ack_task", s), Event("request_data", s)>>)
  BY <1>3, EventFields
<1>6. AckTask(s) = <<>> \/ AckTask(s) = <<Event("ack_task", s)>>
  BY DEF AckTask
<1>7. \/ Append(AckTask(s), Event("request_data", s)) = <<Event("request_data", s)>>
      \/ Append(AckTask(s), Event("request_data", s))
             = <<Event("ack_task", s), Event("request_data", s)>>
  BY <1>6, ShortSeqs
<1>8. NoSetupIn(AckTask(s)) /\ NoSetupIn(Append(AckTask(s), Event("request_data", s)))
  BY <1>1, <1>4, <1>5, <1>6, <1>7
<1>9. CASE Streaming(s)
  BY <1>1, <1>4, <1>8, <1>9
     DEF Streaming, NothingUnderWay, RequestUnderWay, BatchUnderWay, Silent, Wire
<1>10. CASE Completing(s)
  BY <1>1, <1>4, <1>10 DEF Completing, Silent, Wire
<1> QED  BY <1>9, <1>10 DEF Working

LEMMA FailureStops ==
    ASSUME TypeInv, HealthInv, StreamInv, Healthy, NEW s \in Sessions, UNCHANGED clientVars,
           TaskFails(s)
    PROVE  FailInv'
<1>1. UNCHANGED <<main, thread, sid, fed, queue>>
  BY DEF clientVars
<1>2. /\ builder[s].stage > 0 /\ failed' = failed \cup {s}
      /\ builder' = [builder EXCEPT ![s].stage = Len(Stages(s)) + 1]
      /\ UNCHANGED <<sender, active, current, queues, receiver, bound, cache, up, down>>
  BY DEF TaskFails, dispatcherVars, senderVars, wireVars
<1>3. Working(s) /\ s \in Running /\ PhaseInv
  BY <1>2, BuilderStreams DEF HealthInv
<1>4. failed' = {s}
  BY <1>2 DEF Healthy
<1>5. TaskEnded(s)'
  <2>1. builder'[s].stage = Len(Stages(s)) + 1
    BY <1>2, BuildersAre
  <2>2. Stages(s)' = Stages(s) /\ Len(Stages(s)) \in Nat
    BY StagesTyped DEF Stages
  <2> QED  BY <2>1, <2>2 DEF TaskEnded
<1>6. Flowing(s)
  <2>1. main[s] = "task" => Flowing(s)
    BY <1>3, NothingFed DEF Working, Serving
  <2> QED  BY <1>3, <2>1, WorkingFlows DEF Flowing
<1>7. Flowing(s)'
  <2>1. InTransit(s)' = InTransit(s)
    BY <1>1, <1>2, TransitSame
  <2> QED  BY <1>1, <1>2, <1>6, <2>1 DEF Flowing
<1>8. Failing(s)'
  <2>1. Served(s)' /\ Queued(s)' = Queued(s)
    BY <1>2, <1>3, WorkingFlows DEF Served, Queued
  <2>2. NoSetupIn(Queued(s))' /\ NoSetupIn(down[s])'
    BY <1>2, <1>3, <2>1, WorkingIsSet DEF NoSetupIn
  <2>3. main[s] \in {"task", "feed"} /\ sid[s] = s /\ s \in bound
    BY <1>3 DEF Working, Attending, Serving
  <2> QED  BY <1>1, <1>2, <1>5, <1>7, <2>1, <2>2, <2>3 DEF Failing
<1>9. ASSUME NEW u \in Sessions, u # s PROVE Stopped(u)'
  <2>1. Resting(u)
    BY <1>3, <1>9, PhaseMain DEF PhaseInv, OneRuns
  <2>2. builder'[u] = builder[u]
    BY <1>2, <1>9, BuildersAre
  <2> QED  BY <1>1, <1>2, <2>1, <2>2, RestingRests DEF Stopped
<1> QED  BY <1>4, <1>8, <1>9 DEF FailInv

-----------------------------------------------------------------------------
(* After the failure: only the session whose task has failed goes on. *)

\* The failed session and the others.
FailedAt(r) ==
    failed = {r} /\ Failing(r) /\ \A u \in Sessions : u # r => Stopped(u)

LEMMA FlowingKept ==
    ASSUME NEW t, Flowing(t), main'[t] = main[t], fed'[t] = fed[t], up'[t] = up[t],
           queue'[t] = queue[t], cache'[t] = cache[t]
    PROVE  Flowing(t)'
<1>1. InTransit(t)' = InTransit(t)
  BY TransitSame
<1> QED  BY <1>1 DEF Flowing

\* A backend that waits for its acknowledgement has no batch.
LEMMA TaskHasNone ==
    ASSUME TypeInv, NEW t \in Sessions, Flowing(t), main[t] = "task"
    PROVE  queue[t] = <<>> /\ up[t] = <<>> /\ cache[t] = <<>>
BY NothingInTransit DEF Flowing

LEMMA MainAfterFailure ==
    ASSUME TypeInv, NEW r \in Sessions, FailedAt(r), NEW s \in Sessions, UNCHANGED engineVars,
           MainThread(s, Connected(s))
    PROVE  FailedAt(r)'
<1>1. /\ main \in [Sessions -> {"idle", "connect", "setup", "task", "feed", "join", "done"}]
      /\ up \in [Sessions -> Seq(UpEvent)] /\ sid \in [Sessions -> Sessions \cup {NoSession}]
      /\ fed \in [Sessions -> 0 .. NBatches] /\ queue \in [Sessions -> Seq(BatchEvents)]
  BY DEF TypeInv, TypeOK, ClientTypeOK, WireTypeOK
<1>2. /\ UNCHANGED <<sender, active, current, queues, receiver, bound, cache, builder, failed>>
      /\ UNCHANGED <<thread, down>>
  BY DEF engineVars, senderVars, dispatcherVars, taskVars, MainThread, SendSetup, SendTask,
         TaskAcknowledged, FeedBatch, SendDisconnect, Join, wireVars
<1>3. main[s] \notin {"idle", "done"}
  BY DEF MainThread, SendSetup, SendTask, TaskAcknowledged, FeedBatch, SendDisconnect, Join
<1>4. s = r
  BY <1>3 DEF FailedAt, Stopped
<1>5. \A u \in Sessions : u # s => main'[u] = main[u] /\ up'[u] = up[u]
  BY <1>1 DEF MainThread, SendSetup, SendTask, TaskAcknowledged, FeedBatch, SendDisconnect, Join,
              SendJson, wireVars
<1>6. \A u \in Sessions : u # r => Stopped(u)'
  BY <1>2, <1>4, <1>5 DEF FailedAt, Stopped
<1>7. Failing(s) /\ main[s] # "done"
  BY <1>3, <1>4 DEF FailedAt
<1>8. Failing(s)'
  <2>1. CASE main'[s] \in {"join", "done"}
    BY <2>1 DEF Failing
  <2>2. CASE main'[s] \notin {"join", "done"}
    <3>1. TaskAcknowledged(s) \/ FeedBatch(s)
      BY <1>1, <1>7, <2>2
         DEF MainThread, SendSetup, SendTask, SendDisconnect, Join, Failing
    <3>2. main'[s] = "feed" /\ UNCHANGED <<sid, up>>
      BY <1>1, <3>1 DEF TaskAcknowledged, FeedBatch, wireVars
    <3>3. main[s] \in {"task", "feed"}
      BY <3>1 DEF TaskAcknowledged, FeedBatch
    <3>4. /\ sid[s] = s /\ s \in bound /\ Served(s) /\ Flowing(s)
          /\ builder[s].stage = 0 \/ TaskEnded(s)
          /\ NoSetupIn(Queued(s)) /\ NoSetupIn(down[s])
      BY <1>7, <3>3 DEF Failing
    <3>5. \A i \in 1 .. Len(queue'[s]) : queue'[s][i].sid = s
      <4>1. CASE TaskAcknowledged(s)
        BY <3>4, <4>1 DEF TaskAcknowledged, Flowing
      <4>2. CASE FeedBatch(s)
        <5> DEFINE e == BatchEvent(s, fed[s] + 1)
                   q == queue[s]
        <5>1. queue'[s] = Append(q, e)
          BY <1>1, <3>4, <4>2 DEF FeedBatch
        <5>2. e.sid = s
          BY DEF BatchEvent
        <5>3. \A i \in 1 .. Len(q) : q[i].sid = s
          BY <3>4 DEF Flowing
        <5>4. q \in Seq(BatchEvents \cup {e}) /\ e \in BatchEvents \cup {e}
          BY <1>1, SeqMonotonic
        <5> HIDE DEF e, q
        <5>5. /\ Len(Append(q, e)) = Len(q) + 1 /\ Append(q, e)[Len(q) + 1] = e
              /\ \A i \in 1 .. Len(q) : Append(q, e)[i] = q[i]
          BY <5>4, AppendProperties
        <5>6. Len(q) \in Nat
          BY <5>4, LenProperties
        <5> DEFINE v == Append(q, e)
        <5> HIDE DEF v
        <5>7. /\ Len(v) = Len(q) + 1 /\ v[Len(q) + 1] = e
              /\ \A i \in 1 .. Len(q) : v[i] = q[i]
          BY <5>5 DEF v
        <5>8. ASSUME NEW i \in 1 .. Len(v) PROVE v[i].sid = s
          <6>1. i \in 1 .. Len(q) \/ i = Len(q) + 1
            BY <5>6, <5>7
          <6> QED  BY <5>2, <5>3, <5>7, <6>1
        <5> QED  BY <5>1, <5>8 DEF v
      <4> QED  BY <3>1, <4>1, <4>2
    <3>6. Flowing(s)'
      BY <3>2, <3>4, <3>5 DEF Flowing
    <3>7. /\ Served(s)' /\ Queued(s)' = Queued(s) /\ down'[s] = down[s]
          /\ builder'[s].stage = 0 \/ TaskEnded(s)'
      BY <1>2, <3>4 DEF Served, Queued, TaskEnded, Stages
    <3>8. NoSetupIn(Queued(s))' /\ NoSetupIn(down[s])'
      BY <3>4, <3>7 DEF NoSetupIn
    <3> QED  BY <1>2, <3>2, <3>4, <3>6, <3>7, <3>8 DEF Failing
  <2> QED  BY <2>1, <2>2
<1> QED  BY <1>2, <1>4, <1>6, <1>8 DEF FailedAt

LEMMA WebsocketAfterFailure ==
    ASSUME TypeInv, NEW r \in Sessions, FailedAt(r), NEW s \in Sessions, UNCHANGED engineVars,
           WebsocketThread(s)
    PROVE  FailedAt(r)'
<1>1. /\ thread \in [Sessions -> {"off", "service", "dequeue", "ended"}]
      /\ up \in [Sessions -> Seq(UpEvent)] /\ sid \in [Sessions -> Sessions \cup {NoSession}]
      /\ queue \in [Sessions -> Seq(BatchEvents)] /\ down \in [Sessions -> Seq(DownEvent)]
  BY DEF TypeInv, TypeOK, ClientTypeOK, WireTypeOK
<1>2. /\ UNCHANGED <<sender, active, current, queues, receiver, bound, cache, builder, failed>>
      /\ UNCHANGED <<main, fed>>
  BY DEF engineVars, senderVars, dispatcherVars, taskVars, WebsocketThread, HandleEvent,
         DequeueBatch
<1>3. s = r
  BY DEF FailedAt, Stopped, WebsocketThread, HandleEvent, DequeueBatch
<1>4. \A u \in Sessions : u # s => thread'[u] = thread[u] /\ up'[u] = up[u]
  BY <1>1 DEF WebsocketThread, HandleEvent, DequeueBatch, SendJson
<1>5. \A u \in Sessions : u # r => Stopped(u)'
  BY <1>2, <1>3, <1>4 DEF FailedAt, Stopped
<1>6. Failing(s)'
  <2>1. CASE main[s] \in {"join", "done"}
    BY <1>2, <2>1 DEF Failing
  <2>2. CASE main[s] \notin {"join", "done"}
    <3>1. /\ main[s] \in {"task", "feed"} /\ sid[s] = s /\ s \in bound /\ Served(s) /\ Flowing(s)
          /\ builder[s].stage = 0 \/ TaskEnded(s)
          /\ NoSetupIn(Queued(s)) /\ NoSetupIn(down[s])
      BY <1>3, <2>2 DEF FailedAt, Failing
    <3>2. /\ Served(s)' /\ Queued(s)' = Queued(s)
          /\ builder'[s].stage = 0 \/ TaskEnded(s)'
      BY <1>2, <3>1 DEF Served, Queued, TaskEnded, Stages
    <3>3. NoSetupIn(Queued(s))'
      BY <3>1, <3>2 DEF NoSetupIn
    <3>4. CASE HandleEvent(s)
      <4>1. /\ down[s] # <<>> /\ down'[s] = Tail(down[s]) /\ UNCHANGED <<queue, up>>
            /\ sid'[s] = IF Head(down[s]).ev = "ack_setup" THEN Head(down[s]).sid ELSE sid[s]
        BY <1>1, <3>4 DEF HandleEvent
      <4>2. Head(down[s]).ev # "ack_setup" /\ NoSetupIn(Tail(down[s]))
        <5>1. down[s] \in Seq(DownEvent)
          BY <1>1
        <5> QED  BY <3>1, <4>1, <5>1, NoSetupTail
      <4>3. NoSetupIn(down[s])'
        BY <4>1, <4>2 DEF NoSetupIn
      <4>4. Flowing(s)'
        BY <1>2, <3>1, <4>1, FlowingKept
      <4> QED  BY <1>2, <3>1, <3>2, <3>3, <4>1, <4>2, <4>3, <4>4 DEF Failing
    <3>5. CASE DequeueBatch(s)
      <4>1. /\ queue[s] # <<>> /\ up'[s] = Append(up[s], Head(queue[s]))
            /\ queue'[s] = Tail(queue[s]) /\ UNCHANGED <<sid, down>>
        BY <1>1, <3>5 DEF DequeueBatch, SendJson
      <4>2. main[s] = "feed"
        BY <3>1, <4>1, TaskHasNone
      <4> DEFINE q == queue[s]
                 u == up[s]
                 e == Head(queue[s])
      <4>3. q \in Seq(BatchEvents) /\ u \in Seq(UpEvent)
        BY <1>1
      <4>4. Len(q) \in Nat \ {0} /\ e = q[1] /\ e \in BatchEvents
        BY <4>1, <4>3, EmptySeq, HeadTailProperties
      <4>5. e.ev = "batch_data" /\ e.sid = s /\ e \in UpEvent
        BY <3>1, <4>4, EventFields, EventsTyped DEF Flowing
      <4>6. \A i \in 1 .. Len(Tail(q)) : Tail(q)[i].sid = s
        <5>1. Len(Tail(q)) = Len(q) - 1 /\ \A i \in 1 .. Len(Tail(q)) : Tail(q)[i] = q[i + 1]
          BY <4>1, <4>3, HeadTailProperties
        <5>2. ASSUME NEW i \in 1 .. Len(Tail(q)) PROVE Tail(q)[i].sid = s
          <6>1. i + 1 \in 1 .. Len(q)
            BY <4>4, <5>1
          <6> QED  BY <3>1, <5>1, <6>1 DEF Flowing
        <5> QED  BY <5>2
      <4>7. \A i \in 1 .. Len(Append(u, e)) :
                Append(u, e)[i].ev = "batch_data" /\ Append(u, e)[i].sid = s
        <5>1. \A i \in 1 .. Len(u) : u[i].ev = "batch_data" /\ u[i].sid = s
          BY <3>1 DEF Flowing
        <5> DEFINE v == Append(u, e)
        <5>2. Len(u) \in Nat
          BY <4>3, LenProperties
        <5>3. Len(v) = Len(u) + 1 /\ v[Len(u) + 1] = e /\ \A i \in 1 .. Len(u) : v[i] = u[i]
          BY <4>3, <4>5, AppendProperties
        <5> HIDE DEF u, e, v
        <5>4. ASSUME NEW i \in 1 .. Len(v) PROVE v[i].ev = "batch_data" /\ v[i].sid = s
          <6>1. i \in 1 .. Len(u) \/ i = Len(u) + 1
            BY <5>2, <5>3
          <6> QED  BY <4>5, <5>1, <5>3, <6>1
        <5> QED  BY <5>4 DEF v
      <4>8. Flowing(s)'
        BY <1>2, <4>1, <4>2, <4>6, <4>7 DEF Flowing
      <4>9. NoSetupIn(down[s])'
        BY <3>1, <4>1 DEF NoSetupIn
      <4> QED  BY <1>2, <3>1, <3>2, <3>3, <4>1, <4>8, <4>9 DEF Failing
    <3> QED  BY <3>4, <3>5 DEF WebsocketThread
  <2> QED  BY <2>1, <2>2
<1> QED  BY <1>2, <1>3, <1>5, <1>6 DEF FailedAt

\* What a step of the engine leaves alone of a failed session.
LEMMA EngineAfterFailure ==
    ASSUME TypeInv, NEW r \in Sessions, FailedAt(r), UNCHANGED clientVars, failed' = {r},
           \A u \in Sessions : u # r =>
               up'[u] = up[u] /\ sender'[u] = sender[u] /\ builder'[u].stage = builder[u].stage,
           main[r] \in {"task", "feed"} =>
               /\ r \in bound' /\ Served(r)' /\ (builder'[r].stage = 0 \/ TaskEnded(r)')
               /\ Flowing(r)' /\ NoSetupIn(Queued(r))' /\ NoSetupIn(down[r])'
    PROVE  FailedAt(r)'
<1>1. UNCHANGED <<main, thread, sid>>
  BY DEF clientVars
<1>2. \A u \in Sessions : u # r => Stopped(u)'
  BY <1>1 DEF FailedAt, Stopped
<1>3. Failing(r)'
  BY <1>1 DEF FailedAt, Failing
<1> QED  BY <1>2, <1>3 DEF FailedAt

\* What is known of a failed session whose backend has not hung up.
LEMMA FailedIs ==
    ASSUME NEW r \in Sessions, FailedAt(r), main[r] \in {"task", "feed"}
    PROVE  /\ sid[r] = r /\ r \in bound /\ Served(r) /\ Flowing(r)
           /\ builder[r].stage = 0 \/ TaskEnded(r)
           /\ NoSetupIn(Queued(r)) /\ NoSetupIn(down[r])
BY DEF FailedAt, Failing

LEMMA SentToFailed ==
    ASSUME TypeInv, NEW r \in Sessions, Served(r), NoSetupIn(Queued(r)), NEW e \in DownEvent,
           e.ev # "ack_setup", Send(e), UNCHANGED <<sender, active, current, receiver>>
    PROVE  Served(r)' /\ NoSetupIn(Queued(r))'
<1>1. /\ current \in QueueIds /\ sender[r] = current /\ sender[r] # NoQueue /\ active
      /\ Queued(r) = queues[current] /\ queues \in [QueueIds -> Seq(DownEvent)]
  BY ServedQueue DEF TypeInv, TypeOK, EngineTypeOK
<1>2. queues' = [queues EXCEPT ![current] = Append(queues[current], e)]
  BY <1>1 DEF Send
<1>3. queues'[current] = Append(queues[current], e) /\ queues[current] \in Seq(DownEvent)
  BY <1>1, <1>2
<1>4. NoSetupIn(Append(queues[current], e))
  BY <1>1, <1>3, NoSetupAppend
<1>5. Queued(r)' = Append(queues[current], e)
  BY <1>1, <1>3 DEF Queued
<1> QED  BY <1>4, <1>5 DEF Served, NoSetupIn

LEMMA DispatcherAfterFailure ==
    ASSUME TypeInv, NEW r \in Sessions, FailedAt(r), NEW s \in Sessions, UNCHANGED clientVars,
           DispatcherThread(s) \/ WaitTimeout(s)
    PROVE  FailedAt(r)'
<1>1. UNCHANGED <<sender, active, current, receiver, bound, cache, builder, failed, up, down>>
  BY DEF DispatcherThread, WaitTimeout, FirstRequest, NextRequest, EmitRequest, CheckStop,
         ClearEvent, senderVars, taskVars, wireVars
<1>2. UNCHANGED queues \/ Send(Event("request_data", s))
  BY DEF DispatcherThread, WaitTimeout, FirstRequest, NextRequest, EmitRequest, CheckStop,
         ClearEvent, senderVars
<1>3. ASSUME main[r] \in {"task", "feed"}
      PROVE  /\ r \in bound' /\ Served(r)' /\ (builder'[r].stage = 0 \/ TaskEnded(r)')
             /\ Flowing(r)' /\ NoSetupIn(Queued(r))' /\ NoSetupIn(down[r])'
  <2>1. /\ r \in bound /\ Served(r) /\ Flowing(r) /\ (builder[r].stage = 0 \/ TaskEnded(r))
        /\ NoSetupIn(Queued(r)) /\ NoSetupIn(down[r])
    BY <1>3, FailedIs
  <2>2. Served(r)' /\ NoSetupIn(Queued(r))'
    <3>1. CASE UNCHANGED queues
      BY <1>1, <2>1, <3>1 DEF Served, Queued, NoSetupIn
    <3>2. CASE Send(Event("request_data", s))
      <4>1. Event("request_data", s) \in DownEvent /\ Event("request_data", s).ev # "ack_setup"
        BY EventsTyped, EventFields
      <4> QED  BY <1>1, <2>1, <3>2, <4>1, SentToFailed
    <3> QED  BY <1>2, <3>1, <3>2
  <2>3. Flowing(r)'
    BY <1>1, <2>1, FlowingKept DEF clientVars
  <2>4. NoSetupIn(down[r])' /\ (builder'[r].stage = 0 \/ TaskEnded(r)') /\ r \in bound'
    BY <1>1, <2>1 DEF NoSetupIn, TaskEnded, Stages
  <2> QED  BY <2>2, <2>3, <2>4
<1>4. failed' = {r}
  BY <1>1 DEF FailedAt
<1> QED  BY <1>1, <1>3, <1>4, EngineAfterFailure

LEMMA ResultAfterFailure ==
    ASSUME TypeInv, NEW r \in Sessions, FailedAt(r), NEW s \in Sessions, UNCHANGED clientVars,
           SendResult(s)
    PROVE  FailedAt(r)'
<1>1. /\ TaskEnded(s) /\ Send(Event("result", builder[s].sid))
      /\ builder' = [builder EXCEPT ![s].stage = 0]
      /\ UNCHANGED <<sender, active, current, receiver, bound, cache, failed, up, down>>
  BY DEF SendResult, dispatcherVars, wireVars
<1>2. builder[s].stage > 0
  <2>1. builder[s].stage > Len(Stages(s)) /\ builder[s].stage \in 0 .. 4
    BY <1>1, BuildersAre DEF TaskEnded
  <2>2. Len(Stages(s)) \in Nat
    BY StagesTyped
  <2> QED  BY <2>1, <2>2
<1>3. s = r
  BY <1>2 DEF FailedAt, Stopped
<1>4. builder'[r].stage = 0 /\ \A u \in Sessions : u # r => builder'[u] = builder[u]
  BY <1>1, <1>3, BuildersAre
<1>5. ASSUME main[r] \in {"task", "feed"}
      PROVE  /\ r \in bound' /\ Served(r)'
             /\ Flowing(r)' /\ NoSetupIn(Queued(r))' /\ NoSetupIn(down[r])'
  <2>1. /\ r \in bound /\ Served(r) /\ Flowing(r) /\ NoSetupIn(Queued(r)) /\ NoSetupIn(down[r])
    BY <1>5, FailedIs
  <2>2. builder[s].sid \in Sessions
    BY <1>2 DEF TypeInv, SessionIds, BuilderIds
  <2> DEFINE e == Event("result", builder[s].sid)
  <2>3. e \in DownEvent /\ e.ev # "ack_setup" /\ Send(e)
    BY <1>1, <2>2, EventsTyped, EventFields
  <2> HIDE DEF e
  <2>4. Served(r)' /\ NoSetupIn(Queued(r))'
    BY <1>1, <2>1, <2>3, SentToFailed
  <2>5. Flowing(r)'
    BY <1>1, <2>1, FlowingKept DEF clientVars
  <2>6. NoSetupIn(down[r])' /\ r \in bound'
    BY <1>1, <2>1 DEF NoSetupIn
  <2> QED  BY <2>4, <2>5, <2>6
<1>6. failed' = {r}
  BY <1>1 DEF FailedAt
<1> QED  BY <1>1, <1>4, <1>5, <1>6, EngineAfterFailure

LEMMA SendQueuedAfterFailure ==
    ASSUME TypeInv, NEW r \in Sessions, FailedAt(r), NEW s \in Sessions, UNCHANGED clientVars,
           SendQueued(s)
    PROVE  FailedAt(r)'
<1>1. /\ down \in [Sessions -> Seq(DownEvent)] /\ queues \in [QueueIds -> Seq(DownEvent)]
      /\ sender \in [Sessions -> QueueIds \cup {NoQueue}]
  BY DEF TypeInv, TypeOK, WireTypeOK, EngineTypeOK
<1>2. /\ sender[s] # NoQueue /\ queues[sender[s]] # <<>>
      /\ down' = [down EXCEPT ![s] = Append(down[s], Head(queues[sender[s]]))]
      /\ queues' = [queues EXCEPT ![sender[s]] = Tail(queues[sender[s]])]
      /\ sender' = [sender EXCEPT ![s] = IF active THEN current ELSE NoQueue]
      /\ UNCHANGED <<active, current, receiver, bound, cache, builder, failed, up>>
  BY DEF SendQueued, dispatcherVars, taskVars
<1>3. s = r
  BY <1>2 DEF FailedAt, Stopped
<1>4. \A u \in Sessions : u # r => sender'[u] = sender[u]
  BY <1>1, <1>2, <1>3
<1>5. ASSUME main[r] \in {"task", "feed"}
      PROVE  /\ r \in bound' /\ Served(r)' /\ (builder'[r].stage = 0 \/ TaskEnded(r)')
             /\ Flowing(r)' /\ NoSetupIn(Queued(r))' /\ NoSetupIn(down[r])'
  <2>1. /\ r \in bound /\ Served(r) /\ Flowing(r) /\ (builder[r].stage = 0 \/ TaskEnded(r))
        /\ NoSetupIn(Queued(r)) /\ NoSetupIn(down[r])
    BY <1>5, FailedIs
  <2>2. /\ current \in QueueIds /\ sender[r] = current /\ current # NoQueue /\ active
        /\ Queued(r) = queues[current] /\ receiver[r] = "receive"
    BY <2>1, ServedQueue
  <2> DEFINE q == queues[current]
  <2>3. q \in Seq(DownEvent) /\ q # <<>> /\ NoSetupIn(q)
    BY <1>1, <1>2, <1>3, <2>1, <2>2
  <2>4. Head(q).ev # "ack_setup" /\ NoSetupIn(Tail(q)) /\ Head(q) \in DownEvent
    BY <2>3, NoSetupTail, HeadTailProperties
  <2>5. /\ queues'[current] = Tail(q) /\ sender'[r] = current
        /\ down'[r] = Append(down[r], Head(q)) /\ down[r] \in Seq(DownEvent)
    BY <1>1, <1>2, <1>3, <2>2
  <2>6. Served(r)'
    BY <1>2, <2>2, <2>5 DEF Served
  <2>7. Queued(r)' = Tail(q)
    BY <1>2, <2>2, <2>5 DEF Queued
  <2>8. NoSetupIn(Queued(r))'
    BY <2>4, <2>7 DEF NoSetupIn
  <2> HIDE DEF q
  <2>9. NoSetupIn(Append(down[r], Head(q)))
    BY <2>1, <2>4, <2>5, NoSetupAppend
  <2>10. NoSetupIn(down[r])'
    BY <2>5, <2>9 DEF NoSetupIn
  <2>11. Flowing(r)'
    BY <1>2, <2>1, FlowingKept DEF clientVars
  <2>12. (builder'[r].stage = 0 \/ TaskEnded(r)') /\ r \in bound'
    BY <1>2, <2>1 DEF TaskEnded, Stages
  <2> QED  BY <2>6, <2>8, <2>10, <2>11, <2>12
<1>6. failed' = {r}
  BY <1>2 DEF FailedAt
<1> QED  BY <1>2, <1>4, <1>5, <1>6, EngineAfterFailure

LEMMA ReceiveAfterFailure ==
    ASSUME TypeInv, NEW r \in Sessions, FailedAt(r), NEW s \in Sessions, UNCHANGED clientVars,
           Receive(s)
    PROVE  FailedAt(r)'
<1> DEFINE e == Head(up[s])
<1>1. /\ up[s] # <<>> /\ up' = [up EXCEPT ![s] = Tail(up[s])]
      /\ \/ e.ev = "setup" /\ OnSetup(s)
         \/ e.ev = "task" /\ OnTask(s, e.sid)
         \/ e.ev = "batch_data" /\ OnBatchData(e.sid, e.batch)
         \/ e.ev = "disconnect" /\ OnDisconnect(s, e.sid)
  BY DEF Receive
<1>2. s = r
  BY <1>1 DEF FailedAt, Stopped
<1>3. /\ up[s] \in Seq(UpEvent) /\ Len(up[s]) \in Nat \ {0} /\ e = up[s][1]
      /\ up'[s] = Tail(up[s]) /\ \A t \in Sessions : t # s => up'[t] = up[t]
  <2>1. up[s] \in Seq(UpEvent)
    BY BuildersAre
  <2>2. Len(up[s]) \in Nat \ {0} /\ e = up[s][1]
    BY <1>1, <2>1, EmptySeq
  <2> QED  BY <1>1, <2>1, <2>2, BuildersAre
<1>4. UNCHANGED <<sender, failed>>
  BY <1>1 DEF OnSetup, OnTask, OnBatchData, OnDisconnect, senderVars, taskVars
<1>5. builder' = builder \/ builder' = [builder EXCEPT ![s] = TaskAt(e.sid, 1)]
  BY <1>1 DEF OnSetup, OnTask, OnBatchData, OnDisconnect, taskVars
<1>6. \A u \in Sessions : u # r => builder'[u] = builder[u]
  BY <1>2, <1>5, BuildersAre
<1>7. ASSUME main[r] \in {"task", "feed"}
      PROVE  /\ r \in bound' /\ Served(r)' /\ (builder'[r].stage = 0 \/ TaskEnded(r)')
             /\ Flowing(r)' /\ NoSetupIn(Queued(r))' /\ NoSetupIn(down[r])'
  <2>1. /\ r \in bound /\ Served(r) /\ Flowing(r) /\ (builder[r].stage = 0 \/ TaskEnded(r))
        /\ NoSetupIn(Queued(r)) /\ NoSetupIn(down[r])
    BY <1>7, FailedIs
  <2>2. e.ev = "batch_data"
    BY <1>2, <1>3, <2>1 DEF Flowing
  <2>3. UNCHANGED <<sender, active, current, queues, receiver, bound, builder, down>>
    BY <1>1, <2>2 DEF OnBatchData, senderVars, taskVars
  <2>4. main[r] = "feed"
    BY <1>1, <1>2, <1>7, <2>1, TaskHasNone
  <2>5. \A i \in 1 .. Len(up'[r]) : up'[r][i].ev = "batch_data" /\ up'[r][i].sid = r
    <3> DEFINE u == up[r]
               v == Tail(u)
    <3>1. Len(v) = Len(u) - 1 /\ \A i \in 1 .. Len(v) : v[i] = u[i + 1]
      BY <1>1, <1>2, <1>3, HeadTailProperties
    <3>2. \A i \in 1 .. Len(u) : u[i].ev = "batch_data" /\ u[i].sid = r
      BY <2>1 DEF Flowing
    <3>3. Len(u) \in Nat \ {0} /\ up'[r] = v
      BY <1>2, <1>3
    <3> HIDE DEF u, v
    <3>4. ASSUME NEW i \in 1 .. Len(v) PROVE v[i].ev = "batch_data" /\ v[i].sid = r
      <4>1. i + 1 \in 1 .. Len(u)
        BY <3>1, <3>3
      <4> QED  BY <3>1, <3>2, <4>1
    <3> QED  BY <3>3, <3>4
  <2>6. Flowing(r)'
    BY <2>1, <2>4, <2>5 DEF Flowing, clientVars
  <2>7. Served(r)' /\ NoSetupIn(Queued(r))' /\ NoSetupIn(down[r])'
    BY <2>1, <2>3 DEF Served, Queued, NoSetupIn
  <2>8. (builder'[r].stage = 0 \/ TaskEnded(r)') /\ r \in bound'
    BY <2>1, <2>3 DEF TaskEnded, Stages
  <2> QED  BY <2>6, <2>7, <2>8
<1>8. failed' = {r}
  BY <1>4 DEF FailedAt
<1> QED  BY <1>2, <1>3, <1>4, <1>6, <1>7, <1>8, EngineAfterFailure

\* The builder of a failed task takes nothing before its backend has hung up.
LEMMA BuilderAfterFailure ==
    ASSUME TypeInv, NEW r \in Sessions, FailedAt(r), NEW s \in Sessions, UNCHANGED clientVars,
           TakeBatch(s) \/ TaskFails(s)
    PROVE  FailedAt(r)'
<1>1. builder[s].stage > 0 /\ ~TaskEnded(s)
  BY DEF TakeBatch, TaskFails
<1>2. s = r
  BY <1>1 DEF FailedAt, Stopped
<1>3. main[r] \notin {"task", "feed"}
  BY <1>1, <1>2, FailedIs
<1>4. UNCHANGED <<sender, up>> /\ (failed' = failed \/ failed' = failed \cup {s})
  BY DEF TakeBatch, TaskFails, senderVars, wireVars
<1>5. failed' = {r}
  BY <1>2, <1>4 DEF FailedAt
<1>6. \A u \in Sessions : u # r => builder'[u] = builder[u]
  <2>1. CASE TakeBatch(s)
    BY <1>2, <2>1, BuildersAre DEF TakeBatch
  <2>2. CASE TaskFails(s)
    BY <1>2, <2>2, BuildersAre DEF TaskFails
  <2> QED  BY <2>1, <2>2
<1> QED  BY <1>3, <1>4, <1>5, <1>6, EngineAfterFailure

-----------------------------------------------------------------------------
(* The invariant and the theorem. *)

\* Every step, as one of the cases of the proofs above.
Step(s) ==
    \/ failed = {} /\ Open(s) /\ UNCHANGED engineVars
    \/ (MainThread(s, Connected(s)) \/ WebsocketThread(s)) /\ UNCHANGED engineVars
    \/ main[s] = "connect" /\ Accept(s) /\ UNCHANGED clientVars
    \/ EventLoop(s) /\ UNCHANGED clientVars
    \/ DispatcherThread(s) /\ UNCHANGED clientVars
    \/ (WaitTimeout(s) \/ TaskFails(s)) /\ UNCHANGED clientVars

LEMMA NextSteps ==
    ASSUME ~OpenAfterFailure, Next
    PROVE  \E s \in Sessions : Step(s)
BY DEF Next, Step

LEMMA StillStream ==
    ASSUME StreamInv, UNCHANGED vars
    PROVE  StreamInv'
<1>1. /\ UNCHANGED <<main, thread, flags, sid, queue, fed, up, down>>
      /\ UNCHANGED <<receiver, clients, bound, sender, active, current, queues, cache, added,
                     full, dispatcher, requested, builder, failed>>
  BY DEF vars, clientVars, engineVars, senderVars, dispatcherVars, taskVars, wireVars
<1>2. \A t : InTransit(t)' = InTransit(t)
  BY <1>1, TransitSame
<1>3. OrderInv' <=> OrderInv
  BY <1>1, <1>2 DEF OrderInv, HasTask, Ordered
<1>4. \A t : Flowing(t)' <=> Flowing(t)
  BY <1>1, <1>2 DEF Flowing
<1>5. \A t : Failing(t)' <=> Failing(t)
  BY <1>1, <1>4 DEF Failing, Served, TaskEnded, Stages, NoSetupIn, Queued
<1>6. FailInv' <=> FailInv
  BY <1>1, <1>5 DEF FailInv, Stopped
<1> QED  BY <1>1, <1>3, <1>6 DEF StreamInv, Healthy

LEMMA NextKeepsOrder ==
    ASSUME TypeInv, HealthInv, StreamInv, Healthy, NEW s \in Sessions, Step(s), ~TaskFails(s)
    PROVE  Healthy' /\ OrderInv'
<1>1. PhaseInv /\ OrderInv
  BY DEF HealthInv, StreamInv
<1>2. failed' = failed
  BY DEF Step, EventLoop, DispatcherThread, WaitTimeout, Accept, SendQueued, Receive, OnSetup,
         OnTask, OnBatchData, OnDisconnect, TakeBatch, SendResult, FirstRequest, NextRequest,
         EmitRequest, CheckStop, ClearEvent, engineVars, taskVars
<1> SUFFICES OrderInv'
  BY <1>2 DEF Healthy
<1>3. CASE (Open(s) \/ MainThread(s, Connected(s))) /\ UNCHANGED engineVars
  <2>1. CASE FeedBatch(s)
    BY <1>1, <1>3, <2>1, FeedKeepsOrder
  <2>2. CASE ~FeedBatch(s)
    BY <1>1, <1>3, <2>2, MainKeepsOrder DEF MainThread
  <2> QED  BY <2>1, <2>2
<1>4. CASE WebsocketThread(s) /\ UNCHANGED engineVars
  BY <1>1, <1>4, WebsocketKeepsOrder
<1>5. CASE /\ \/ Accept(s) \/ SendQueued(s) \/ SendResult(s) \/ DispatcherThread(s)
              \/ WaitTimeout(s)
           /\ UNCHANGED clientVars
  BY <1>1, <1>5, QuietKeepsOrder
<1>6. CASE Receive(s) /\ UNCHANGED clientVars
  BY <1>6, ReceiveKeepsOrder
<1>7. CASE TakeBatch(s) /\ UNCHANGED clientVars
  BY <1>7, TakeKeepsOrder
<1> QED  BY <1>3, <1>4, <1>5, <1>6, <1>7 DEF Step, EventLoop

LEMMA NextAfterFailure ==
    ASSUME TypeInv, FailInv, NEW s \in Sessions, Step(s)
    PROVE  FailInv' /\ ~Healthy'
<1>1. PICK r \in Sessions : FailedAt(r)
  BY DEF FailInv, FailedAt
<1>2. FailedAt(r)'
  <2>1. failed # {} /\ main[s] # "connect"
    BY <1>1 DEF FailedAt, Stopped, Failing
  <2>2. CASE MainThread(s, Connected(s)) /\ UNCHANGED engineVars
    BY <1>1, <2>2, MainAfterFailure
  <2>3. CASE WebsocketThread(s) /\ UNCHANGED engineVars
    BY <1>1, <2>3, WebsocketAfterFailure
  <2>4. CASE EventLoop(s) /\ UNCHANGED clientVars
    BY <1>1, <2>4, SendQueuedAfterFailure, ReceiveAfterFailure, BuilderAfterFailure,
       ResultAfterFailure DEF EventLoop
  <2>5. CASE (DispatcherThread(s) \/ WaitTimeout(s)) /\ UNCHANGED clientVars
    BY <1>1, <2>5, DispatcherAfterFailure
  <2>6. CASE TaskFails(s) /\ UNCHANGED clientVars
    BY <1>1, <2>6, BuilderAfterFailure
  <2> QED  BY <2>1, <2>2, <2>3, <2>4, <2>5, <2>6 DEF Step
<1>3. FailInv'
  BY <1>2 DEF FailInv, FailedAt
<1> QED  BY <1>2, <1>3 DEF FailedAt, Healthy

LEMMA NextKeepsStream ==
    ASSUME ~OpenAfterFailure, TypeInv, HealthInv, StreamInv, [Next]_vars
    PROVE  StreamInv'
<1>1. CASE UNCHANGED vars
  BY <1>1, StillStream
<1>2. CASE Next
  <2>1. PICK s \in Sessions : Step(s)
    BY <1>2, NextSteps
  <2>2. CASE Healthy /\ ~TaskFails(s)
    BY <2>1, <2>2, NextKeepsOrder DEF StreamInv
  <2>3. CASE Healthy /\ TaskFails(s)
    <3>1. UNCHANGED clientVars \/ UNCHANGED engineVars
      BY <2>1 DEF Step
    <3>2. failed' # failed
      BY <2>3 DEF TaskFails, Healthy
    <3>3. UNCHANGED clientVars
      BY <3>1, <3>2 DEF engineVars, taskVars
    <3>4. FailInv'
      BY <2>3, <3>3, FailureStops
    <3>5. ~Healthy'
      BY <3>2, <2>3 DEF Healthy
    <3> QED  BY <3>4, <3>5 DEF StreamInv
  <2>4. CASE ~Healthy
    BY <2>1, <2>4, NextAfterFailure DEF StreamInv
  <2> QED  BY <2>2, <2>3, <2>4
<1> QED  BY <1>1, <1>2

LEMMA InitHasStream == Init => StreamInv
<1> SUFFICES ASSUME Init PROVE StreamInv
  OBVIOUS
<1>1. failed = {} /\ bound = {}
  BY DEF Init, EngineInit
<1> QED  BY <1>1 DEF StreamInv, Healthy, OrderInv, HasTask

LEMMA NextMoves ==
    ASSUME ~OpenAfterFailure, TypeInv, HealthInv, StreamInv, [Next]_vars
    PROVE  Moves
<1>1. CASE UNCHANGED vars
  <2>1. UNCHANGED <<main, fed, up, queue, cache, builder, failed>>
    BY <1>1 DEF vars, clientVars, engineVars, dispatcherVars, taskVars, wireVars
  <2>2. \A t \in Sessions : SameStream(t)
    BY <2>1 DEF SameStream
  <2> QED  BY <2>2, SameUnmoved, NoneMoves DEF Moves
<1>2. CASE Next
  <2>1. PICK s \in Sessions : Step(s)
    BY <1>2, NextSteps
  <2>2. CASE (Open(s) \/ MainThread(s, Connected(s))) /\ UNCHANGED engineVars
    <3>1. CASE Open(s) \/ SendSetup(s, Connected(s)) \/ SendTask(s)
      BY <2>2, <3>1, StartMoves DEF Moves
    <3>2. CASE TaskAcknowledged(s)
      BY <2>2, <3>2, AcknowledgedMoves DEF Moves
    <3>3. CASE FeedBatch(s)
      BY <2>2, <3>3, FeedMoves DEF Moves, Stream!StreamNext
    <3>4. CASE SendDisconnect(s)
      BY <2>2, <3>4, DisconnectMoves DEF Moves, Stream!StreamNext
    <3>5. CASE Join(s)
      BY <2>2, <3>5, JoinMoves DEF Moves
    <3> QED  BY <2>2, <3>1, <3>2, <3>3, <3>4, <3>5 DEF MainThread
  <2>3. CASE WebsocketThread(s) /\ UNCHANGED engineVars
    BY <2>3, WebsocketMoves DEF Moves
  <2>4. CASE /\ \/ Accept(s) \/ SendQueued(s) \/ SendResult(s) \/ DispatcherThread(s)
                \/ WaitTimeout(s)
             /\ UNCHANGED clientVars
    BY <2>4, QuietMoves DEF Moves
  <2>5. CASE Receive(s) /\ UNCHANGED clientVars
    BY <2>5, EventMoves DEF Moves
  <2>6. CASE TakeBatch(s) /\ UNCHANGED clientVars
    BY <2>6, TakeMoves DEF Moves, Stream!StreamNext
  <2>7. CASE TaskFails(s) /\ UNCHANGED clientVars
    BY <2>7, FailureMoves DEF Moves, Stream!StreamNext
  <2> QED  BY <2>1, <2>2, <2>3, <2>4, <2>5, <2>6, <2>7 DEF Step, EventLoop
<1> QED  BY <1>1, <1>2

LEMMA InitStreams == Init => Stream!StreamInit
<1> SUFFICES ASSUME Init PROVE Stream!StreamInit
  OBVIOUS
<1>1. \A s \in Sessions : main[s] = "idle" /\ fed[s] = 0 /\ builder[s] = NoTask /\ failed = {}
  BY DEF Init, ClientInit, EngineInit
<1>2. \A s \in Sessions : StreamState(s) = "open"
  BY <1>1 DEF StreamState
<1>3. NoTask.last = 0
  BY DEF NoTask, TaskAt
<1>4. \A s \in Sessions : IfOpen(s, fed[s]) = 0 /\ IfOpen(s, builder[s].last) = 0
  BY <1>1, <1>2, <1>3 DEF IfOpen
<1> QED  BY <1>1, <1>2, <1>4 DEF Stream!StreamInit

\* With tasks one at a time, the batches of a task that runs are numbered without a
\* gap from the last one the builder used to the last one the main thread queued,
\* wherever they are; and once a task has failed, its session alone goes on, with
\* its own id and with nothing but its own batches under way to the engine.
THEOREM BatchesStayInOrder ==
    MaxOpen <= 1 /\ ~OpenAfterFailure => (Spec => []StreamInv)
<1> SUFFICES ASSUME MaxOpen <= 1, ~OpenAfterFailure PROVE Spec => []StreamInv
  OBVIOUS
<1>1. Init => StreamInv
  BY InitHasStream
<1>2. TypeInv /\ HealthInv /\ StreamInv /\ [Next]_vars => StreamInv'
  BY NextKeepsStream
<1> QED  BY <1>1, <1>2, SessionInvariant, HealthyPhases, PTL DEF Spec

\* With tasks one at a time and none started after a failure, the sessions implement
\* BatchStream: through the queue between the threads, the websocket and the data
\* cache every batch reaches the builder once and in order, and a backend hangs up
\* only when all have been used or its task has failed.
THEOREM TasksRefineStream ==
    MaxOpen <= 1 /\ ~OpenAfterFailure => (Spec => IsBatchStream)
<1> SUFFICES ASSUME MaxOpen <= 1, ~OpenAfterFailure PROVE Spec => IsBatchStream
  OBVIOUS
<1>1. Init => Stream!StreamInit
  BY InitStreams
<1>2. TypeInv /\ HealthInv /\ StreamInv /\ [Next]_vars => Moves
  BY NextMoves
<1>3. Moves => [Stream!StreamNext]_<<
          [s \in Sessions |-> IF main[s] = "feed" THEN InTransit(s) ELSE <<>>],
          [s \in Sessions |-> IfOpen(s, fed[s])],
          [s \in Sessions |-> IfOpen(s, builder[s].last)],
          [s \in Sessions |-> StreamState(s)]>>
  BY DEF Moves, streamVars, Pending, Sent, Used
<1> QED  BY <1>1, <1>2, <1>3, SessionInvariant, HealthyPhases, BatchesStayInOrder, PTL
         DEF Spec, IsBatchStream, Stream!StreamSpec
=============================================================================
