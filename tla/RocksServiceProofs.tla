------------------------- MODULE RocksServiceProofs -------------------------
(***************************************************************************)
(* Proofs about RocksService, for every number of clients, keys and calls: *)
(* the service with its queues implements SessionStore, and only cancelled *)
(* calls fill an answer channel.                                           *)
(***************************************************************************)
EXTENDS RocksService, FiniteSetTheorems, TLAPS

-----------------------------------------------------------------------------
(* The inductive invariant. *)

\* f[i] is RocksDB after the first i requests of the channel; a get among them
\* will find its row.
Chain(f) ==
    /\ f[0] = db /\ f[Len(req)] = rows
    /\ \A i \in 1 .. Len(req) :
          /\ f[i] = ApplyTo(f[i - 1], req[i].req, req[i].n)
          /\ req[i].req.op = "get" => f[i - 1][req[i].req.key] # NoValue

\* The answers to a client that are ready, and those of requests in the channel.
ReadyFor(c)  == {results[i].ans : i \in {j \in 1 .. Len(results) : results[j].client = c}}
ToCome(f, c) == {Answer(f[i - 1], req[i].req, req[i].n) :
                     i \in {j \in 1 .. Len(req) : req[j].client = c}}
UnderWay(f, c) == ReadyFor(c) \union ToCome(f, c)

\* What a client is owed is in its channel, in order, or under way.
Delivery(f) ==
    \A c \in Clients :
        /\ Len(resp[c]) <= Len(owed[c])
        /\ \A i \in 1 .. Len(resp[c]) : resp[c][i] = owed[c][i]
        /\ \A i \in Len(resp[c]) + 1 .. Len(owed[c]) : owed[c][i] \in UnderWay(f, c)
        /\ \A a \in UnderWay(f, c) :
              \E i \in Len(resp[c]) + 1 .. Len(owed[c]) : owed[c][i] = a

\* Calls are numbered in the order in which they are sent, and the result queue
\* is cleared before the next request is taken.
OrderInv ==
    /\ \A c \in Clients : \A i, j \in 1 .. Len(owed[c]) :
          i < j => owed[c][i].call < owed[c][j].call
    /\ \A c \in Clients : \A i \in 1 .. Len(owed[c]) : owed[c][i].call <= calls
    /\ \A i, j \in 1 .. Len(req) : i < j => req[i].n < req[j].n
    /\ \A i \in 1 .. Len(req) : req[i].n <= calls
    /\ \A i \in 1 .. Len(results), j \in 1 .. Len(req) : results[i].ans.call < req[j].n
    /\ Len(results) <= 1
    /\ svc \in {"loop", "pop", "exited"} => results = <<>>

\* A client is owed no more answers than it has cancelled calls, and one more
\* while it waits.
CountInv ==
    /\ \A c \in Clients : Len(owed[c]) <= cancels[c] + Busy(c)
    /\ \A c \in Clients : cancels[c] + Busy(c) <= calls
    /\ svc = "blocked" => results # <<>> /\ cancels[Head(results).client] >= RespCap

LinkInv == \E f \in [0 .. Len(req) -> Rows] : Chain(f) /\ Delivery(f)

CoreInv == TypeOK /\ OrderInv /\ CountInv /\ LinkInv

\* A client that could not yet send its request waits for no answer, and a get
\* among these requests will find its row.
PushInv ==
    \A c \in Clients : push[c] # NoValue => call[c] = NoValue /\ Known(push[c])

IInv == CoreInv /\ PushInv /\ OnlyCrowdsSleep

-----------------------------------------------------------------------------
(* Requests and answers. *)

\* A request leaves a well-typed store.
LEMMA ApplyType ==
    ASSUME NEW s \in Rows, NEW r \in Request, NEW n \in Nat \ {0}
    PROVE  ApplyTo(s, r, n) \in Rows
<1>1. r.op = "put" => r.key \in Keys
  BY DEF Request
<1>2. n \in Nat
  BY RocksAssumption
<1> QED
  BY <1>1, <1>2 DEF ApplyTo, Rows, Values

\* An answer is well typed when a get finds its row.
LEMMA AnswerType ==
    ASSUME NEW s \in Rows, NEW r \in Request, NEW n \in Nat \ {0},
           r.op = "get" => s[r.key] # NoValue
    PROVE  Answer(s, r, n) \in Answers /\ Answer(s, r, n).call = n
<1>1. r.op \in {"put", "get", "range"} /\ (r.op = "get" => r.key \in Keys)
  BY DEF Request
<1>2. Asked(r) \subseteq Keys
  BY <1>1 DEF Asked
<1> DEFINE V == {s[k] : k \in {j \in Asked(r) : s[j] # NoValue}}
<1>3. V \subseteq Values
  BY <1>2 DEF Rows
<1>4. r.op = "get" => V # {}
  <2> SUFFICES ASSUME r.op = "get" PROVE s[r.key] \in V
    OBVIOUS
  <2> QED
    BY DEF Asked
<1>5. Answer(s, r, n) = [op |-> r.op, call |-> n, val |-> V]
  BY DEF Answer
<1> HIDE DEF V
<1> QED
  BY <1>1, <1>3, <1>4, <1>5 DEF Answers

\* What the types say of the elements of the queues.
LEMMA QueueTypes ==
    ASSUME TypeOK
    PROVE  /\ Len(req) \in Nat /\ Len(results) \in Nat
           /\ \A c \in Clients : Len(resp[c]) \in Nat /\ Len(owed[c]) \in Nat
           /\ \A i \in 1 .. Len(req) : /\ req[i].client \in Clients /\ req[i].req \in Request
                                       /\ req[i].n \in Nat \ {0} /\ req[i].n \in Nat
           /\ \A i \in 1 .. Len(results) : /\ results[i].client \in Clients
                                           /\ results[i].ans \in Answers
                                           /\ results[i].ans.call \in Nat
           /\ \A c \in Clients : \A i \in 1 .. Len(resp[c]) :
                 resp[c][i] \in Answers /\ resp[c][i].call \in Nat
           /\ \A c \in Clients : \A i \in 1 .. Len(owed[c]) :
                 owed[c][i] \in Answers /\ owed[c][i].call \in Nat
<1>1. \A a \in Answers : a.call \in Nat
  BY RocksAssumption DEF Answers
<1>2. \A x \in Requests : /\ x.client \in Clients /\ x.req \in Request
                          /\ x.n \in Nat \ {0} /\ x.n \in Nat
  BY RocksAssumption DEF Requests
<1>3. \A x \in [client: Clients, ans: Answers] : x.client \in Clients /\ x.ans \in Answers
  OBVIOUS
<1> DEFINE Ready == [client: Clients, ans: Answers]
<1>4. /\ req \in Seq(Requests) /\ results \in Seq(Ready)
      /\ resp \in [Clients -> Seq(Answers)] /\ owed \in [Clients -> Seq(Answers)]
  BY DEF TypeOK, ServiceType, HistType
<1> HIDE DEF Ready
<1>5. /\ Len(req) \in Nat /\ Len(results) \in Nat
      /\ \A i \in 1 .. Len(req) : req[i] \in Requests
      /\ \A i \in 1 .. Len(results) : results[i] \in Ready
  BY <1>4
<1>6. \A c \in Clients : /\ Len(resp[c]) \in Nat /\ Len(owed[c]) \in Nat
                         /\ \A i \in 1 .. Len(resp[c]) : resp[c][i] \in Answers
                         /\ \A i \in 1 .. Len(owed[c]) : owed[c][i] \in Answers
  BY <1>4
<1> QED
  BY <1>1, <1>2, <1>3, <1>5, <1>6 DEF Ready

\* The calls a client is owed an answer for are those of its queue.
LEMMA OutstandingOwed ==
    ASSUME TypeOK, OrderInv, LinkInv, NEW c \in Clients
    PROVE  Outstanding(c) = {owed[c][i].call : i \in 1 .. Len(owed[c])}
<1> USE DEF TypeOK, ServiceType, HistType
<1>1. PICK f \in [0 .. Len(req) -> Rows] : Chain(f) /\ Delivery(f)
  BY DEF LinkInv
<1>2. Len(resp[c]) \in Nat /\ Len(owed[c]) \in Nat /\ Len(results) \in Nat /\ Len(req) \in Nat
  OBVIOUS
<1>3. ASSUME NEW i \in 1 .. Len(req)
      PROVE  Answer(f[i - 1], req[i].req, req[i].n).call = req[i].n
  BY DEF Answer
<1>4. ASSUME NEW x \in Outstanding(c) PROVE \E i \in 1 .. Len(owed[c]) : owed[c][i].call = x
  <2>1. CASE \E i \in 1 .. Len(resp[c]) : x = resp[c][i].call
    <3>1. PICK i \in 1 .. Len(resp[c]) : x = resp[c][i].call
      BY <2>1
    <3>2. i \in 1 .. Len(owed[c]) /\ resp[c][i] = owed[c][i]
      BY <1>1, <1>2 DEF Delivery
    <3> QED
      BY <3>1, <3>2
  <2>2. CASE \E a \in UnderWay(f, c) : x = a.call
    <3>0. PICK a \in UnderWay(f, c) : x = a.call
      BY <2>2
    <3>1. PICK i \in Len(resp[c]) + 1 .. Len(owed[c]) : owed[c][i] = a
      BY <1>1 DEF Delivery
    <3> QED
      BY <1>2, <3>0, <3>1
  <2>3. ASSUME NEW i \in 1 .. Len(results), results[i].client = c, x = results[i].ans.call
        PROVE  \E a \in UnderWay(f, c) : x = a.call
    BY <2>3 DEF UnderWay, ReadyFor
  <2>4. ASSUME NEW i \in 1 .. Len(req), req[i].client = c, x = req[i].n
        PROVE  \E a \in UnderWay(f, c) : x = a.call
    BY <1>3, <2>4 DEF UnderWay, ToCome
  <2> QED
    BY <1>4, <2>1, <2>2, <2>3, <2>4 DEF Outstanding
<1>5. ASSUME NEW i \in 1 .. Len(owed[c]) PROVE owed[c][i].call \in Outstanding(c)
  <2>1. CASE i <= Len(resp[c])
    <3>1. i \in 1 .. Len(resp[c]) /\ resp[c][i] = owed[c][i]
      BY <1>1, <1>2, <2>1 DEF Delivery
    <3> QED
      BY <3>1 DEF Outstanding
  <2>2. CASE ~(i <= Len(resp[c]))
    <3>1. owed[c][i] \in UnderWay(f, c)
      BY <1>1, <1>2, <2>2 DEF Delivery
    <3>2. CASE owed[c][i] \in ReadyFor(c)
      BY <3>2 DEF ReadyFor, Outstanding
    <3>3. CASE owed[c][i] \in ToCome(f, c)
      <4>1. PICK j \in 1 .. Len(req) : req[j].client = c
                 /\ owed[c][i] = Answer(f[j - 1], req[j].req, req[j].n)
        BY <3>3 DEF ToCome
      <4>2. owed[c][i].call = req[j].n
        BY <1>3, <4>1
      <4> QED
        BY <4>1, <4>2 DEF Outstanding
    <3> QED
      BY <3>1, <3>2, <3>3 DEF UnderWay
  <2> QED
    BY <2>1, <2>2
<1> QED
  BY <1>4, <1>5

\* There are as many of them as answers in the queue.
LEMMA OutstandingCount ==
    ASSUME TypeOK, OrderInv, LinkInv, NEW c \in Clients
    PROVE  Cardinality(Outstanding(c)) = Len(owed[c])
<1> DEFINE n == Len(owed[c])
           S == {owed[c][i].call : i \in 1 .. n}
           g == [i \in 1 .. n |-> owed[c][i].call]
<1>1. n \in Nat
  BY DEF TypeOK, HistType
<1>2. \A i \in 1 .. n : owed[c][i].call \in Nat
  BY QueueTypes
<1>3. \A i, j \in 1 .. n : i # j => owed[c][i].call # owed[c][j].call
  BY <1>1, <1>2 DEF OrderInv
<1>4. g \in Bijection(1 .. n, S)
  BY <1>3 DEF Bijection, Injection, Surjection, IsInjective
<1>5. IsFiniteSet(1 .. n) /\ Cardinality(1 .. n) = n
  BY <1>1, FS_Interval
<1>6. Cardinality(S) = n
  BY <1>4, <1>5, FS_Bijection DEF ExistsBijection
<1> QED
  BY <1>6, OutstandingOwed
-----------------------------------------------------------------------------
(* The steps of the clients. *)

\* An answer that is ready was sent before.
LEMMA ReadyCalls ==
    ASSUME TypeOK, OrderInv, LinkInv
    PROVE  \A i \in 1 .. Len(results) : results[i].ans.call <= calls /\ results[i].ans.call \in Nat
<1> SUFFICES ASSUME NEW i \in 1 .. Len(results)
             PROVE  results[i].ans.call <= calls /\ results[i].ans.call \in Nat
  OBVIOUS
<1>1. PICK f \in [0 .. Len(req) -> Rows] : Chain(f) /\ Delivery(f)
  BY DEF LinkInv
<1>2. results[i].client \in Clients /\ results[i].ans.call \in Nat
  BY QueueTypes
<1>3. results[i].ans \in UnderWay(f, results[i].client)
  BY DEF UnderWay, ReadyFor
<1>4. PICK j \in Len(resp[results[i].client]) + 1 .. Len(owed[results[i].client]) :
        owed[results[i].client][j] = results[i].ans
  BY <1>1, <1>2, <1>3 DEF Delivery
<1>5. j \in 1 .. Len(owed[results[i].client])
  BY <1>2, QueueTypes
<1> QED
  BY <1>2, <1>4, <1>5 DEF OrderInv

\* A request is sent: it goes to the end of the channel, and its answer to the
\* end of what the client is owed.
LEMMA CallInv ==
    ASSUME CoreInv, PushInv, NEW c \in Clients, NEW r \in Request, Call(c, r)
    PROVE  CoreInv'
<1>0. TypeOK /\ OrderInv /\ CountInv /\ LinkInv
  BY DEF CoreInv
<1> DEFINE n == calls + 1
           m == [client |-> c, req |-> r, n |-> n]
           a == Answer(rows, r, n)
<1>1. /\ calls \in Nat /\ MaxCalls \in Nat /\ n \in Nat \ {0} /\ calls' = n /\ calls < n
      /\ call[c] = NoValue /\ call' = [call EXCEPT ![c] = [req |-> r, n |-> n]]
      /\ req' = Append(req, m) /\ rows' = ApplyTo(rows, r, n)
      /\ owed' = [owed EXCEPT ![c] = Append(owed[c], a)]
      /\ slept' = [slept EXCEPT ![c] = (resp[c] = <<>>)]
      /\ push' = [push EXCEPT ![c] = NoValue] /\ waiters' = {} /\ Len(req) < ReqCap
      /\ UNCHANGED <<db, svc, results, running, resp, got, cancels>>
  BY <1>0, RocksAssumption DEF Call, Tries, Room, PushInv, serviceVars, TypeOK, ClientType
<1>2. r.op = "get" => rows[r.key] # NoValue
  <2>1. CASE Known(r)
    BY <2>1 DEF Known
  <2>2. CASE push[c] = r
    BY <2>2, RocksAssumption DEF Known, PushInv
  <2> QED
    BY <2>1, <2>2 DEF Call, Tries
<1>3. a \in Answers /\ a.call = n
  BY <1>0, <1>1, <1>2, AnswerType DEF TypeOK, HistType
<1>4. rows' \in Rows
  BY <1>0, <1>1, ApplyType DEF TypeOK, HistType
<1>5. m \in Requests
  BY <1>1 DEF Requests
<1>6. /\ call'[c] # NoValue
      /\ \A d \in Clients : d # c => call'[d] = call[d]
      /\ \A d \in Clients : cancels[d] \in Nat
  BY <1>0, <1>1, RocksAssumption DEF TypeOK, ClientType
<1> HIDE DEF m, a, n
<1>7. /\ Len(req) \in Nat /\ Len(req') = Len(req) + 1 /\ req'[Len(req) + 1] = m
      /\ req' \in Seq(Requests)
      /\ \A i \in 1 .. Len(req) : req'[i] = req[i]
  BY <1>0, <1>1, <1>5 DEF TypeOK, ServiceType
<1>8. /\ Len(owed[c]) \in Nat /\ Len(owed'[c]) = Len(owed[c]) + 1
      /\ owed'[c][Len(owed[c]) + 1] = a /\ owed'[c] \in Seq(Answers)
      /\ \A i \in 1 .. Len(owed[c]) : owed'[c][i] = owed[c][i]
      /\ \A d \in Clients : d # c => owed'[d] = owed[d]
  BY <1>0, <1>1, <1>3 DEF TypeOK, HistType
<1>9. TypeOK'
  <2>1. ServiceType'
    <3>1. Len(req') <= ReqCap
      BY <1>1, <1>7, RocksAssumption
    <3> QED
      BY <1>0, <1>1, <1>7, <3>1 DEF TypeOK, ServiceType
  <2>2. ClientType'
    BY <1>0, <1>1 DEF TypeOK, ClientType
  <2>3. HistType'
    BY <1>0, <1>1, <1>4, <1>8 DEF TypeOK, HistType
  <2> QED
    BY <2>1, <2>2, <2>3 DEF TypeOK
<1>10. OrderInv'
  <2>1. \A d \in Clients : \A i \in 1 .. Len(owed[d]) : owed[d][i].call <= calls
    BY <1>0 DEF OrderInv
  <2>2. \A d \in Clients : Len(owed[d]) \in Nat /\ \A i \in 1 .. Len(owed[d]) : owed[d][i].call \in Nat
    BY <1>0, QueueTypes
  <2>3. \A d \in Clients : \A i, j \in 1 .. Len(owed'[d]) :
            i < j => owed'[d][i].call < owed'[d][j].call
    <3> SUFFICES ASSUME NEW d \in Clients, NEW i \in 1 .. Len(owed'[d]),
                        NEW j \in 1 .. Len(owed'[d]), i < j
                 PROVE  owed'[d][i].call < owed'[d][j].call
      OBVIOUS
    <3>1. CASE j \in 1 .. Len(owed[d])
      <4>1. i \in 1 .. Len(owed[d])
        BY <2>2, <3>1
      <4>2. owed'[d][i] = owed[d][i] /\ owed'[d][j] = owed[d][j]
        BY <1>8, <3>1, <4>1
      <4> QED
        BY <1>0, <3>1, <4>1, <4>2 DEF OrderInv
    <3>2. CASE d = c /\ j = Len(owed[c]) + 1
      <4>1. i \in 1 .. Len(owed[c]) /\ owed'[c][i] = owed[c][i] /\ owed'[c][j] = a
        BY <1>8, <3>2
      <4> QED
        BY <1>1, <1>3, <2>1, <2>2, <3>2, <4>1
    <3> QED
      BY <1>8, <2>2, <3>1, <3>2
  <2>4. \A d \in Clients : \A i \in 1 .. Len(owed'[d]) : owed'[d][i].call <= calls'
    <3> SUFFICES ASSUME NEW d \in Clients, NEW i \in 1 .. Len(owed'[d])
                 PROVE  owed'[d][i].call <= calls'
      OBVIOUS
    <3>1. CASE i \in 1 .. Len(owed[d])
      BY <1>1, <1>8, <2>1, <2>2, <3>1
    <3>2. CASE d = c /\ i = Len(owed[c]) + 1
      BY <1>1, <1>3, <1>8, <3>2
    <3> QED
      BY <1>8, <2>2, <3>1, <3>2
  <2>5. \A i \in 1 .. Len(req) : req[i].n <= calls /\ req[i].n \in Nat
    BY <1>0, QueueTypes DEF OrderInv
  <2>6. m.n = n
    BY DEF m
  <2>7. /\ \A i, j \in 1 .. Len(req') : i < j => req'[i].n < req'[j].n
        /\ \A i \in 1 .. Len(req') : req'[i].n <= calls'
    <3>1. \A i, j \in 1 .. Len(req) : i < j => req[i].n < req[j].n
      BY <1>0 DEF OrderInv
    <3>2. calls' = n /\ calls < n /\ calls \in Nat /\ n \in Nat
      BY <1>1
    <3>3. ASSUME NEW i \in 1 .. Len(req') PROVE req'[i].n \in Nat /\ req'[i].n <= calls'
      <4>1. CASE i \in 1 .. Len(req)
        BY <1>7, <2>5, <3>2, <4>1
      <4>2. CASE i = Len(req) + 1
        BY <1>7, <2>6, <3>2, <4>2
      <4> QED
        BY <1>7, <4>1, <4>2
    <3>4. ASSUME NEW i \in 1 .. Len(req'), NEW j \in 1 .. Len(req'), i < j
          PROVE  req'[i].n < req'[j].n
      <4>1. i \in 1 .. Len(req) /\ req'[i] = req[i]
        BY <1>7, <3>4
      <4>2. CASE j \in 1 .. Len(req)
        BY <1>7, <3>1, <3>4, <4>1, <4>2
      <4>3. CASE j = Len(req) + 1
        BY <1>7, <2>5, <2>6, <3>2, <4>1, <4>3
      <4> QED
        BY <1>7, <4>2, <4>3
    <3> QED
      BY <3>3, <3>4
  <2>8. \A i \in 1 .. Len(results), j \in 1 .. Len(req') : results[i].ans.call < req'[j].n
    <3>1. \A i \in 1 .. Len(results) : results[i].ans.call <= calls /\ results[i].ans.call \in Nat
      BY <1>0, ReadyCalls
    <3> QED
      BY <1>0, <1>1, <1>7, <2>5, <2>6, <3>1 DEF OrderInv
  <2> QED
    BY <1>0, <1>1, <2>3, <2>4, <2>7, <2>8 DEF OrderInv
<1>11. CountInv'
  <2>1. Busy(c) = 0 /\ Busy(c)' = 1 /\ \A d \in Clients : d # c => Busy(d)' = Busy(d)
    BY <1>1, <1>6 DEF Busy
  <2>2. \A d \in Clients : Busy(d) \in 0 .. 1
    BY DEF Busy
  <2>3. cancels' = cancels /\ svc' = svc /\ results' = results
    BY <1>1
  <2>4. calls' = calls + 1 /\ calls \in Nat
    BY <1>1 DEF n
  <2>5. \A d \in Clients : Len(owed'[d]) <= cancels'[d] + Busy(d)'
    BY <1>0, <1>6, <1>8, <2>1, <2>2, <2>3 DEF CountInv
  <2>6. \A d \in Clients : cancels'[d] + Busy(d)' <= calls'
    BY <1>0, <1>6, <2>1, <2>2, <2>3, <2>4 DEF CountInv
  <2> QED
    BY <1>0, <2>3, <2>5, <2>6 DEF CountInv
<1>12. LinkInv'
  <2>1. PICK f \in [0 .. Len(req) -> Rows] : Chain(f) /\ Delivery(f)
    BY <1>0 DEF LinkInv
  <2>2. PICK g : g = [i \in 0 .. Len(req) + 1 |-> IF i <= Len(req) THEN f[i] ELSE rows']
    OBVIOUS
  <2>3. /\ g \in [0 .. Len(req') -> Rows]
        /\ \A i \in 0 .. Len(req) : g[i] = f[i]
        /\ g[Len(req) + 1] = rows'
    BY <1>4, <1>7, <2>2
  <2>4. Chain(g)'
    <3>1. g[0] = db' /\ g[Len(req')] = rows'
      BY <1>1, <1>7, <2>1, <2>3 DEF Chain
    <3>2. ASSUME NEW i \in 1 .. Len(req')
          PROVE  /\ g[i] = ApplyTo(g[i - 1], req'[i].req, req'[i].n)
                 /\ req'[i].req.op = "get" => g[i - 1][req'[i].req.key] # NoValue
      <4>1. CASE i \in 1 .. Len(req)
        <5>1. g[i] = f[i] /\ g[i - 1] = f[i - 1] /\ req'[i] = req[i]
          BY <1>7, <2>3, <4>1
        <5> QED
          BY <2>1, <4>1, <5>1 DEF Chain
      <4>2. CASE i = Len(req) + 1
        <5>1. g[i] = rows' /\ g[i - 1] = f[Len(req)] /\ f[Len(req)] = rows /\ req'[i] = m
          BY <1>7, <2>1, <2>3, <4>2 DEF Chain
        <5>2. m.req = r /\ m.n = n
          BY DEF m
        <5> QED
          BY <1>1, <1>2, <5>1, <5>2
      <4> QED
        BY <1>7, <4>1, <4>2
    <3> QED
      BY <3>1, <3>2 DEF Chain
  <2>5. ReadyFor(c)' = ReadyFor(c) /\ \A d \in Clients : ReadyFor(d)' = ReadyFor(d)
    BY <1>1 DEF ReadyFor
  <2>6. \A i \in 1 .. Len(req) :
          Answer(g[i - 1], req'[i].req, req'[i].n) = Answer(f[i - 1], req[i].req, req[i].n)
    BY <1>7, <2>3
  <2>7. Answer(g[Len(req) + 1 - 1], m.req, m.n) = a /\ m.client = c
    BY <1>7, <2>1, <2>3 DEF Chain, m, a
  <2>8. \A d \in Clients : UnderWay(g, d)' = UnderWay(f, d) \union (IF d = c THEN {a} ELSE {})
    <3>1. \A d \in Clients : ToCome(g, d)' = ToCome(f, d) \union (IF d = c THEN {a} ELSE {})
      <4> SUFFICES ASSUME NEW d \in Clients
                   PROVE  ToCome(g, d)' = ToCome(f, d) \union (IF d = c THEN {a} ELSE {})
        OBVIOUS
      <4>1. 1 .. Len(req') = (1 .. Len(req)) \union {Len(req) + 1}
        BY <1>7
      <4>2. ASSUME NEW x \in ToCome(g, d)'
            PROVE  x \in ToCome(f, d) \union (IF d = c THEN {a} ELSE {})
        <5>1. PICK i \in 1 .. Len(req') : /\ req'[i].client = d
                                         /\ x = Answer(g[i - 1], req'[i].req, req'[i].n)
          BY <4>2 DEF ToCome
        <5>2. CASE i \in 1 .. Len(req)
          BY <1>7, <2>6, <5>1, <5>2 DEF ToCome
        <5>3. CASE i = Len(req) + 1
          BY <1>7, <2>7, <5>1, <5>3
        <5> QED
          BY <4>1, <5>2, <5>3
      <4>3. ASSUME NEW x \in ToCome(f, d) PROVE x \in ToCome(g, d)'
        <5>1. PICK i \in 1 .. Len(req) : /\ req[i].client = d
                                        /\ x = Answer(f[i - 1], req[i].req, req[i].n)
          BY <4>3 DEF ToCome
        <5>2. i \in 1 .. Len(req') /\ req'[i].client = d
              /\ x = Answer(g[i - 1], req'[i].req, req'[i].n)
          BY <1>7, <2>6, <4>1, <5>1
        <5> QED
          BY <5>2 DEF ToCome
      <4>4. ASSUME d = c PROVE a \in ToCome(g, d)'
        <5>1. Len(req) + 1 \in 1 .. Len(req') /\ req'[Len(req) + 1].client = d
              /\ a = Answer(g[Len(req) + 1 - 1], req'[Len(req) + 1].req, req'[Len(req) + 1].n)
          BY <1>7, <2>7, <4>1, <4>4
        <5> QED
          BY <5>1 DEF ToCome
      <4> QED
        BY <4>2, <4>3, <4>4
    <3> QED
      BY <2>5, <3>1 DEF UnderWay
  <2>9. Delivery(g)'
    <3> SUFFICES ASSUME NEW d \in Clients
                 PROVE  /\ Len(resp[d]) <= Len(owed'[d])
                        /\ \A i \in 1 .. Len(resp[d]) : resp[d][i] = owed'[d][i]
                        /\ \A i \in Len(resp[d]) + 1 .. Len(owed'[d]) :
                              owed'[d][i] \in UnderWay(g, d)'
                        /\ \A x \in UnderWay(g, d)' :
                              \E i \in Len(resp[d]) + 1 .. Len(owed'[d]) : owed'[d][i] = x
      BY <1>1 DEF Delivery
    <3>1. Len(resp[d]) \in Nat /\ Len(owed[d]) \in Nat
      BY <1>0 DEF TypeOK, ServiceType, HistType
    <3>2. CASE d # c
      BY <1>8, <2>1, <2>8, <3>1, <3>2 DEF Delivery
    <3>3. CASE d = c
      <4>1. Len(resp[c]) <= Len(owed[c])
        BY <2>1 DEF Delivery
      <4>2. \A i \in 1 .. Len(resp[c]) : resp[c][i] = owed'[c][i]
        BY <1>8, <2>1, <3>1, <4>1, <3>3 DEF Delivery
      <4>3. ASSUME NEW i \in Len(resp[c]) + 1 .. Len(owed'[c]) PROVE owed'[c][i] \in UnderWay(g, c)'
        <5>1. CASE i <= Len(owed[c])
          BY <1>8, <2>1, <2>8, <3>1, <3>3, <5>1 DEF Delivery
        <5>2. CASE i = Len(owed[c]) + 1
          BY <1>8, <2>8, <5>2
        <5> QED
          BY <1>8, <3>1, <3>3, <5>1, <5>2
      <4>4. ASSUME NEW x \in UnderWay(g, c)'
            PROVE  \E i \in Len(resp[c]) + 1 .. Len(owed'[c]) : owed'[c][i] = x
        <5>1. CASE x = a
          BY <1>8, <3>1, <3>3, <4>1, <5>1
        <5>2. CASE x \in UnderWay(f, c)
          <6>1. PICK i \in Len(resp[c]) + 1 .. Len(owed[c]) : owed[c][i] = x
            BY <2>1, <5>2 DEF Delivery
          <6> QED
            BY <1>8, <3>1, <3>3, <6>1
        <5> QED
          BY <2>8, <5>1, <5>2
      <4> QED
        BY <1>8, <3>3, <4>1, <4>2, <4>3, <4>4
    <3> QED
      BY <3>2, <3>3
  <2> QED
    BY <2>3, <2>4, <2>9 DEF LinkInv
<1> QED
  BY <1>9, <1>10, <1>11, <1>12 DEF CoreInv
\* A call returns: the oldest answer in the client's channel is the oldest one
\* it is owed, and both are taken.
LEMMA ReturnHead ==
    ASSUME CoreInv, NEW c \in Clients, Return(c)
    PROVE  /\ resp[c] # <<>> /\ owed[c] # <<>> /\ Len(resp[c]) >= 1 /\ Len(owed[c]) >= 1
           /\ Head(resp[c]) = Head(owed[c]) /\ Head(owed[c]) \in Answers
<1>1. PICK f \in [0 .. Len(req) -> Rows] : Chain(f) /\ Delivery(f)
  BY DEF CoreInv, LinkInv
<1>2. resp[c] \in Seq(Answers) /\ owed[c] \in Seq(Answers)
  BY DEF CoreInv, TypeOK, ServiceType, HistType
<1>3. resp[c] # <<>>
  BY DEF Return
<1>4. Len(resp[c]) >= 1 /\ Len(resp[c]) <= Len(owed[c]) /\ resp[c][1] = owed[c][1]
  BY <1>1, <1>2, <1>3 DEF Delivery
<1> QED
  BY <1>2, <1>3, <1>4

\* Taking the answer keeps the invariant.
LEMMA ReturnInv ==
    ASSUME CoreInv, NEW c \in Clients, Return(c)
    PROVE  CoreInv'
<1>0. TypeOK /\ OrderInv /\ CountInv /\ LinkInv
  BY DEF CoreInv
<1>1. /\ call[c] # NoValue /\ resp' = [resp EXCEPT ![c] = Tail(resp[c])]
      /\ owed' = [owed EXCEPT ![c] = Tail(owed[c])]
      /\ got' = [got EXCEPT ![c] = Result(call[c].req, Head(resp[c]))]
      /\ call' = [call EXCEPT ![c] = NoValue] /\ slept' = [slept EXCEPT ![c] = FALSE]
      /\ UNCHANGED <<db, svc, results, running, req, push, waiters, calls, cancels, rows>>
  BY DEF Return, serviceVars, pushVars
<1>2. /\ resp[c] # <<>> /\ owed[c] # <<>> /\ Len(resp[c]) >= 1 /\ Len(owed[c]) >= 1
      /\ Head(resp[c]) = Head(owed[c]) /\ Head(owed[c]) \in Answers
  BY ReturnHead
<1>3. /\ resp \in [Clients -> Seq(Answers)] /\ owed \in [Clients -> Seq(Answers)]
      /\ \A d \in Clients : Len(resp[d]) <= RespCap
  BY <1>0 DEF TypeOK, ServiceType, HistType
<1>4. /\ resp'[c] \in Seq(Answers) /\ Len(resp'[c]) = Len(resp[c]) - 1
      /\ \A i \in 1 .. Len(resp'[c]) : resp'[c][i] = resp[c][i + 1]
      /\ \A d \in Clients : d # c => resp'[d] = resp[d]
  BY <1>1, <1>2, <1>3
<1>5. /\ owed'[c] \in Seq(Answers) /\ Len(owed'[c]) = Len(owed[c]) - 1
      /\ \A i \in 1 .. Len(owed'[c]) : owed'[c][i] = owed[c][i + 1]
      /\ \A d \in Clients : d # c => owed'[d] = owed[d]
  BY <1>1, <1>2, <1>3
<1>6. \A d \in Clients : Len(resp[d]) \in Nat /\ Len(owed[d]) \in Nat
  BY <1>0, QueueTypes
<1>7. TypeOK'
  <2>1. /\ db \in Rows /\ running \in BOOLEAN /\ req \in Seq(Requests)
        /\ svc \in {"loop", "pop", "clear", "exited", "failed", "blocked"}
        /\ results \in Seq([client: Clients, ans: Answers])
        /\ RespCap \in Nat /\ Len(req) <= ReqCap
    BY <1>0, RocksAssumption DEF TypeOK, ServiceType
  <2>2. \A d \in Clients : Len(resp'[d]) <= RespCap
    <3>1. Len(resp'[c]) <= RespCap
      BY <1>3, <1>4, <1>6, <2>1
    <3>2. \A d \in Clients : d # c => Len(resp'[d]) <= RespCap
      BY <1>3, <1>4
    <3> QED
      BY <3>1, <3>2
  <2>3. resp' \in [Clients -> Seq(Answers)]
    BY <1>1, <1>3, <1>4
  <2>4. ServiceType'
    BY <1>1, <2>1, <2>2, <2>3 DEF ServiceType
  <2>5. Result(call[c].req, Head(resp[c])) \in Results
    <3>1. call[c].req \in Request
      BY <1>0, <1>1 DEF TypeOK, ClientType
    <3> QED
      BY <1>2, <3>1 DEF Result, Results, Answers
  <2>6. ClientType'
    BY <1>0, <1>1, <2>5 DEF TypeOK, ClientType
  <2>7. HistType'
    BY <1>0, <1>1, <1>3, <1>5 DEF TypeOK, HistType
  <2> QED
    BY <2>4, <2>6, <2>7 DEF TypeOK
<1>8. OrderInv'
  <2>1. \A d \in Clients : \A i, j \in 1 .. Len(owed'[d]) :
            i < j => owed'[d][i].call < owed'[d][j].call
    <3> SUFFICES ASSUME NEW i \in 1 .. Len(owed'[c]), NEW j \in 1 .. Len(owed'[c]), i < j
                 PROVE  owed'[c][i].call < owed'[c][j].call
      BY <1>0, <1>5 DEF OrderInv
    <3>1. /\ i + 1 \in 1 .. Len(owed[c]) /\ j + 1 \in 1 .. Len(owed[c]) /\ i + 1 < j + 1
          /\ owed'[c][i] = owed[c][i + 1] /\ owed'[c][j] = owed[c][j + 1]
      BY <1>5, <1>6
    <3> QED
      BY <1>0, <3>1 DEF OrderInv
  <2>2. \A d \in Clients : \A i \in 1 .. Len(owed'[d]) : owed'[d][i].call <= calls
    <3> SUFFICES ASSUME NEW i \in 1 .. Len(owed'[c]) PROVE owed'[c][i].call <= calls
      BY <1>0, <1>5 DEF OrderInv
    <3>1. i + 1 \in 1 .. Len(owed[c]) /\ owed'[c][i] = owed[c][i + 1]
      BY <1>5, <1>6
    <3> QED
      BY <1>0, <3>1 DEF OrderInv
  <2> QED
    BY <1>0, <1>1, <2>1, <2>2 DEF OrderInv
<1>9. CountInv'
  <2>1. \A d \in Clients : cancels[d] \in Nat /\ calls \in Nat
    BY <1>0, RocksAssumption DEF TypeOK, ClientType
  <2>2. /\ Busy(c) = 1 /\ Busy(c)' = 0 /\ \A d \in Clients : d # c => Busy(d)' = Busy(d)
        /\ \A d \in Clients : Busy(d) \in 0 .. 1
    BY <1>0, <1>1 DEF Busy, TypeOK, ClientType
  <2>3. \A d \in Clients : Len(owed'[d]) <= cancels[d] + Busy(d)'
    BY <1>0, <1>5, <1>6, <2>1, <2>2 DEF CountInv
  <2>4. \A d \in Clients : cancels[d] + Busy(d)' <= calls
    BY <1>0, <2>1, <2>2 DEF CountInv
  <2> QED
    BY <1>0, <1>1, <2>3, <2>4 DEF CountInv
<1>10. LinkInv'
  <2>1. PICK f \in [0 .. Len(req) -> Rows] : Chain(f) /\ Delivery(f)
    BY <1>0 DEF LinkInv
  <2>2. Chain(f)'
    BY <1>1, <2>1 DEF Chain
  <2>3. \A d \in Clients : UnderWay(f, d)' = UnderWay(f, d)
    BY <1>1 DEF UnderWay, ReadyFor, ToCome
  <2>4. Delivery(f)'
    <3> SUFFICES ASSUME NEW d \in Clients
                 PROVE  /\ Len(resp'[d]) <= Len(owed'[d])
                        /\ \A i \in 1 .. Len(resp'[d]) : resp'[d][i] = owed'[d][i]
                        /\ \A i \in Len(resp'[d]) + 1 .. Len(owed'[d]) :
                              owed'[d][i] \in UnderWay(f, d)
                        /\ \A x \in UnderWay(f, d) :
                              \E i \in Len(resp'[d]) + 1 .. Len(owed'[d]) : owed'[d][i] = x
      BY <2>3 DEF Delivery
    <3>1. CASE d # c
      <4>1. resp'[d] = resp[d] /\ owed'[d] = owed[d]
        BY <1>4, <1>5, <3>1
      <4> QED
        BY <2>1, <4>1 DEF Delivery
    <3>2. CASE d = c
      <4>1. Len(resp'[c]) <= Len(owed'[c])
        BY <1>4, <1>5, <1>6, <2>1 DEF Delivery
      <4>2. ASSUME NEW i \in 1 .. Len(resp'[c]) PROVE resp'[c][i] = owed'[c][i]
        <5>1. i + 1 \in 1 .. Len(resp[c]) /\ i \in 1 .. Len(owed'[c])
          BY <1>4, <1>5, <1>6, <4>1
        <5> QED
          BY <1>4, <1>5, <2>1, <5>1 DEF Delivery
      <4>3. ASSUME NEW i \in Len(resp'[c]) + 1 .. Len(owed'[c])
            PROVE  owed'[c][i] \in UnderWay(f, c)
        <5>1. i + 1 \in Len(resp[c]) + 1 .. Len(owed[c]) /\ i \in 1 .. Len(owed'[c])
          BY <1>2, <1>4, <1>5, <1>6
        <5> QED
          BY <1>5, <2>1, <5>1 DEF Delivery
      <4>4. ASSUME NEW x \in UnderWay(f, c)
            PROVE  \E i \in Len(resp'[c]) + 1 .. Len(owed'[c]) : owed'[c][i] = x
        <5>1. PICK i \in Len(resp[c]) + 1 .. Len(owed[c]) : owed[c][i] = x
          BY <2>1 DEF Delivery
        <5>2. /\ i - 1 \in Len(resp'[c]) + 1 .. Len(owed'[c]) /\ i - 1 \in 1 .. Len(owed'[c])
              /\ (i - 1) + 1 = i
          BY <1>2, <1>4, <1>5, <1>6
        <5>3. owed'[c][i - 1] = x
          BY <1>5, <5>1, <5>2
        <5> QED
          BY <5>2, <5>3
      <4> QED
        BY <3>2, <4>1, <4>2, <4>3, <4>4
    <3> QED
      BY <3>1, <3>2
  <2> QED
    BY <1>1, <2>1, <2>2, <2>4 DEF LinkInv
<1> QED
  BY <1>7, <1>8, <1>9, <1>10 DEF CoreInv

-----------------------------------------------------------------------------
(* The steps that move no message. *)

\* A step that leaves the queues, RocksDB and the history alone keeps what they
\* say of each other.
LEMMA LinkSame ==
    ASSUME LinkInv, UNCHANGED <<db, req, results, resp, rows, owed>>
    PROVE  LinkInv'
<1>1. PICK f \in [0 .. Len(req) -> Rows] : Chain(f) /\ Delivery(f)
  BY DEF LinkInv
<1>2. Chain(f)'
  BY <1>1 DEF Chain
<1>3. \A c \in Clients : UnderWay(f, c)' = UnderWay(f, c)
  BY DEF UnderWay, ReadyFor, ToCome
<1>4. Delivery(f)'
  <2> SUFFICES ASSUME NEW c \in Clients
               PROVE  /\ Len(resp[c]) <= Len(owed[c])
                      /\ \A i \in 1 .. Len(resp[c]) : resp[c][i] = owed[c][i]
                      /\ \A i \in Len(resp[c]) + 1 .. Len(owed[c]) : owed[c][i] \in UnderWay(f, c)
                      /\ \A a \in UnderWay(f, c) :
                            \E i \in Len(resp[c]) + 1 .. Len(owed[c]) : owed[c][i] = a
    BY <1>3 DEF Delivery
  <2> QED
    BY <1>1 DEF Delivery
<1> QED
  BY <1>1, <1>2, <1>4 DEF LinkInv

\* Calls that are refused, cancelled or put to sleep, the turns of the service's
\* loop, and its end.
LEMMA QuietInv ==
    ASSUME CoreInv,
           \/ \E c \in Clients, r \in Request : CallRefused(c, r) \/ CallSleeps(c, r)
           \/ \E c \in Clients : Cancel(c) \/ CancelPush(c)
           \/ Loop \/ PopNull \/ ClearDone \/ ClearTooLarge \/ ClearBlocked \/ Terminate
           \/ UNCHANGED vars
    PROVE  CoreInv'
<1>0. TypeOK /\ OrderInv /\ CountInv /\ LinkInv
  BY DEF CoreInv
<1>1. UNCHANGED <<db, req, results, resp, rows, owed>>
  BY DEF CallRefused, CallSleeps, Cancel, CancelPush, Loop, PopNull, ClearDone, ClearTooLarge, ClearBlocked, Terminate,
         vars, serviceVars, histVars
<1>2. LinkInv'
  BY <1>0, <1>1, LinkSame
<1>3. TypeOK'
  <2>1. svc' \in {"loop", "pop", "clear", "exited", "failed", "blocked"} /\ running' \in BOOLEAN
    BY <1>0 DEF CallRefused, CallSleeps, Cancel, CancelPush, Loop, PopNull, ClearDone, ClearTooLarge, ClearBlocked,
                Terminate, vars, serviceVars, TypeOK, ServiceType
  <2>2. ServiceType' /\ HistType'
    BY <1>0, <1>1, <2>1 DEF TypeOK, ServiceType, HistType
  <2>3. ClientType'
    <3>0. push' \in [Clients -> Request \union {NoValue}] /\ waiters' \subseteq Clients
      BY <1>0 DEF CallRefused, CallSleeps, Cancel, CancelPush, Loop, PopNull, ClearDone,
                  ClearTooLarge, ClearBlocked, Terminate, vars, pushVars, TypeOK, ClientType
    <3>1. CASE UNCHANGED clientVars
      BY <1>0, <3>0, <3>1 DEF clientVars, TypeOK, ClientType
    <3>2. ASSUME NEW c \in Clients, NEW r \in Request, CallRefused(c, r) PROVE ClientType'
      <4>1. Refused(r) \in Results
        BY DEF Refused, Results
      <4>2. calls' \in Nat
        BY <1>0, <3>2, RocksAssumption DEF CallRefused, TypeOK, ClientType
      <4>3. got' \in [Clients -> Results \union {NoValue}]
        BY <1>0, <3>2, <4>1 DEF CallRefused, TypeOK, ClientType
      <4> QED
        BY <1>0, <3>0, <3>2, <4>2, <4>3 DEF CallRefused, TypeOK, ClientType
    <3>3. ASSUME NEW c \in Clients, Cancel(c) PROVE ClientType'
      <4>1. cancels[c] \in Nat /\ calls \in Nat /\ cancels[c] + 1 <= calls
        BY <1>0, <3>3 DEF Cancel, CountInv, Busy, TypeOK, ClientType
      <4>2. cancels' \in [Clients -> Nat]
        BY <1>0, <3>3, <4>1, RocksAssumption DEF Cancel, TypeOK, ClientType
      <4> QED
        BY <1>0, <3>0, <3>3, <4>2 DEF Cancel, TypeOK, ClientType
    <3> QED
      BY <3>1, <3>2, <3>3 DEF CallSleeps, CancelPush, Loop, PopNull, ClearDone, ClearTooLarge,
                              ClearBlocked, Terminate, vars
  <2> QED
    BY <2>2, <2>3 DEF TypeOK
<1>4. OrderInv'
  <2>1. calls' \in Nat /\ calls \in Nat /\ calls <= calls'
    BY <1>0, RocksAssumption
    DEF CallRefused, CallSleeps, Cancel, CancelPush, Loop, PopNull, ClearDone, ClearTooLarge, ClearBlocked, Terminate,
        vars, clientVars, TypeOK, ClientType
  <2>2. svc' \in {"loop", "pop", "exited"} => results = <<>>
    BY <1>0 DEF CallRefused, CallSleeps, Cancel, CancelPush, Loop, PopNull, ClearDone, ClearTooLarge, ClearBlocked,
                Terminate, vars, serviceVars, OrderInv
  <2>3. /\ \A c \in Clients : \A i \in 1 .. Len(owed[c]) : owed[c][i].call <= calls'
        /\ \A i \in 1 .. Len(req) : req[i].n <= calls'
    BY <1>0, <2>1, QueueTypes DEF OrderInv
  <2> QED
    BY <1>0, <1>1, <2>2, <2>3 DEF OrderInv
<1>5. CountInv'
  <2>1. \A c \in Clients : cancels[c] \in Nat /\ Busy(c) \in 0 .. 1 /\ calls \in Nat
    BY <1>0, RocksAssumption DEF TypeOK, ClientType, Busy
  <2>2. \A c \in Clients : /\ cancels'[c] + Busy(c)' = cancels[c] + Busy(c)
                           /\ cancels'[c] >= cancels[c]
    <3>1. CASE UNCHANGED <<call, cancels>>
      BY <2>1, <3>1 DEF Busy
    <3>2. ASSUME NEW c \in Clients, Cancel(c)
          PROVE  \A d \in Clients : /\ cancels'[d] + Busy(d)' = cancels[d] + Busy(d)
                                    /\ cancels'[d] >= cancels[d]
      <4>1. /\ cancels'[c] = cancels[c] + 1 /\ Busy(c) = 1 /\ Busy(c)' = 0
            /\ \A d \in Clients : d # c => cancels'[d] = cancels[d] /\ Busy(d)' = Busy(d)
        BY <1>0, <3>2 DEF Cancel, TypeOK, ClientType, Busy
      <4> QED
        BY <2>1, <4>1
    <3> QED
      BY <3>1, <3>2 DEF CallRefused, CallSleeps, CancelPush, Loop, PopNull, ClearDone, ClearTooLarge, ClearBlocked,
                        Terminate, vars, clientVars
  <2>3. calls' \in Nat /\ calls <= calls'
    BY <1>0, RocksAssumption
    DEF CallRefused, CallSleeps, Cancel, CancelPush, Loop, PopNull, ClearDone, ClearTooLarge, ClearBlocked, Terminate,
        vars, clientVars, TypeOK, ClientType
  <2>4. \A c \in Clients : cancels'[c] + Busy(c)' <= calls'
    BY <1>0, <2>1, <2>2, <2>3 DEF CountInv
  <2>5. ASSUME svc' = "blocked"
        PROVE  results # <<>> /\ cancels'[Head(results).client] >= RespCap
    <3>1. results # <<>> => Head(results).client \in Clients /\ Head(results) = results[1]
                            /\ 1 \in 1 .. Len(results)
      <4>1. results # <<>> => Head(results) = results[1] /\ 1 \in 1 .. Len(results)
        BY <1>0 DEF TypeOK, ServiceType
      <4> QED
        BY <1>0, <4>1, QueueTypes
    <3>2. RespCap \in Nat
      BY RocksAssumption
    <3>3. CASE svc = "blocked"
      BY <1>0, <2>1, <2>2, <3>1, <3>2, <3>3, <1>3 DEF CountInv, TypeOK, ClientType
    <3>4. CASE ClearBlocked
      <4> DEFINE c == Head(results).client
      <4>1. results # <<>> /\ c \in Clients /\ Len(resp[c]) >= RespCap /\ UNCHANGED cancels
        BY <3>1, <3>4 DEF ClearBlocked, clientVars
      <4>2. PICK f \in [0 .. Len(req) -> Rows] : Chain(f) /\ Delivery(f)
        BY <1>0 DEF LinkInv
      <4>3. results[1].ans \in UnderWay(f, c)
        BY <3>1, <4>1 DEF UnderWay, ReadyFor
      <4>4. PICK i \in Len(resp[c]) + 1 .. Len(owed[c]) : owed[c][i] = results[1].ans
        BY <4>1, <4>2, <4>3 DEF Delivery
      <4>5. Len(owed[c]) >= RespCap + 1 /\ Len(owed[c]) \in Nat
        BY <1>0, <3>2, <4>1, <4>4, QueueTypes
      <4>6. Len(owed[c]) <= cancels[c] + Busy(c)
        BY <1>0, <4>1 DEF CountInv
      <4> QED
        BY <2>1, <3>2, <4>1, <4>5, <4>6
    <3> QED
      BY <2>5, <3>3, <3>4 DEF CallRefused, CallSleeps, Cancel, CancelPush, Loop, PopNull, ClearDone, ClearTooLarge,
                              Terminate, vars, serviceVars
  <2> QED
    BY <1>0, <1>1, <2>1, <2>2, <2>4, <2>5 DEF CountInv
<1> QED
  BY <1>2, <1>3, <1>4, <1>5 DEF CoreInv

-----------------------------------------------------------------------------
(* The steps of the service that move a message. *)

\* A request is carried out: its answer moves from what is to come to what is
\* ready, and the store the answers to come are taken from moves on by one.
LEMMA ProcessRequestInv ==
    ASSUME CoreInv, ProcessRequest
    PROVE  CoreInv'
<1>0. TypeOK /\ OrderInv /\ CountInv /\ LinkInv
  BY DEF CoreInv
<1>1. PICK f \in [0 .. Len(req) -> Rows] : Chain(f) /\ Delivery(f)
  BY <1>0 DEF LinkInv
<1> DEFINE m == req[1]
           a == Answer(f[0], m.req, m.n)
           x == [client |-> m.client, ans |-> a]
<1>2. req \in Seq(Requests) /\ Len(req) \in Nat /\ req # <<>> /\ Head(req) = m /\ Len(req) >= 1
  <2>1. req \in Seq(Requests) /\ req # <<>>
    BY <1>0 DEF ProcessRequest, TypeOK, ServiceType
  <2> QED
    BY <2>1
<1>3. m.client \in Clients /\ m.req \in Request /\ m.n \in Nat \ {0} /\ m.n \in Nat
  BY <1>0, <1>2, QueueTypes
<1>4. /\ f[0] = db /\ f[0] \in Rows /\ f[1] = ApplyTo(f[0], m.req, m.n) /\ f[1] \in Rows
      /\ m.req.op = "get" => f[0][m.req.key] # NoValue
  <2>1. 0 \in 0 .. Len(req) /\ 1 \in 0 .. Len(req) /\ 1 \in 1 .. Len(req) /\ 1 - 1 = 0
    BY <1>2
  <2> QED
    BY <1>1, <2>1 DEF Chain
<1>5. a \in Answers /\ a.call = m.n
  BY <1>3, <1>4, AnswerType
<1>6. results = <<>>
  BY <1>0 DEF ProcessRequest, OrderInv
<1>7. /\ svc' = "clear" /\ db' = f[1] /\ req' = Tail(req) /\ results' = <<x>>
      /\ UNCHANGED <<running, resp, push, waiters, call, got, calls, slept, cancels, rows, owed>>
  BY <1>2, <1>4, <1>6 DEF ProcessRequest, pushVars, clientVars, histVars
<1>8. x \in [client: Clients, ans: Answers] /\ x.client = m.client /\ x.ans = a
  BY <1>3, <1>5
<1> HIDE DEF a, x
<1>9. Len(results') = 1 /\ results'[1] = x
  BY <1>7
<1>10. /\ req' \in Seq(Requests) /\ Len(req') = Len(req) - 1 /\ Len(req') \in Nat
       /\ \A i \in 1 .. Len(req') : req'[i] = req[i + 1] /\ i + 1 \in 1 .. Len(req)
  BY <1>2, <1>7
<1>11. TypeOK'
  <2> DEFINE Ready == [client: Clients, ans: Answers]
  <2>1. x \in Ready
    BY <1>8
  <2> HIDE DEF Ready
  <2>2. results' \in Seq(Ready)
    BY <1>7, <2>1
  <2>3. ServiceType'
    <3>1. Len(req') <= ReqCap
      <4>1. Len(req) \in Nat /\ Len(req) <= ReqCap /\ ReqCap \in Nat
        BY <1>0, <1>2, RocksAssumption DEF TypeOK, ServiceType
      <4>2. Len(req') = Len(req) - 1
        BY <1>10
      <4> QED
        BY <4>1, <4>2
    <3> QED
      BY <1>0, <1>4, <1>7, <1>10, <2>2, <3>1 DEF TypeOK, ServiceType, Ready
  <2>4. ClientType' /\ HistType'
    BY <1>0, <1>7 DEF TypeOK, ClientType, HistType
  <2> QED
    BY <2>3, <2>4 DEF TypeOK
<1>12. OrderInv'
  <2>1. \A i \in 1 .. Len(req) : req[i].n \in Nat
    BY <1>0, QueueTypes
  <2>2. \A i, j \in 1 .. Len(req') : i < j => req'[i].n < req'[j].n
    <3> SUFFICES ASSUME NEW i \in 1 .. Len(req'), NEW j \in 1 .. Len(req'), i < j
                 PROVE  req'[i].n < req'[j].n
      OBVIOUS
    <3>1. /\ i + 1 \in 1 .. Len(req) /\ j + 1 \in 1 .. Len(req) /\ i + 1 < j + 1
          /\ req'[i] = req[i + 1] /\ req'[j] = req[j + 1]
      BY <1>10
    <3> QED
      BY <1>0, <3>1 DEF OrderInv
  <2>3. \A i \in 1 .. Len(req') : req'[i].n <= calls
    BY <1>0, <1>10 DEF OrderInv
  <2>4. \A i \in 1 .. Len(results'), j \in 1 .. Len(req') : results'[i].ans.call < req'[j].n
    <3> SUFFICES ASSUME NEW j \in 1 .. Len(req') PROVE m.n < req'[j].n
      BY <1>5, <1>8, <1>9
    <3>1. 1 \in 1 .. Len(req) /\ j + 1 \in 1 .. Len(req) /\ 1 < j + 1 /\ req'[j] = req[j + 1]
      BY <1>2, <1>10
    <3> QED
      BY <1>0, <3>1 DEF OrderInv
  <2> QED
    BY <1>0, <1>7, <1>9, <2>2, <2>3, <2>4 DEF OrderInv
<1>13. CountInv'
  BY <1>0, <1>7 DEF CountInv, Busy
<1>14. LinkInv'
  <2>1. PICK g : g = [i \in 0 .. Len(req) - 1 |-> f[i + 1]]
    OBVIOUS
  <2>2. /\ g \in [0 .. Len(req') -> Rows]
        /\ \A i \in 0 .. Len(req') : g[i] = f[i + 1]
    BY <1>2, <1>10, <2>1
  <2>3. \A i \in 1 .. Len(req') : /\ g[i] = f[i + 1] /\ g[i - 1] = f[i]
                                 /\ req'[i] = req[i + 1] /\ i + 1 \in 1 .. Len(req)
                                 /\ (i + 1) - 1 = i
    <3> SUFFICES ASSUME NEW i \in 1 .. Len(req')
                 PROVE  /\ g[i] = f[i + 1] /\ g[i - 1] = f[i]
                        /\ req'[i] = req[i + 1] /\ i + 1 \in 1 .. Len(req) /\ (i + 1) - 1 = i
      OBVIOUS
    <3>1. i \in 0 .. Len(req') /\ i - 1 \in 0 .. Len(req') /\ (i - 1) + 1 = i /\ (i + 1) - 1 = i
      BY <1>10
    <3>2. g[i - 1] = f[(i - 1) + 1]
      BY <2>2, <3>1
    <3> QED
      BY <1>10, <2>2, <3>1, <3>2
  <2>4. Chain(g)'
    <3>1. g[0] = db'
      <4>1. 0 \in 0 .. Len(req') /\ 0 + 1 = 1
        BY <1>10
      <4> QED
        BY <1>7, <2>2, <4>1
    <3>2. g[Len(req')] = rows'
      <4>1. Len(req') \in 0 .. Len(req') /\ Len(req') + 1 = Len(req)
        BY <1>2, <1>10
      <4> QED
        BY <1>1, <1>7, <2>2, <4>1 DEF Chain
    <3>3. ASSUME NEW i \in 1 .. Len(req')
          PROVE  /\ g[i] = ApplyTo(g[i - 1], req'[i].req, req'[i].n)
                 /\ req'[i].req.op = "get" => g[i - 1][req'[i].req.key] # NoValue
      <4>1. /\ f[i + 1] = ApplyTo(f[(i + 1) - 1], req[i + 1].req, req[i + 1].n)
            /\ req[i + 1].req.op = "get" => f[(i + 1) - 1][req[i + 1].req.key] # NoValue
        BY <1>1, <2>3 DEF Chain
      <4> QED
        BY <2>3, <4>1
    <3> QED
      BY <3>1, <3>2, <3>3 DEF Chain
  <2>5. \A d \in Clients : UnderWay(g, d)' = UnderWay(f, d)
    <3> SUFFICES ASSUME NEW d \in Clients PROVE UnderWay(g, d)' = UnderWay(f, d)
      OBVIOUS
    <3>1. ReadyFor(d) = {}
      BY <1>6 DEF ReadyFor
    <3>2. ReadyFor(d)' = IF d = m.client THEN {a} ELSE {}
      <4>1. \A i : i \in 1 .. Len(results') <=> i = 1
        BY <1>9
      <4> QED
        BY <1>8, <1>9, <4>1 DEF ReadyFor
    <3>3. ASSUME NEW z \in ToCome(g, d)' PROVE z \in ToCome(f, d)
      <4>1. PICK i \in 1 .. Len(req') : req'[i].client = d
                    /\ z = Answer(g[i - 1], req'[i].req, req'[i].n)
        BY <3>3 DEF ToCome
      <4>2. req[i + 1].client = d /\ z = Answer(f[(i + 1) - 1], req[i + 1].req, req[i + 1].n)
        BY <2>3, <4>1
      <4> QED
        BY <2>3, <4>2 DEF ToCome
    <3>4. ASSUME d = m.client PROVE a \in ToCome(f, d)
      <4>1. 1 \in 1 .. Len(req) /\ 1 - 1 = 0 /\ req[1].client = d
        BY <1>2, <3>4
      <4>2. a = Answer(f[1 - 1], req[1].req, req[1].n)
        BY <4>1 DEF a
      <4> QED
        BY <4>1, <4>2 DEF ToCome
    <3>5. ASSUME NEW z \in ToCome(f, d) PROVE z \in ToCome(g, d)' \/ (d = m.client /\ z = a)
      <4>1. PICK j \in 1 .. Len(req) : req[j].client = d
                    /\ z = Answer(f[j - 1], req[j].req, req[j].n)
        BY <3>5 DEF ToCome
      <4>2. CASE j = 1
        <5>1. f[j - 1] = f[0]
          BY <4>2
        <5> QED
          BY <4>1, <4>2, <5>1 DEF a
      <4>3. CASE j # 1
        <5> DEFINE i == j - 1
        <5>1. i \in 1 .. Len(req') /\ i + 1 = j
          BY <1>2, <1>10, <4>3
        <5> HIDE DEF i
        <5>2. g[i - 1] = f[j - 1] /\ req'[i] = req[j]
          BY <2>3, <5>1
        <5>3. req'[i].client = d /\ z = Answer(g[i - 1], req'[i].req, req'[i].n)
          BY <4>1, <5>2
        <5> QED
          BY <5>1, <5>3 DEF ToCome
      <4> QED
        BY <4>2, <4>3
    <3> QED
      BY <3>1, <3>2, <3>3, <3>4, <3>5 DEF UnderWay
  <2>6. Delivery(g)'
    <3> SUFFICES ASSUME NEW d \in Clients
                 PROVE  /\ Len(resp[d]) <= Len(owed[d])
                        /\ \A i \in 1 .. Len(resp[d]) : resp[d][i] = owed[d][i]
                        /\ \A i \in Len(resp[d]) + 1 .. Len(owed[d]) : owed[d][i] \in UnderWay(f, d)
                        /\ \A z \in UnderWay(f, d) :
                              \E i \in Len(resp[d]) + 1 .. Len(owed[d]) : owed[d][i] = z
      BY <1>7, <2>5 DEF Delivery
    <3> QED
      BY <1>1 DEF Delivery
  <2> QED
    BY <2>2, <2>4, <2>6 DEF LinkInv
<1> QED
  BY <1>11, <1>12, <1>13, <1>14 DEF CoreInv

\* An answer is sent.  It has the least call number of all that are under way,
\* so it is the next one its client is owed.
LEMMA ClearOneInv ==
    ASSUME CoreInv, ClearOne
    PROVE  CoreInv'
<1>0. TypeOK /\ OrderInv /\ CountInv /\ LinkInv
  BY DEF CoreInv
<1>1. PICK f \in [0 .. Len(req) -> Rows] : Chain(f) /\ Delivery(f)
  BY <1>0 DEF LinkInv
<1> DEFINE x == results[1]
           c == x.client
           a == x.ans
           L == Len(resp[c])
<1>2. Len(results) = 1 /\ Head(results) = x /\ Tail(results) = <<>>
  <2> DEFINE Ready == [client: Clients, ans: Answers]
  <2>1. results \in Seq(Ready) /\ results # <<>> /\ Len(results) <= 1
    BY <1>0 DEF ClearOne, TypeOK, ServiceType, OrderInv
  <2> HIDE DEF Ready
  <2>2. Len(results) = 1
    BY <2>1
  <2> QED
    BY <2>1, <2>2
<1>3. c \in Clients /\ a \in Answers /\ a.call \in Nat
  BY <1>0, <1>2, QueueTypes
<1>4. /\ svc = "clear" /\ L < RespCap /\ resp' = [resp EXCEPT ![c] = Append(resp[c], a)]
      /\ results' = <<>>
      /\ UNCHANGED <<db, svc, running, req, push, waiters, call, got, calls, slept, cancels, rows,
                     owed>>
  BY <1>2 DEF ClearOne, pushVars, clientVars, histVars
<1>5. /\ resp \in [Clients -> Seq(Answers)] /\ RespCap \in Nat
      /\ \A d \in Clients : Len(resp[d]) <= RespCap
  BY <1>0, RocksAssumption DEF TypeOK, ServiceType
<1>6. \A d \in Clients : /\ Len(resp[d]) \in Nat /\ Len(owed[d]) \in Nat
                         /\ \A i \in 1 .. Len(owed[d]) : owed[d][i].call \in Nat
  BY <1>0, QueueTypes
<1> HIDE DEF x
<1>7. /\ resp'[c] \in Seq(Answers) /\ Len(resp'[c]) = L + 1 /\ resp'[c][L + 1] = a
      /\ \A i \in 1 .. L : resp'[c][i] = resp[c][i]
      /\ \A d \in Clients : d # c => resp'[d] = resp[d]
  <2>1. resp[c] \in Seq(Answers) /\ resp'[c] = Append(resp[c], a)
    BY <1>3, <1>4, <1>5
  <2> HIDE DEF c, a
  <2>2. /\ resp'[c] \in Seq(Answers) /\ Len(resp'[c]) = L + 1 /\ resp'[c][L + 1] = a
        /\ \A i \in 1 .. L : resp'[c][i] = resp[c][i]
    BY <1>3, <2>1
  <2> QED
    BY <1>4, <1>5, <2>2
<1> HIDE DEF c, a
<1>8. TypeOK'
  <2>1. \A d \in Clients : Len(resp'[d]) <= RespCap
    <3>1. Len(resp'[c]) <= RespCap
      BY <1>3, <1>4, <1>5, <1>6, <1>7
    <3>2. \A d \in Clients : d # c => Len(resp'[d]) <= RespCap
      BY <1>5, <1>7
    <3> QED
      BY <3>1, <3>2
  <2>2. resp' \in [Clients -> Seq(Answers)]
    BY <1>4, <1>5, <1>7
  <2>3. ServiceType'
    BY <1>0, <1>4, <2>1, <2>2 DEF TypeOK, ServiceType
  <2>4. ClientType' /\ HistType'
    BY <1>0, <1>4 DEF TypeOK, ClientType, HistType
  <2> QED
    BY <2>3, <2>4 DEF TypeOK
<1>9. OrderInv'
  BY <1>0, <1>4 DEF OrderInv
<1>10. CountInv'
  BY <1>0, <1>4 DEF CountInv, Busy
<1>11. Chain(f)'
  BY <1>1, <1>4 DEF Chain
<1>12. \A d \in Clients : ReadyFor(d) = IF d = c THEN {a} ELSE {}
  <2>1. \A i : i \in 1 .. Len(results) <=> i = 1
    BY <1>2
  <2> QED
    BY <2>1 DEF ReadyFor, x, c, a
<1>13. \A d \in Clients : UnderWay(f, d)' = ToCome(f, d)
  <2>1. \A d \in Clients : ReadyFor(d)' = {}
    BY <1>4 DEF ReadyFor
  <2>2. \A d \in Clients : ToCome(f, d)' = ToCome(f, d)
    BY <1>4 DEF ToCome
  <2> QED
    BY <2>1, <2>2 DEF UnderWay
<1>14. \A z \in ToCome(f, c) : z.call > a.call
  <2> SUFFICES ASSUME NEW z \in ToCome(f, c) PROVE z.call > a.call
    OBVIOUS
  <2>1. PICK j \in 1 .. Len(req) : z = Answer(f[j - 1], req[j].req, req[j].n)
    BY DEF ToCome
  <2>2. z.call = req[j].n /\ req[j].n \in Nat
    BY <1>0, <2>1, QueueTypes DEF Answer
  <2>3. a.call < req[j].n
    <3>1. 1 \in 1 .. Len(results)
      BY <1>2
    <3> QED
      BY <1>0, <3>1 DEF OrderInv, a, x
  <2> QED
    BY <1>3, <2>2, <2>3
<1>15. /\ Len(resp[c]) <= Len(owed[c])
       /\ \A i \in 1 .. Len(resp[c]) : resp[c][i] = owed[c][i]
       /\ \A i \in Len(resp[c]) + 1 .. Len(owed[c]) : owed[c][i] \in {a} \union ToCome(f, c)
       /\ \A z \in {a} \union ToCome(f, c) :
             \E i \in Len(resp[c]) + 1 .. Len(owed[c]) : owed[c][i] = z
  <2>1. UnderWay(f, c) = {a} \union ToCome(f, c)
    BY <1>3, <1>12 DEF UnderWay
  <2> QED
    BY <1>1, <1>3, <2>1 DEF Delivery
<1>16. \A i, j \in 1 .. Len(owed[c]) : i < j => owed[c][i].call < owed[c][j].call
  BY <1>0, <1>3 DEF OrderInv
<1>17. L \in Nat /\ Len(owed[c]) \in Nat /\ \A i \in 1 .. Len(owed[c]) : owed[c][i].call \in Nat
  BY <1>3, <1>6
<1>18. L + 1 \in 1 .. Len(owed[c]) /\ owed[c][L + 1] = a
  <2>1. PICK k \in L + 1 .. Len(owed[c]) : owed[c][k] = a
    BY <1>15
  <2>2. k \in 1 .. Len(owed[c]) /\ L + 1 \in 1 .. Len(owed[c]) /\ L + 1 \in L + 1 .. Len(owed[c])
    BY <1>17
  <2>3. ASSUME k # L + 1 PROVE FALSE
    <3>1. owed[c][L + 1].call < a.call /\ owed[c][L + 1].call \in Nat
      BY <1>16, <1>17, <2>1, <2>2, <2>3
    <3>2. owed[c][L + 1] = a \/ owed[c][L + 1].call > a.call
      BY <1>14, <1>15, <2>2
    <3> QED
      BY <1>3, <3>1, <3>2
  <2> QED
    BY <2>1, <2>2, <2>3
<1>19. Delivery(f)'
  <2> SUFFICES ASSUME NEW d \in Clients
               PROVE  /\ Len(resp'[d]) <= Len(owed[d])
                      /\ \A i \in 1 .. Len(resp'[d]) : resp'[d][i] = owed[d][i]
                      /\ \A i \in Len(resp'[d]) + 1 .. Len(owed[d]) : owed[d][i] \in ToCome(f, d)
                      /\ \A z \in ToCome(f, d) :
                            \E i \in Len(resp'[d]) + 1 .. Len(owed[d]) : owed[d][i] = z
    BY <1>4, <1>13 DEF Delivery
  <2>1. CASE d # c
    <3>1. resp'[d] = resp[d] /\ UnderWay(f, d) = ToCome(f, d)
      BY <1>7, <1>12, <2>1 DEF UnderWay
    <3> QED
      BY <1>1, <3>1 DEF Delivery
  <2>2. CASE d = c
    <3>1. Len(resp'[c]) <= Len(owed[c])
      BY <1>7, <1>17, <1>18
    <3>2. ASSUME NEW i \in 1 .. Len(resp'[c]) PROVE resp'[c][i] = owed[c][i]
      <4>1. i \in 1 .. L \/ i = L + 1
        BY <1>7, <1>17
      <4> QED
        BY <1>7, <1>15, <1>18, <4>1
    <3>3. ASSUME NEW i \in Len(resp'[c]) + 1 .. Len(owed[c]) PROVE owed[c][i] \in ToCome(f, c)
      <4>1. i \in L + 1 .. Len(owed[c]) /\ i \in 1 .. Len(owed[c]) /\ L + 1 < i
        BY <1>7, <1>17
      <4>2. owed[c][L + 1].call < owed[c][i].call
        BY <1>16, <1>18, <4>1
      <4>3. owed[c][i] # a
        BY <1>3, <1>18, <4>2
      <4> QED
        BY <1>15, <4>1, <4>3
    <3>4. ASSUME NEW z \in ToCome(f, c)
          PROVE  \E i \in Len(resp'[c]) + 1 .. Len(owed[c]) : owed[c][i] = z
      <4>1. PICK i \in L + 1 .. Len(owed[c]) : owed[c][i] = z
        BY <1>15
      <4>2. i # L + 1
        BY <1>3, <1>14, <1>18, <4>1
      <4>3. i \in Len(resp'[c]) + 1 .. Len(owed[c])
        BY <1>7, <1>17, <4>2
      <4> QED
        BY <4>1, <4>3
    <3> QED
      BY <2>2, <3>1, <3>2, <3>3, <3>4
  <2> QED
    BY <2>1, <2>2
<1>20. LinkInv'
  BY <1>1, <1>4, <1>11, <1>19 DEF LinkInv
<1> QED
  BY <1>8, <1>9, <1>10, <1>20 DEF CoreInv

-----------------------------------------------------------------------------
(* The theorems. *)

\* At the start all queues are empty, and RocksDB holds the initial rows.
LEMMA InitInv == Init => CoreInv
<1> SUFFICES ASSUME Init PROVE CoreInv
  OBVIOUS
<1>1. /\ db = Rows0 /\ rows = Rows0 /\ running = TRUE /\ svc = "loop" /\ req = <<>>
      /\ results = <<>> /\ calls = 0
      /\ \A c \in Clients : /\ resp[c] = <<>> /\ owed[c] = <<>> /\ call[c] = NoValue
                            /\ cancels[c] = 0
  BY DEF Init
<1>2. Len(req) = 0 /\ Len(results) = 0 /\ \A c \in Clients : Len(resp[c]) = 0 /\ Len(owed[c]) = 0
  BY <1>1
<1>3. Rows0 \in Rows
  <2>1. \A k \in Keys : <<k, 0>> \in Values
    BY RocksAssumption DEF Values
  <2> QED
    BY <2>1 DEF Rows0, Rows
<1>4. TypeOK
  <2>1. ServiceType
    <3>1. /\ req \in Seq(Requests) /\ results \in Seq([client: Clients, ans: Answers])
          /\ resp \in [Clients -> Seq(Answers)]
      BY DEF Init
    <3> QED
      BY <1>1, <1>2, <1>3, <3>1, RocksAssumption DEF ServiceType
  <2>2. ClientType
    BY RocksAssumption DEF Init, ClientType
  <2>3. HistType
    BY <1>3 DEF Init, HistType
  <2> QED
    BY <2>1, <2>2, <2>3 DEF TypeOK
<1>5. OrderInv
  BY <1>1, <1>2 DEF OrderInv
<1>6. CountInv
  BY <1>1, <1>2 DEF CountInv, Busy
<1>7. LinkInv
  <2>1. PICK f : f = [i \in 0 .. 0 |-> Rows0]
    OBVIOUS
  <2>2. f \in [0 .. Len(req) -> Rows] /\ f[0] = Rows0
    BY <1>2, <1>3, <2>1
  <2>3. Chain(f)
    BY <1>1, <1>2, <2>2 DEF Chain
  <2>4. \A c \in Clients : UnderWay(f, c) = {}
    <3>1. \A i : i \notin 1 .. Len(results) /\ i \notin 1 .. Len(req)
      BY <1>2
    <3> QED
      BY <3>1 DEF UnderWay, ReadyFor, ToCome
  <2>5. Delivery(f)
    <3>1. \A c \in Clients : /\ \A i : i \notin 1 .. Len(resp[c])
                             /\ \A i : i \notin Len(resp[c]) + 1 .. Len(owed[c])
                             /\ Len(resp[c]) <= Len(owed[c])
      <4>1. /\ \A i : i \notin 1 .. 0 /\ i \notin 0 + 1 .. 0
            /\ 0 <= 0
        OBVIOUS
      <4> QED
        BY <1>2, <4>1
    <3> QED
      BY <2>4, <3>1 DEF Delivery
  <2> QED
    BY <2>2, <2>3, <2>5 DEF LinkInv
<1> QED
  BY <1>4, <1>5, <1>6, <1>7 DEF CoreInv

-----------------------------------------------------------------------------
(* The clients that sleep on the request channel. *)

\* The cancelled calls are finitely many.
LEMMA CancelledFinite ==
    ASSUME CoreInv
    PROVE  IsFiniteSet(Cancelled) /\ Cardinality(Cancelled) \in Nat
<1>1. calls \in Nat /\ \A c \in Clients : cancels[c] \in Nat /\ cancels[c] <= calls
  BY DEF CoreInv, TypeOK, ClientType, CountInv, Busy
<1>2. Cancelled \in SUBSET (Clients \X (1 .. calls))
  BY <1>1 DEF Cancelled
<1>3. IsFiniteSet(1 .. calls)
  BY <1>1, FS_Interval
<1>4. IsFiniteSet(Clients \X (1 .. calls))
  BY <1>3, FS_Product, RocksAssumption
<1> QED
  BY <1>2, <1>4, FS_Subset, FS_CardinalityType

\* A request in the channel is one of those its client is owed an answer for.
\* With one client that waits for none, the others and the cancelled calls are
\* at least as many as the requests.
LEMMA RequestsBounded ==
    ASSUME CoreInv, NEW c \in Clients, call[c] = NoValue
    PROVE  Len(req) < Cardinality(Clients) + Cardinality(Cancelled)
<1>0. TypeOK /\ OrderInv /\ CountInv /\ LinkInv
  BY DEF CoreInv
<1> DEFINE L == Len(req)
           Waiting == (Clients \ {c}) \X {0}
           T == Cancelled \union Waiting
           Place(i, p) == /\ p \in 1 .. Len(owed[req[i].client])
                          /\ owed[req[i].client][p].call = req[i].n
<1>1. L \in Nat /\ \A i \in 1 .. L : req[i].client \in Clients /\ req[i].n \in Nat
  BY <1>0, QueueTypes
<1>2. ASSUME NEW i \in 1 .. L PROVE \E p : Place(i, p)
  <2>1. req[i].n \in Outstanding(req[i].client)
    BY DEF Outstanding
  <2>2. Outstanding(req[i].client) = {owed[req[i].client][p].call : p \in 1 .. Len(owed[req[i].client])}
    BY <1>0, <1>1, OutstandingOwed
  <2> QED
    BY <2>1, <2>2
<1> DEFINE pos == [i \in 1 .. L |-> CHOOSE p : Place(i, p)]
           g == [i \in 1 .. L |-> <<req[i].client,
                     IF pos[i] <= cancels[req[i].client] THEN pos[i] ELSE 0>>]
<1>3. \A i \in 1 .. L : Place(i, pos[i])
  BY <1>2
<1> HIDE DEF pos
<1>4. ASSUME NEW i \in 1 .. L
      PROVE  /\ pos[i] \in Nat \ {0}
             /\ cancels[req[i].client] \in Nat
             /\ ~(pos[i] <= cancels[req[i].client]) =>
                    call[req[i].client] # NoValue /\ pos[i] = cancels[req[i].client] + 1
  <2>1. req[i].client \in Clients /\ Len(owed[req[i].client]) \in Nat
    BY <1>0, <1>1, QueueTypes
  <2>2. pos[i] \in 1 .. Len(owed[req[i].client])
    BY <1>3
  <2>3. cancels[req[i].client] \in Nat
    BY <1>0, <2>1 DEF TypeOK, ClientType
  <2>4. Len(owed[req[i].client]) <= cancels[req[i].client] + Busy(req[i].client)
    BY <1>0, <2>1 DEF CountInv
  <2>5. Busy(req[i].client) = IF call[req[i].client] = NoValue THEN 0 ELSE 1
    BY DEF Busy
  <2> HIDE DEF L
  <2> QED
    BY <2>1, <2>2, <2>3, <2>4, <2>5
<1>5. g \in [1 .. L -> T]
  <2> SUFFICES ASSUME NEW i \in 1 .. L PROVE g[i] \in T
    OBVIOUS
  <2>1. CASE pos[i] <= cancels[req[i].client]
    <3>1. pos[i] \in 1 .. cancels[req[i].client]
      BY <1>4, <2>1
    <3>2. g[i] = <<req[i].client, pos[i]>>
      BY <2>1
    <3> QED
      BY <1>1, <3>1, <3>2 DEF Cancelled
  <2>2. CASE ~(pos[i] <= cancels[req[i].client])
    <3>1. g[i] = <<req[i].client, 0>> /\ req[i].client # c /\ req[i].client \in Clients
      BY <1>1, <1>4, <2>2
    <3> QED
      BY <3>1
  <2> QED
    BY <2>1, <2>2
<1>6. ASSUME NEW i \in 1 .. L, NEW j \in 1 .. L, g[i] = g[j] PROVE i = j
  <2>1. req[i].client = req[j].client
    BY <1>6
  <2>2. pos[i] = pos[j]
    <3>1. (IF pos[i] <= cancels[req[i].client] THEN pos[i] ELSE 0)
             = (IF pos[j] <= cancels[req[j].client] THEN pos[j] ELSE 0)
      BY <1>6
    <3> HIDE DEF L, g
    <3> QED
      BY <1>4, <2>1, <3>1
  <2>3. req[i].n = req[j].n
    BY <1>3, <2>1, <2>2
  <2> QED
    BY <1>0, <1>1, <2>3 DEF OrderInv
<1>7. g \in Injection(1 .. L, T)
  BY <1>5, <1>6 DEF Injection, IsInjective
<1>8. IsFiniteSet(Waiting) /\ Cardinality(Waiting) = Cardinality(Clients) - 1
      /\ Cardinality(Clients) \in Nat
  <2>1. IsFiniteSet(Clients) /\ Cardinality(Clients) \in Nat
    BY RocksAssumption, FS_CardinalityType
  <2>2. IsFiniteSet(Clients \ {c}) /\ Cardinality(Clients \ {c}) = Cardinality(Clients) - 1
    BY <2>1, FS_RemoveElement
  <2>3. IsFiniteSet({0}) /\ Cardinality({0}) = 1
    BY FS_Singleton
  <2>4. IsFiniteSet(Waiting) /\ Cardinality(Waiting) = Cardinality(Clients \ {c}) * Cardinality({0})
    BY <2>2, <2>3, FS_Product
  <2> QED
    BY <2>1, <2>2, <2>3, <2>4
<1>9. IsFiniteSet(Cancelled) /\ Cardinality(Cancelled) \in Nat
  BY CancelledFinite
<1> HIDE DEF g, Waiting
<1>10. IsFiniteSet(T) /\ Cardinality(T) <= Cardinality(Cancelled) + Cardinality(Waiting)
       /\ Cardinality(T) \in Nat
  <2>1. IsFiniteSet(Cancelled \union Waiting)
        /\ Cardinality(Cancelled \union Waiting) =
              Cardinality(Cancelled) + Cardinality(Waiting) - Cardinality(Cancelled \intersect Waiting)
    BY <1>8, <1>9, FS_Union
  <2>2. Cardinality(Cancelled \intersect Waiting) \in Nat
    BY <1>9, FS_Subset, FS_CardinalityType
  <2>3. Cardinality(Cancelled \union Waiting) \in Nat
    BY <2>1, FS_CardinalityType
  <2> QED
    BY <1>8, <1>9, <2>1, <2>2, <2>3
<1> HIDE DEF T, L
<1>11. Cardinality(1 .. L) <= Cardinality(T)
  BY <1>7, <1>10, FS_Injection
<1>12. Cardinality(1 .. L) = L
  BY <1>1, FS_Interval
<1> QED
  BY <1>1, <1>8, <1>9, <1>10, <1>11, <1>12 DEF L

\* A client goes to sleep only when the channel is full, and cancelled calls
\* become more.
LEMMA NextCrowd ==
    ASSUME IInv, [Next]_vars, CoreInv'
    PROVE  OnlyCrowdsSleep'
<1>0. CoreInv /\ PushInv /\ OnlyCrowdsSleep /\ TypeOK /\ ReqCap \in Nat
  BY RocksAssumption DEF IInv, CoreInv
<1>1. \A c \in Clients : cancels[c] \in Nat
  BY <1>0 DEF TypeOK, ClientType
<1>2. \A c \in Clients : cancels'[c] \in Nat /\ cancels[c] <= cancels'[c]
  <2>1. CASE UNCHANGED cancels
    BY <1>1, <2>1
  <2>2. ASSUME NEW c \in Clients, Cancel(c)
        PROVE  \A d \in Clients : cancels'[d] \in Nat /\ cancels[d] <= cancels'[d]
    BY <1>0, <1>1, <2>2 DEF Cancel, TypeOK, ClientType
  <2> QED
    BY <2>1, <2>2 DEF Next, ServiceStep, Call, CallSleeps, CallRefused, Return, CancelPush,
                      Loop, PopNull, ProcessRequest, ClearOne, ClearDone, ClearTooLarge,
                      ClearBlocked, Terminate, vars, clientVars
<1>3. Cardinality(Cancelled) \in Nat /\ Cardinality(Cancelled') \in Nat
      /\ Cardinality(Cancelled) <= Cardinality(Cancelled')
  <2>1. Cancelled \in SUBSET Cancelled'
    <3>1. \A c \in Clients : 1 .. cancels[c] \subseteq 1 .. cancels'[c]
      BY <1>1, <1>2
    <3> QED
      BY <3>1 DEF Cancelled
  <2>2. calls' \in Nat /\ \A c \in Clients : cancels'[c] <= calls'
    BY <1>2 DEF CoreInv, TypeOK, ClientType, CountInv, Busy
  <2>3. Cancelled' \in SUBSET (Clients \X (1 .. calls'))
    BY <1>2, <2>2 DEF Cancelled
  <2>4. IsFiniteSet(1 .. calls')
    BY <2>2, FS_Interval
  <2>5. IsFiniteSet(Clients \X (1 .. calls'))
    BY <2>4, FS_Product, RocksAssumption
  <2>6. IsFiniteSet(Cancelled')
    BY <2>3, <2>5, FS_Subset
  <2> QED
    BY <2>1, <2>6, FS_Subset, FS_CardinalityType
<1>4. Cardinality(Clients) \in Nat
  BY RocksAssumption, FS_CardinalityType
<1>5. CASE waiters' \subseteq waiters
  BY <1>0, <1>3, <1>4, <1>5 DEF OnlyCrowdsSleep
<1>6. ASSUME NEW c \in Clients, NEW r \in Request, CallSleeps(c, r) PROVE OnlyCrowdsSleep'
  <2>1. call[c] = NoValue
    BY <1>0, <1>6, RocksAssumption DEF CallSleeps, Tries, PushInv
  <2>2. Len(req) \in Nat /\ ~(Len(req) < ReqCap)
    BY <1>0, <1>6 DEF CallSleeps, Room, TypeOK, ServiceType
  <2>3. Len(req) < Cardinality(Clients) + Cardinality(Cancelled)
    BY <1>0, <2>1, RequestsBounded
  <2> HIDE DEF Cancelled
  <2>4. ReqCap < Cardinality(Clients) + Cardinality(Cancelled')
    BY <1>0, <1>3, <1>4, <2>2, <2>3
  <2> QED
    BY <2>4 DEF OnlyCrowdsSleep
<1> QED
  BY <1>5, <1>6 DEF Next, ServiceStep, Call, CallRefused, Return, Cancel, CancelPush,
                    Loop, PopNull, ProcessRequest, ClearOne, ClearDone, ClearTooLarge,
                    ClearBlocked, Terminate, vars, pushVars

\* At the start nobody pushes.
LEMMA InitIInv == Init => IInv
<1>1. Init => PushInv /\ OnlyCrowdsSleep
  BY DEF Init, PushInv, OnlyCrowdsSleep
<1> QED
  BY <1>1, InitInv DEF IInv

\* Every step keeps what relates the queues.
LEMMA NextCore ==
    ASSUME CoreInv, PushInv, [Next]_vars
    PROVE  CoreInv'
<1>1. ASSUME NEW c \in Clients, NEW r \in Request, Call(c, r) PROVE CoreInv'
  BY <1>1, CallInv
<1>2. ASSUME NEW c \in Clients, Return(c) PROVE CoreInv'
  BY <1>2, ReturnInv
<1>3. CASE ProcessRequest
  BY <1>3, ProcessRequestInv
<1>4. CASE ClearOne
  BY <1>4, ClearOneInv
<1>5. CASE \/ \E c \in Clients, r \in Request : CallRefused(c, r) \/ CallSleeps(c, r)
           \/ \E c \in Clients : Cancel(c) \/ CancelPush(c)
           \/ Loop \/ PopNull \/ ClearDone \/ ClearTooLarge \/ ClearBlocked \/ Terminate
           \/ UNCHANGED vars
  BY <1>5, QuietInv
<1> QED
  BY <1>1, <1>2, <1>3, <1>4, <1>5 DEF Next, ServiceStep

\* Rows are never removed, so a get that was possible stays so while its client
\* sleeps.
LEMMA NextPush ==
    ASSUME TypeOK, PushInv, [Next]_vars
    PROVE  PushInv'
<1>1. \A k \in Keys : rows[k] # NoValue => rows'[k] # NoValue
  <2>1. ASSUME NEW c \in Clients, NEW r \in Request, Call(c, r)
        PROVE  \A k \in Keys : rows[k] # NoValue => rows'[k] # NoValue
    <3>1. rows' = ApplyTo(rows, r, calls + 1) /\ rows \in Rows /\ calls + 1 \in Nat
      BY <2>1 DEF Call, TypeOK, HistType, ClientType
    <3>2. CASE r.op # "put"
      BY <3>1, <3>2 DEF ApplyTo
    <3>3. CASE r.op = "put"
      <4>1. r.key \in Keys /\ <<r.key, calls + 1>> \in Values
        BY <3>1, <3>3 DEF Request, Values
      <4>2. <<r.key, calls + 1>> # NoValue
        BY <4>1, RocksAssumption
      <4> QED
        BY <3>1, <3>3, <4>1, <4>2 DEF ApplyTo, Rows
    <3> QED
      BY <3>2, <3>3
  <2>2. CASE UNCHANGED rows
    BY <2>2
  <2> QED
    BY <2>1, <2>2 DEF Next, ServiceStep, CallSleeps, CallRefused, Return, Cancel, CancelPush,
                      Loop, PopNull, ProcessRequest, ClearOne, ClearDone, ClearTooLarge,
                      ClearBlocked, Terminate, vars, histVars
<1>2. \A r \in Request : Known(r) => Known(r)'
  BY <1>1 DEF Known, Request
<1>3. \A c \in Clients : push[c] # NoValue => push[c] \in Request
  BY DEF TypeOK, ClientType
<1>4. ASSUME NEW c \in Clients, NEW r \in Request, Call(c, r) \/ CallRefused(c, r)
      PROVE  PushInv'
  <2>1. \A d \in Clients : push'[d] # NoValue => push'[d] = push[d] /\ call'[d] = call[d]
    BY <1>4 DEF Call, CallRefused, TypeOK, ClientType
  <2> QED
    BY <1>2, <1>3, <2>1 DEF PushInv
<1>5. ASSUME NEW c \in Clients, NEW r \in Request, CallSleeps(c, r)
      PROVE  PushInv'
  <2>1. call[c] = NoValue /\ Known(r)
    BY <1>5, RocksAssumption DEF CallSleeps, Tries, PushInv
  <2>2. /\ push'[c] = r /\ call' = call
        /\ \A d \in Clients : d # c => push'[d] = push[d]
    BY <1>5 DEF CallSleeps, clientVars, TypeOK, ClientType
  <2>3. ASSUME NEW d \in Clients, push'[d] # NoValue
        PROVE  call'[d] = NoValue /\ Known(push[d])'
    <3>1. CASE d = c
      <4>1. Known(r)'
        BY <1>2, <2>1
      <4> QED
        BY <2>1, <2>2, <3>1, <4>1 DEF Known
    <3>2. CASE d # c
      <4>1. push[d] # NoValue /\ push'[d] = push[d]
        BY <2>2, <2>3, <3>2
      <4> QED
        BY <1>2, <1>3, <2>2, <4>1 DEF PushInv, Known
    <3> QED
      BY <3>1, <3>2
  <2> QED
    BY <2>3 DEF PushInv
<1>6. ASSUME NEW c \in Clients, Return(c) \/ Cancel(c) \/ CancelPush(c)
      PROVE  PushInv'
  <2>1. \A d \in Clients : /\ push'[d] # NoValue => push'[d] = push[d]
                           /\ call'[d] \in {call[d], NoValue}
    BY <1>6 DEF Return, Cancel, CancelPush, pushVars, clientVars, TypeOK, ClientType
  <2> QED
    BY <1>2, <1>3, <2>1 DEF PushInv, Known
<1>7. CASE UNCHANGED <<push, call>>
  BY <1>2, <1>3, <1>7 DEF PushInv, Known
<1> QED
  BY <1>4, <1>5, <1>6, <1>7 DEF Next, ServiceStep, Loop, PopNull, ProcessRequest, ClearOne,
                                ClearDone, ClearTooLarge, ClearBlocked, Terminate, vars,
                                pushVars, clientVars

\* Every step keeps the invariant.
LEMMA NextInv == IInv /\ [Next]_vars => IInv'
<1> SUFFICES ASSUME IInv, [Next]_vars PROVE IInv'
  OBVIOUS
<1>1. CoreInv' /\ PushInv'
  BY NextCore, NextPush DEF IInv, CoreInv
<1> QED
  BY <1>1, NextCrowd DEF IInv

\* The requests in the channel, the answers that are ready and the answers in
\* the clients' channels together are what the clients are owed: the calls of
\* RocksClientPut, RocksClientGet and RocksClientRangeScan lose, repeat and
\* reorder nothing, whatever is cancelled and whenever the service stops.
THEOREM ServiceInvariant == Spec => []IInv
<1> QED
  BY InitIInv, NextInv, PTL DEF Spec

\* Every get finds its row when it is carried out, and no answer channel is ever
\* filled beyond what it holds.
THEOREM ServiceTyped == Spec => []TypeOK
<1>1. IInv => TypeOK
  BY DEF IInv, CoreInv
<1> QED
  BY <1>1, ServiceInvariant, PTL

\* Only cancelled calls leave answers behind, at most one each, and only a
\* client that has cancelled as many calls as its channel holds answers makes
\* the service sleep in ResultQueueClear.
THEOREM OnlyCancelsBlock == Spec => []OnlyCancelsLeaveAnswers
<1>1. IInv => OnlyCancelsLeaveAnswers
  <2> SUFFICES ASSUME IInv PROVE OnlyCancelsLeaveAnswers
    OBVIOUS
  <2>1. TypeOK /\ OrderInv /\ CountInv /\ LinkInv
    BY DEF IInv, CoreInv
  <2>2. \A c \in Clients : Cardinality(Outstanding(c)) = Len(owed[c])
    BY <2>1, OutstandingCount
  <2> QED
    BY <2>1, <2>2 DEF CountInv, OnlyCancelsLeaveAnswers
<1> QED
  BY <1>1, ServiceInvariant, PTL

\* A client sleeps on the full request channel only when the clients and their
\* cancelled calls are more than the requests that fit, so with a channel that
\* holds them all no call of the Rocks client is left to the next push.
THEOREM OnlyCrowdsFill == Spec => []OnlyCrowdsSleep
<1>1. IInv => OnlyCrowdsSleep
  BY DEF IInv
<1> QED
  BY <1>1, ServiceInvariant, PTL

\* Every step of the clients and the service is a step of the abstract store,
\* or leaves it as it is.
LEMMA StoreStep == IInv /\ [Next]_vars => [Store!StoreNext]_(Store!sessionStoreVars)
<1> SUFFICES ASSUME IInv, [Next]_vars PROVE [Store!StoreNext]_(Store!sessionStoreVars)
  OBVIOUS
<1>0. CoreInv /\ PushInv
  BY DEF IInv
<1>1. ASSUME NEW c \in Clients, NEW r \in Request, Call(c, r) PROVE Store!Send(c, r)
  BY <1>0, <1>1, RocksAssumption
  DEF Call, Tries, PushInv, Store!Send, Store!ApplyTo, Store!Answer, Store!Asked, ApplyTo, Answer, Asked
<1>2. ASSUME NEW c \in Clients, NEW r \in Request, CallRefused(c, r) PROVE Store!Refuse(c, r)
  BY <1>0, <1>2, RocksAssumption DEF CallRefused, Tries, PushInv, histVars, Store!Refuse, Store!Refused, Refused
<1>3. ASSUME NEW c \in Clients, Return(c) PROVE Store!Receive(c)
  <2>1. owed[c] # <<>> /\ Head(resp[c]) = Head(owed[c])
    BY <1>0, <1>3, ReturnHead
  <2> QED
    BY <1>3, <2>1 DEF Return, Store!Receive, Store!Result, Result
<1>4. ASSUME NEW c \in Clients, Cancel(c) PROVE Store!Forget(c)
  BY <1>4 DEF Cancel, histVars, Store!Forget
<1>5. CASE Terminate
  BY <1>5 DEF Terminate, clientVars, histVars, Store!Close, Store!StoreNext
<1>6. CASE \/ ServiceStep \/ UNCHANGED vars
           \/ \E c \in Clients, r \in Request : CallSleeps(c, r)
           \/ \E c \in Clients : CancelPush(c)
  BY <1>6 DEF ServiceStep, CallSleeps, CancelPush, Loop, PopNull, ProcessRequest, ClearOne, ClearDone, ClearTooLarge,
              ClearBlocked, vars, clientVars, histVars, Store!sessionStoreVars
<1>7. Store!Request = Request
  BY DEF Store!Request, Request
<1> QED
  BY <1>1, <1>2, <1>3, <1>4, <1>5, <1>6, <1>7 DEF Next, Store!StoreNext

\* Requests take effect in the order in which they entered the channel, as if
\* each had taken effect when it was sent, and every client gets its answers
\* once, in the order of its requests.
THEOREM ServiceRefinesStore == Spec => IsSessionStore
<1>1. Init => Store!StoreInit
  BY DEF Init, Store!StoreInit, Store!Rows0, Rows0
<1> QED
  BY <1>1, StoreStep, ServiceInvariant, PTL DEF Spec, IsSessionStore, Store!StoreSpec
=============================================================================
