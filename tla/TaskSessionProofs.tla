------------------------- MODULE TaskSessionProofs -------------------------
(***************************************************************************)
(* Proofs about TaskSession, for any number of sessions that run at the    *)
(* same time, any number of batches and any sizes of the queues.           *)
(***************************************************************************)
EXTENDS TaskSession, FiniteSetTheorems, SequenceTheorems, TLAPS

DispatcherType ==
    /\ added \in [Sessions -> Nat]
    /\ full \in [Sessions -> BOOLEAN]
    /\ dispatcher \in [Sessions -> {"off", "start", "check", "wait", "clear", "stopped"}]
    /\ requested \in [Sessions -> Nat]

\* FlowControl with what makes it inductive: a set full_event stands for a batch
\* whose successor has not been asked for, and a dispatcher that waits has found
\* at least two batches missing.
DispatcherInv(x) ==
    /\ requested[x] <= NBatches
    /\ requested[x] <= added[x] + 1
    /\ dispatcher[x] = "start" => requested[x] = 0
    /\ dispatcher[x] = "wait" => requested[x] <= NBatches - 1
    /\ dispatcher[x] = "start" /\ full[x] => added[x] >= 1
    /\ dispatcher[x] \in {"check", "wait"} /\ full[x] => requested[x] <= added[x]

FlowInv == DispatcherType /\ \A x \in Sessions : DispatcherInv(x)

flowVars == <<added, full, dispatcher, requested>>

\* What the invariant is about is changed by the receive loop and the dispatcher's
\* thread only.
LEMMA FlowUnchanged ==
    ASSUME FlowInv, UNCHANGED flowVars
    PROVE  FlowInv'
BY DEF FlowInv, DispatcherType, DispatcherInv, flowVars

\* A new cache and a new dispatcher: nothing asked for, nothing in the cache.
LEMMA InitKeepsFlow ==
    ASSUME NEW x, FlowInv, InitDatabase(x)
    PROVE  FlowInv'
<1>1. CASE x \in bound
  BY <1>1, FlowUnchanged DEF InitDatabase, dispatcherVars, flowVars
<1>2. CASE x \notin bound
  <2>. /\ added' = [added EXCEPT ![x] = 0]
       /\ full' = [full EXCEPT ![x] = FALSE]
       /\ dispatcher' = [dispatcher EXCEPT ![x] = "start"]
       /\ requested' = [requested EXCEPT ![x] = 0]
    BY <1>2, Zenon DEF InitDatabase
  <2>1. DispatcherType'
    BY DEF FlowInv, DispatcherType
  <2>2. ASSUME NEW y \in Sessions
        PROVE  DispatcherInv(y)'
    <3>1. CASE y = x
      <4>1. /\ requested'[y] = 0 /\ added'[y] = 0
            /\ full'[y] = FALSE /\ dispatcher'[y] = "start"
        BY <3>1 DEF FlowInv, DispatcherType
      <4>. QED  BY <4>1, WireAssumption DEF DispatcherInv
    <3>2. CASE y # x
      <4>1. /\ requested'[y] = requested[y] /\ added'[y] = added[y]
            /\ full'[y] = full[y] /\ dispatcher'[y] = dispatcher[y]
        BY <3>2 DEF FlowInv, DispatcherType
      <4>. QED  BY <4>1 DEF FlowInv, DispatcherInv
    <3>. QED  BY <3>1, <3>2
  <2>. QED  BY <2>1, <2>2 DEF FlowInv
<1>. QED  BY <1>1, <1>2

\* A batch is added to the cache and the event set.
LEMMA BatchKeepsFlow ==
    ASSUME NEW x, NEW n, FlowInv, OnBatchData(x, n)
    PROVE  FlowInv'
<1>1. CASE x \notin bound
  BY <1>1, FlowUnchanged DEF OnBatchData, flowVars
<1>2. CASE x \in bound
  <2>. /\ added' = [added EXCEPT ![x] = added[x] + 1]
       /\ full' = [full EXCEPT ![x] = TRUE]
       /\ UNCHANGED <<dispatcher, requested>>
    BY <1>2, Zenon DEF OnBatchData
  <2>1. DispatcherType'
    <3>. DispatcherType
      BY DEF FlowInv
    <3>1. CASE x \in Sessions
      <4>1. added[x] + 1 \in Nat
        BY <3>1 DEF DispatcherType
      <4>. QED  BY <4>1 DEF DispatcherType
    <3>2. CASE x \notin Sessions
      <4>1. added' = added
        BY <3>2 DEF DispatcherType
      <4>. QED  BY <4>1 DEF DispatcherType
    <3>. QED  BY <3>1, <3>2
  <2>2. ASSUME NEW y \in Sessions
        PROVE  DispatcherInv(y)'
    <3>1. CASE y = x
      <4>1. /\ added'[y] = added[y] + 1 /\ added[y] \in Nat /\ requested[y] \in Nat
            /\ dispatcher'[y] = dispatcher[y] /\ requested'[y] = requested[y]
        BY <3>1 DEF FlowInv, DispatcherType
      <4>2. DispatcherInv(y)
        BY DEF FlowInv
      <4>. QED  BY <4>1, <4>2, WireAssumption DEF DispatcherInv
    <3>2. CASE y # x
      <4>1. added'[y] = added[y] /\ full'[y] = full[y]
        BY <3>2 DEF FlowInv, DispatcherType
      <4>. QED  BY <4>1 DEF FlowInv, DispatcherInv
    <3>. QED  BY <3>1, <3>2
  <2>. QED  BY <2>1, <2>2 DEF FlowInv
<1>. QED  BY <1>1, <1>2

\* A received event: only a task and a batch touch the dispatchers.
LEMMA ReceiveKeepsFlow ==
    ASSUME NEW s \in Sessions, FlowInv, Receive(s)
    PROVE  FlowInv'
<1> DEFINE e == Head(up[s])
<1>1. CASE e.ev = "setup" /\ OnSetup(s)
  BY <1>1, FlowUnchanged DEF OnSetup, dispatcherVars, flowVars
<1>2. CASE e.ev = "task" /\ OnTask(s, e.sid)
  <2>1. ASSUME NEW x, OnTask(s, x) PROVE FlowInv'
    BY <2>1, InitKeepsFlow, Zenon DEF OnTask
  <2>. QED  BY <1>2, <2>1, Zenon
<1>3. CASE e.ev = "batch_data" /\ OnBatchData(e.sid, e.batch)
  <2>1. ASSUME NEW x, NEW n, OnBatchData(x, n) PROVE FlowInv'
    BY <2>1, BatchKeepsFlow, Zenon
  <2>. QED  BY <1>3, <2>1, Zenon
<1>4. CASE e.ev = "disconnect" /\ OnDisconnect(s, e.sid)
  BY <1>4, FlowUnchanged DEF OnDisconnect, dispatcherVars, flowVars
<1>. QED  BY <1>1, <1>2, <1>3, <1>4 DEF Receive

\* A step of a dispatcher's thread, or the timeout of its wait.
LEMMA DispatcherKeepsFlow ==
    ASSUME NEW x \in Sessions, FlowInv, DispatcherThread(x) \/ WaitTimeout(x)
    PROVE  FlowInv'
<1>1. CASE FirstRequest(x)
  BY <1>1, WireAssumption DEF FirstRequest, EmitRequest, FlowInv, DispatcherType, DispatcherInv
<1>2. CASE CheckStop(x)
  BY <1>2, WireAssumption DEF CheckStop, TimeToStop, FlowInv, DispatcherType, DispatcherInv
<1>3. CASE NextRequest(x)
  BY <1>3, WireAssumption DEF NextRequest, EmitRequest, FlowInv, DispatcherType, DispatcherInv
<1>4. CASE ClearEvent(x)
  BY <1>4, WireAssumption DEF ClearEvent, FlowInv, DispatcherType, DispatcherInv
<1>5. CASE WaitTimeout(x)
  BY <1>5, WireAssumption DEF WaitTimeout, FlowInv, DispatcherType, DispatcherInv
<1>. QED  BY <1>1, <1>2, <1>3, <1>4, <1>5 DEF DispatcherThread

LEMMA NextKeepsFlow ==
    ASSUME FlowInv, [Next]_vars
    PROVE  FlowInv'
<1>1. CASE UNCHANGED vars
  BY <1>1, FlowUnchanged DEF vars, engineVars, dispatcherVars, flowVars
<1>2. ASSUME NEW s \in Sessions, UNCHANGED engineVars
      PROVE  FlowInv'
  BY <1>2, FlowUnchanged DEF engineVars, dispatcherVars, flowVars
<1>3. ASSUME NEW s \in Sessions, Accept(s)
      PROVE  FlowInv'
  BY <1>3, FlowUnchanged DEF Accept, dispatcherVars, flowVars
<1>4. ASSUME NEW s \in Sessions, EventLoop(s)
      PROVE  FlowInv'
  <2>1. CASE SendQueued(s)
    BY <2>1, FlowUnchanged DEF SendQueued, dispatcherVars, flowVars
  <2>2. CASE Receive(s)
    BY <2>2, ReceiveKeepsFlow
  <2>3. CASE TakeBatch(s)
    BY <2>3, FlowUnchanged DEF TakeBatch, flowVars
  <2>4. CASE SendResult(s)
    BY <2>4, FlowUnchanged DEF SendResult, dispatcherVars, flowVars
  <2>. QED  BY <1>4, <2>1, <2>2, <2>3, <2>4 DEF EventLoop
<1>5. ASSUME NEW s \in Sessions, TaskFails(s)
      PROVE  FlowInv'
  BY <1>5, FlowUnchanged DEF TaskFails, dispatcherVars, flowVars
<1>. QED  BY <1>1, <1>2, <1>3, <1>4, <1>5, DispatcherKeepsFlow DEF Next

LEMMA InitHasFlow == Init => FlowInv
BY WireAssumption DEF Init, EngineInit, FlowInv, DispatcherType, DispatcherInv

\* However many tasks run at the same time, and whatever fails, no dispatcher asks
\* for more batches than its task has, or for two at a time.
THEOREM FlowControlHolds == Spec => []FlowControl
<1>1. Init => FlowInv
  BY InitHasFlow
<1>2. FlowInv /\ [Next]_vars => FlowInv'
  BY NextKeepsFlow
<1>3. FlowInv => FlowControl
  BY DEF FlowInv, DispatcherInv, FlowControl
<1>. QED  BY <1>1, <1>2, <1>3, PTL DEF Spec

-----------------------------------------------------------------------------
(* Types.  The engine makes a message queue when a connection is accepted  *)
(* and when a session disconnects: that there are at most two for each     *)
(* connection rests on every backend disconnecting once.                   *)

\* The session ids in use: a backend goes on to its task after the engine has
\* given it an id, and a builder that runs has a session.
ClientIds(s) ==
    /\ "setuped" \in flags[s] => sid[s] \in Sessions
    /\ main[s] \in {"task", "feed", "join"} => "setuped" \in flags[s]
BuilderIds(s) == builder[s].stage > 0 => builder[s].sid \in Sessions

\* A backend disconnects once, when it is about to end.
Disconnects(u) == {i \in 1 .. Len(u) : u[i].ev = "disconnect"}
DisconnectsOnce(s) ==
    /\ Disconnects(up[s]) # {} => main[s] \in {"join", "done"}
    /\ \A i, j \in Disconnects(up[s]) : i = j

SessionIds == \A s \in Sessions : ClientIds(s) /\ BuilderIds(s) /\ DisconnectsOnce(s)

\* The queues made: by connections accepted, and by sessions that disconnected.
Accepted  == {s \in Sessions : receiver[s] # "off"}
HungUp    == {s \in Sessions : main[s] \in {"join", "done"} /\ Disconnects(up[s]) = {}}
QueuesMade == current <= Cardinality(Accepted) + Cardinality(HungUp)

TypeInv == TypeOK /\ SessionIds /\ QueuesMade

-----------------------------------------------------------------------------
(* The events. *)

LEMMA EventsTyped ==
    /\ Event("setup", NoSession) \in UpEvent
    /\ \A x \in Sessions : \A name \in {"task", "disconnect"} : Event(name, x) \in UpEvent
    /\ \A x \in Sessions : \A n \in 1 .. NBatches : BatchEvent(x, n) \in BatchEvents
    /\ \A x \in Sessions :
         \A name \in {"ack_setup", "ack_task", "request_data", "result", "ack_disconnect", "closed"} :
            Event(name, x) \in DownEvent
    /\ BatchEvents \subseteq UpEvent
BY DEF Event, BatchEvent, UpEvent, BatchEvents, DownEvent

\* What an event of each kind says.
LEMMA EventFields ==
    /\ \A e \in UpEvent : e.ev \in {"task", "disconnect", "batch_data"} => e.sid \in Sessions
    /\ \A e \in UpEvent : e.ev = "batch_data" => e.batch \in 1 .. NBatches
    /\ \A e \in BatchEvents : e.ev = "batch_data"
    /\ \A e \in DownEvent : e.sid \in Sessions
    /\ \A name, x : Event(name, x).ev = name /\ Event(name, x).sid = x
BY DEF Event, UpEvent, BatchEvents, DownEvent

LEMMA DisconnectsEmpty == Disconnects(<<>>) = {}
BY DEF Disconnects

LEMMA DisconnectsAppend ==
    ASSUME NEW u \in Seq(UpEvent), NEW e \in UpEvent
    PROVE  Disconnects(Append(u, e)) =
               IF e.ev = "disconnect" THEN Disconnects(u) \cup {Len(u) + 1} ELSE Disconnects(u)
<1> Len(u) \in Nat
  BY LenProperties
<1>1. /\ Len(Append(u, e)) = Len(u) + 1
      /\ \A i \in 1 .. Len(u) : Append(u, e)[i] = u[i]
      /\ Append(u, e)[Len(u) + 1] = e
  BY AppendProperties
<1> HIDE DEF UpEvent
<1> DEFINE v == Append(u, e)
<1> HIDE DEF v
<1>2. Disconnects(v) = IF e.ev = "disconnect" THEN Disconnects(u) \cup {Len(u) + 1}
                       ELSE Disconnects(u)
  BY <1>1 DEF Disconnects, v
<1> QED  BY <1>2 DEF v

\* Of the disconnects in a queue, the first event may be one.
LEMMA DisconnectsTail ==
    ASSUME NEW u \in Seq(UpEvent), u # <<>>
    PROVE  /\ Head(u).ev = "disconnect" <=> 1 \in Disconnects(u)
           /\ \A i : i \in Disconnects(Tail(u)) => i + 1 \in Disconnects(u) /\ i \in Nat \ {0}
           /\ \A i \in Disconnects(u) : i # 1 => i - 1 \in Disconnects(Tail(u))
<1> Len(u) \in Nat \ {0} /\ Head(u) = u[1]
  BY EmptySeq
<1>1. /\ Len(Tail(u)) = Len(u) - 1
      /\ \A i \in 1 .. Len(Tail(u)) : Tail(u)[i] = u[i + 1]
  BY HeadTailProperties
<1> DEFINE v == Tail(u)
<1> HIDE DEF v
<1>2. 1 \in Disconnects(u) <=> Head(u).ev = "disconnect"
  BY DEF Disconnects
<1>3. ASSUME NEW i \in Disconnects(v)
      PROVE  i + 1 \in Disconnects(u) /\ i \in Nat \ {0}
  BY <1>1 DEF Disconnects, v
<1>4. ASSUME NEW i \in Disconnects(u), i # 1
      PROVE  i - 1 \in Disconnects(v)
  BY <1>1, <1>4 DEF Disconnects, v
<1> QED  BY <1>2, <1>3, <1>4 DEF v

-----------------------------------------------------------------------------
(* The number of queues. *)

LEMMA QueuesBounded ==
    ASSUME current \in Nat, QueuesMade
    PROVE  current \in QueueIds
<1>1. /\ Accepted \in SUBSET Sessions /\ HungUp \in SUBSET Sessions
      /\ IsFiniteSet(Sessions)
  BY EngineAssumption DEF Accepted, HungUp
<1>2. /\ Cardinality(Accepted) <= Cardinality(Sessions)
      /\ Cardinality(HungUp) <= Cardinality(Sessions)
      /\ Cardinality(Sessions) \in Nat /\ Cardinality(Accepted) \in Nat
      /\ Cardinality(HungUp) \in Nat
  BY <1>1, FS_Subset, FS_CardinalityType
<1> QED  BY <1>2 DEF QueuesMade, QueueIds

\* No queue is made, and none of those who made one is forgotten.
LEMMA QueuesKept ==
    ASSUME QueuesMade, current \in Nat, current' = current,
           Accepted \subseteq Accepted', HungUp \subseteq HungUp'
    PROVE  QueuesMade'
<1>1. /\ Accepted' \in SUBSET Sessions /\ HungUp' \in SUBSET Sessions
      /\ IsFiniteSet(Sessions)
  BY EngineAssumption DEF Accepted, HungUp
<1>2. IsFiniteSet(Accepted') /\ IsFiniteSet(HungUp')
  BY <1>1, FS_Subset
<1>3. /\ Cardinality(Accepted) <= Cardinality(Accepted')
      /\ Cardinality(HungUp) <= Cardinality(HungUp')
      /\ IsFiniteSet(Accepted) /\ IsFiniteSet(HungUp)
  BY <1>2, FS_Subset
<1>4. /\ Cardinality(Accepted) \in Nat /\ Cardinality(HungUp) \in Nat
      /\ Cardinality(Accepted') \in Nat /\ Cardinality(HungUp') \in Nat
  BY <1>2, <1>3, FS_CardinalityType
<1> QED  BY <1>3, <1>4 DEF QueuesMade

\* A queue is made, by one who had made none of the kind.
LEMMA QueueAdded ==
    ASSUME QueuesMade, current \in Nat, current' = current + 1, NEW s,
           \/ s \notin Accepted /\ Accepted' = Accepted \cup {s} /\ HungUp' = HungUp
           \/ s \notin HungUp /\ HungUp' = HungUp \cup {s} /\ Accepted' = Accepted
    PROVE  QueuesMade'
<1>1. /\ Accepted \in SUBSET Sessions /\ HungUp \in SUBSET Sessions
      /\ IsFiniteSet(Sessions)
  BY EngineAssumption DEF Accepted, HungUp
<1>2. IsFiniteSet(Accepted) /\ IsFiniteSet(HungUp)
  BY <1>1, FS_Subset
<1>3. Cardinality(Accepted) \in Nat /\ Cardinality(HungUp) \in Nat
  BY <1>2, FS_CardinalityType
<1>4. CASE s \notin Accepted /\ Accepted' = Accepted \cup {s} /\ HungUp' = HungUp
  <2>1. Cardinality(Accepted') = Cardinality(Accepted) + 1
    BY <1>2, <1>4, FS_AddElement
  <2> QED  BY <2>1, <1>3, <1>4 DEF QueuesMade
<1>5. CASE s \notin HungUp /\ HungUp' = HungUp \cup {s} /\ Accepted' = Accepted
  <2>1. Cardinality(HungUp') = Cardinality(HungUp) + 1
    BY <1>2, <1>5, FS_AddElement
  <2> QED  BY <2>1, <1>3, <1>5 DEF QueuesMade
<1> QED  BY <1>4, <1>5

-----------------------------------------------------------------------------
(* The steps of a backend. *)

\* What a step of a backend has to show.
LEMMA BackendStep ==
    ASSUME TypeInv, UNCHANGED engineVars, WireTypeOK', ClientTypeOK',
           \A s \in Sessions : ClientIds(s)' /\ DisconnectsOnce(s)',
           HungUp \subseteq HungUp'
    PROVE  TypeInv'
<1>1. EngineTypeOK' /\ current \in Nat /\ current' = current
  BY DEF TypeInv, TypeOK, EngineTypeOK, engineVars, senderVars, dispatcherVars, taskVars, QueueIds
<1>2. Accepted' = Accepted
  BY DEF Accepted, engineVars
<1>3. QueuesMade'
  BY <1>1, <1>2, QueuesKept DEF TypeInv
<1>4. \A s \in Sessions : BuilderIds(s)'
  BY DEF TypeInv, SessionIds, BuilderIds, engineVars, taskVars
<1> QED  BY <1>1, <1>3, <1>4 DEF TypeInv, TypeOK, SessionIds

\* A backend sends an event; only the last one it sends is a disconnect.
LEMMA UpAppended ==
    ASSUME NEW s \in Sessions, NEW e \in UpEvent, TypeInv, SendJson(s, e),
           \A t \in Sessions : t # s => main'[t] = main[t],
           \/ e.ev # "disconnect" /\ (main[s] \in {"join", "done"} => main'[s] = main[s])
           \/ e.ev = "disconnect" /\ main[s] = "feed" /\ main'[s] = "join"
    PROVE  /\ up' \in [Sessions -> Seq(UpEvent)]
           /\ HungUp \subseteq HungUp'
           /\ \A t \in Sessions : DisconnectsOnce(t)'
<1>0. up \in [Sessions -> Seq(UpEvent)]
  BY DEF TypeInv, TypeOK, WireTypeOK
<1>1. up' = [up EXCEPT ![s] = Append(up[s], e)] /\ Append(up[s], e) \in Seq(UpEvent)
  BY <1>0, AppendProperties DEF SendJson
<1>2. up' \in [Sessions -> Seq(UpEvent)]
  BY <1>0, <1>1
<1>3. /\ up'[s] = Append(up[s], e)
      /\ \A t \in Sessions : t # s => up'[t] = up[t]
  BY <1>0, <1>1
<1>4. Disconnects(up'[s]) = IF e.ev = "disconnect" THEN Disconnects(up[s]) \cup {Len(up[s]) + 1}
                            ELSE Disconnects(up[s])
  BY <1>0, <1>3, DisconnectsAppend
<1>5. HungUp \subseteq HungUp'
  BY <1>3, <1>4 DEF HungUp
<1>6. ASSUME NEW t \in Sessions
      PROVE  DisconnectsOnce(t)'
  <2>1. DisconnectsOnce(t)
    BY DEF TypeInv, SessionIds
  <2>2. CASE t # s \/ e.ev # "disconnect"
    <3>1. /\ Disconnects(up'[t]) = Disconnects(up[t])
          /\ main[t] \in {"join", "done"} => main'[t] = main[t]
      BY <2>2, <1>3, <1>4
    <3> QED  BY <2>1, <3>1 DEF DisconnectsOnce
  <2>3. CASE t = s /\ e.ev = "disconnect"
    <3>1. Disconnects(up[s]) = {} /\ main'[s] = "join"
      BY <2>1, <2>3 DEF DisconnectsOnce
    <3>2. Disconnects(up'[s]) = {Len(up[s]) + 1}
      BY <2>3, <3>1, <1>4
    <3> QED  BY <2>3, <3>1, <3>2 DEF DisconnectsOnce
  <2> QED  BY <2>2, <2>3
<1> QED  BY <1>2, <1>5, <1>6

\* The events of a backend are left alone.
LEMMA UpKept ==
    ASSUME TypeInv, up' = up,
           \A t \in Sessions : main[t] \in {"join", "done"} => main'[t] \in {"join", "done"}
    PROVE  /\ HungUp \subseteq HungUp'
           /\ \A t \in Sessions : DisconnectsOnce(t)'
BY DEF TypeInv, SessionIds, DisconnectsOnce, HungUp

LEMMA OpenKeepsTypes ==
    ASSUME NEW s \in Sessions, TypeInv, Open(s), UNCHANGED engineVars
    PROVE  TypeInv'
<1>1. UNCHANGED <<flags, sid, queue, fed, up, down>> /\ main[s] = "idle"
  BY DEF Open, wireVars
<1>2. /\ main' = [main EXCEPT ![s] = "connect"]
      /\ thread' = [thread EXCEPT ![s] = "service"]
      /\ ClientTypeOK /\ WireTypeOK
  BY DEF Open, TypeInv, TypeOK
<1>3. WireTypeOK' /\ ClientTypeOK'
  BY <1>1, <1>2 DEF WireTypeOK, ClientTypeOK
<1>4. \A t \in Sessions : ClientIds(t)'
  BY <1>1, <1>2 DEF TypeInv, SessionIds, ClientIds, ClientTypeOK
<1>5. HungUp \subseteq HungUp' /\ \A t \in Sessions : DisconnectsOnce(t)'
  BY <1>1, <1>2, UpKept DEF ClientTypeOK
<1> QED  BY <1>3, <1>4, <1>5, BackendStep

LEMMA MainKeepsTypes ==
    ASSUME NEW s \in Sessions, NEW c, TypeInv, MainThread(s, c), UNCHANGED engineVars
    PROVE  TypeInv'
<1>0. ClientTypeOK /\ WireTypeOK /\ \A t \in Sessions : ClientIds(t)
  BY DEF TypeInv, TypeOK, SessionIds
<1>1. CASE SendSetup(s, c)
  <2>1. /\ main' = [main EXCEPT ![s] = "setup"] /\ main[s] = "connect"
        /\ SendJson(s, Event("setup", NoSession))
        /\ UNCHANGED <<thread, flags, sid, queue, fed, down>>
    BY <1>1 DEF SendSetup
  <2>2. /\ up' \in [Sessions -> Seq(UpEvent)] /\ HungUp \subseteq HungUp'
        /\ \A t \in Sessions : DisconnectsOnce(t)'
    BY <2>1, <1>0, UpAppended, EventsTyped, EventFields DEF ClientTypeOK
  <2>3. WireTypeOK' /\ ClientTypeOK'
    BY <2>1, <2>2, <1>0 DEF WireTypeOK, ClientTypeOK
  <2>4. \A t \in Sessions : ClientIds(t)'
    BY <2>1, <1>0 DEF ClientIds, ClientTypeOK
  <2> QED  BY <2>2, <2>3, <2>4, BackendStep
<1>2. CASE SendTask(s)
  <2>1. /\ main' = [main EXCEPT ![s] = "task"] /\ main[s] = "setup" /\ "setuped" \in flags[s]
        /\ SendJson(s, Event("task", sid[s]))
        /\ UNCHANGED <<thread, flags, sid, queue, fed, down>>
    BY <1>2 DEF SendTask
  <2>2. sid[s] \in Sessions
    BY <2>1, <1>0 DEF ClientIds
  <2>3. /\ up' \in [Sessions -> Seq(UpEvent)] /\ HungUp \subseteq HungUp'
        /\ \A t \in Sessions : DisconnectsOnce(t)'
    BY <2>1, <2>2, <1>0, UpAppended, EventsTyped, EventFields DEF ClientTypeOK
  <2>4. WireTypeOK' /\ ClientTypeOK'
    BY <2>1, <2>3, <1>0 DEF WireTypeOK, ClientTypeOK
  <2>5. \A t \in Sessions : ClientIds(t)'
    BY <2>1, <1>0 DEF ClientIds, ClientTypeOK
  <2> QED  BY <2>3, <2>4, <2>5, BackendStep
<1>3. CASE TaskAcknowledged(s)
  <2>1. /\ main' = [main EXCEPT ![s] = "feed"] /\ main[s] = "task"
        /\ UNCHANGED <<thread, flags, sid, queue, fed, up, down>>
    BY <1>3 DEF TaskAcknowledged, wireVars
  <2>2. HungUp \subseteq HungUp' /\ \A t \in Sessions : DisconnectsOnce(t)'
    BY <2>1, <1>0, UpKept DEF ClientTypeOK
  <2>3. WireTypeOK' /\ ClientTypeOK'
    BY <2>1, <1>0 DEF WireTypeOK, ClientTypeOK
  <2>4. \A t \in Sessions : ClientIds(t)'
    BY <2>1, <1>0 DEF ClientIds, ClientTypeOK
  <2> QED  BY <2>2, <2>3, <2>4, BackendStep
<1>4. CASE FeedBatch(s)
  <2>1. /\ main[s] = "feed" /\ fed[s] < FetchLimit
        /\ fed' = [fed EXCEPT ![s] = fed[s] + 1]
        /\ queue' = [queue EXCEPT ![s] = Append(queue[s], BatchEvent(sid[s], fed[s] + 1))]
        /\ UNCHANGED <<main, thread, flags, sid, up, down>>
    BY <1>4 DEF FeedBatch, wireVars
  <2>2. sid[s] \in Sessions
    BY <2>1, <1>0 DEF ClientIds
  <2>3. fed[s] \in Nat /\ fed[s] + 1 \in 1 .. NBatches
    BY <2>1, <1>0, WireAssumption, ClientAssumption DEF FetchLimit, ClientTypeOK
  <2>4. Append(queue[s], BatchEvent(sid[s], fed[s] + 1)) \in Seq(BatchEvents)
    BY <2>2, <2>3, <1>0, EventsTyped, AppendProperties DEF ClientTypeOK
  <2>5. HungUp \subseteq HungUp' /\ \A t \in Sessions : DisconnectsOnce(t)'
    BY <2>1, UpKept
  <2>6. WireTypeOK' /\ ClientTypeOK'
    BY <2>1, <2>3, <2>4, <1>0 DEF WireTypeOK, ClientTypeOK
  <2>7. \A t \in Sessions : ClientIds(t)'
    BY <2>1, <1>0 DEF ClientIds
  <2> QED  BY <2>5, <2>6, <2>7, BackendStep
<1>5. CASE SendDisconnect(s)
  <2>1. /\ main' = [main EXCEPT ![s] = "join"] /\ main[s] = "feed"
        /\ SendJson(s, Event("disconnect", sid[s]))
        /\ UNCHANGED <<thread, flags, sid, queue, fed, down>>
    BY <1>5 DEF SendDisconnect
  <2>2. sid[s] \in Sessions
    BY <2>1, <1>0 DEF ClientIds
  <2>3. /\ up' \in [Sessions -> Seq(UpEvent)] /\ HungUp \subseteq HungUp'
        /\ \A t \in Sessions : DisconnectsOnce(t)'
    BY <2>1, <2>2, <1>0, UpAppended, EventsTyped, EventFields DEF ClientTypeOK
  <2>4. WireTypeOK' /\ ClientTypeOK'
    BY <2>1, <2>3, <1>0 DEF WireTypeOK, ClientTypeOK
  <2>5. \A t \in Sessions : ClientIds(t)'
    BY <2>1, <1>0 DEF ClientIds, ClientTypeOK
  <2> QED  BY <2>3, <2>4, <2>5, BackendStep
<1>6. CASE Join(s)
  <2>1. /\ main' = [main EXCEPT ![s] = "done"] /\ main[s] = "join"
        /\ flags' = [flags EXCEPT ![s] = {}]
        /\ sid' = [sid EXCEPT ![s] = NoSession]
        /\ queue' = [queue EXCEPT ![s] = <<>>]
        /\ fed' = [fed EXCEPT ![s] = 0]
        /\ UNCHANGED <<thread, up, down>>
    BY <1>6 DEF Join, wireVars
  <2>2. HungUp \subseteq HungUp' /\ \A t \in Sessions : DisconnectsOnce(t)'
    BY <2>1, <1>0, UpKept DEF ClientTypeOK
  <2>3. WireTypeOK' /\ ClientTypeOK'
    BY <2>1, <1>0, WireAssumption DEF WireTypeOK, ClientTypeOK
  <2>4. \A t \in Sessions : ClientIds(t)'
    BY <2>1, <1>0 DEF ClientIds, ClientTypeOK
  <2> QED  BY <2>2, <2>3, <2>4, BackendStep
<1> QED  BY <1>1, <1>2, <1>3, <1>4, <1>5, <1>6 DEF MainThread

LEMMA WebsocketKeepsTypes ==
    ASSUME NEW s \in Sessions, TypeInv, WebsocketThread(s), UNCHANGED engineVars
    PROVE  TypeInv'
<1>0. ClientTypeOK /\ WireTypeOK /\ \A t \in Sessions : ClientIds(t)
  BY DEF TypeInv, TypeOK, SessionIds
<1>1. CASE HandleEvent(s)
  <2> DEFINE e == Head(down[s])
  <2>1. e \in DownEvent /\ Tail(down[s]) \in Seq(DownEvent)
    BY <1>0, <1>1, HeadTailProperties DEF HandleEvent, WireTypeOK
  <2>2. e.sid \in Sessions
    BY <2>1, EventFields
  <2>3. UNCHANGED <<main, queue, fed, up>> /\ down' = [down EXCEPT ![s] = Tail(down[s])]
    BY <1>1 DEF HandleEvent
  <2> DEFINE w == CASE e.ev = "request_data"               -> "dequeue"
                    [] e.ev \in {"ack_disconnect", "closed"} -> "ended"
                    [] OTHER                               -> thread[s]
             f == CASE e.ev = "ack_setup" -> {"setuped"}
                    [] e.ev = "ack_task"  -> {"task_acknowledged"}
                    [] e.ev = "result"    -> {"completed"}
                    [] OTHER              -> {}
  <2>4. /\ w \in {"dequeue", "ended", thread[s]}
        /\ f \in SUBSET {"setuped", "task_acknowledged", "completed"}
        /\ "setuped" \in f => e.ev = "ack_setup"
        /\ thread' = [thread EXCEPT ![s] = w]
        /\ flags' = [flags EXCEPT ![s] = flags[s] \cup f]
        /\ sid' = [sid EXCEPT ![s] = IF e.ev = "ack_setup" THEN e.sid ELSE sid[s]]
    <3>1. /\ thread' = [thread EXCEPT ![s] = w]
          /\ flags' = [flags EXCEPT ![s] = flags[s] \cup f]
          /\ sid' = [sid EXCEPT ![s] = IF e.ev = "ack_setup" THEN e.sid ELSE sid[s]]
      BY <1>1, Zenon DEF HandleEvent
    <3>2. /\ w \in {"dequeue", "ended", thread[s]}
          /\ f \in SUBSET {"setuped", "task_acknowledged", "completed"}
          /\ "setuped" \in f => e.ev = "ack_setup"
      OBVIOUS
    <3> QED  BY <3>1, <3>2, Zenon
  <2> HIDE DEF e, w, f
  <2>5. HungUp \subseteq HungUp' /\ \A t \in Sessions : DisconnectsOnce(t)'
    BY <2>3, UpKept
  <2>6. thread' \in [Sessions -> {"off", "service", "dequeue", "ended"}]
    BY <2>4, <1>0 DEF ClientTypeOK
  <2>7. flags' \in [Sessions -> SUBSET {"setuped", "task_acknowledged", "completed"}]
    BY <2>4, <1>0 DEF ClientTypeOK
  <2>8. sid' \in [Sessions -> Sessions \cup {NoSession}]
    BY <2>4, <2>2, <1>0 DEF ClientTypeOK
  <2>9. WireTypeOK' /\ ClientTypeOK'
    BY <2>1, <2>3, <2>6, <2>7, <2>8, <1>0 DEF WireTypeOK, ClientTypeOK
  <2>10. ASSUME NEW t \in Sessions
         PROVE  ClientIds(t)'
    <3>1. CASE t # s
      BY <3>1, <2>3, <2>4, <1>0 DEF ClientIds, ClientTypeOK
    <3>2. CASE t = s
      <4>1. /\ flags'[s] = flags[s] \cup f
            /\ sid'[s] = IF e.ev = "ack_setup" THEN e.sid ELSE sid[s]
            /\ main'[s] = main[s]
        BY <2>3, <2>4, <1>0 DEF ClientTypeOK
      <4> QED  BY <3>2, <4>1, <2>2, <2>4, <1>0 DEF ClientIds
    <3> QED  BY <3>1, <3>2
  <2> QED  BY <2>5, <2>9, <2>10, BackendStep
<1>2. CASE DequeueBatch(s)
  <2>1. Head(queue[s]) \in BatchEvents /\ Tail(queue[s]) \in Seq(BatchEvents)
    BY <1>0, <1>2, HeadTailProperties DEF DequeueBatch, ClientTypeOK
  <2>2. /\ SendJson(s, Head(queue[s]))
        /\ queue' = [queue EXCEPT ![s] = Tail(queue[s])]
        /\ thread' = [thread EXCEPT ![s] = "service"]
        /\ UNCHANGED <<main, flags, sid, fed, down>>
    BY <1>2 DEF DequeueBatch
  <2>3. /\ up' \in [Sessions -> Seq(UpEvent)] /\ HungUp \subseteq HungUp'
        /\ \A t \in Sessions : DisconnectsOnce(t)'
    BY <2>1, <2>2, UpAppended, EventsTyped, EventFields
  <2>4. WireTypeOK' /\ ClientTypeOK'
    BY <2>1, <2>2, <2>3, <1>0 DEF WireTypeOK, ClientTypeOK
  <2>5. \A t \in Sessions : ClientIds(t)'
    BY <2>2, <1>0 DEF ClientIds
  <2> QED  BY <2>3, <2>4, <2>5, BackendStep
<1> QED  BY <1>1, <1>2 DEF WebsocketThread

-----------------------------------------------------------------------------
(* The steps of the engine. *)

\* What a step of the engine has to show when it takes nothing from a backend.
LEMMA EngineStep ==
    ASSUME TypeInv, UNCHANGED clientVars, up' = up, down' \in [Sessions -> Seq(DownEvent)],
           Accepted' = Accepted, current' = current, EngineTypeOK',
           \A t \in Sessions : BuilderIds(t)'
    PROVE  TypeInv'
<1>1. main' = main /\ ClientTypeOK' /\ WireTypeOK'
  BY DEF TypeInv, TypeOK, WireTypeOK, ClientTypeOK, clientVars
<1>2. HungUp' = HungUp /\ current \in Nat
  BY <1>1 DEF HungUp, TypeInv, TypeOK, EngineTypeOK, QueueIds
<1>3. QueuesMade'
  BY <1>2, QueuesKept DEF TypeInv
<1>4. \A t \in Sessions : ClientIds(t)' /\ DisconnectsOnce(t)'
  BY <1>1 DEF TypeInv, SessionIds, ClientIds, DisconnectsOnce, clientVars
<1> QED  BY <1>1, <1>3, <1>4 DEF TypeInv, TypeOK, SessionIds

\* A message for the queue of the class.
LEMMA SendTyped ==
    ASSUME EngineTypeOK, NEW e \in DownEvent, Send(e)
    PROVE  queues' \in [QueueIds -> Seq(DownEvent)]
<1>1. Append(queues[current], e) \in Seq(DownEvent)
  BY AppendProperties DEF EngineTypeOK
<1> QED  BY <1>1 DEF Send, EngineTypeOK

LEMMA DownAppended ==
    ASSUME NEW s \in Sessions, NEW e \in DownEvent, TypeInv,
           down' = [down EXCEPT ![s] = Append(down[s], e)]
    PROVE  down' \in [Sessions -> Seq(DownEvent)]
<1>1. down \in [Sessions -> Seq(DownEvent)] /\ Append(down[s], e) \in Seq(DownEvent)
  BY AppendProperties DEF TypeInv, TypeOK, WireTypeOK
<1> QED  BY <1>1

LEMMA AcceptKeepsTypes ==
    ASSUME NEW s \in Sessions, TypeInv, Accept(s), UNCHANGED clientVars
    PROVE  TypeInv'
<1>0. EngineTypeOK /\ current \in Nat
  BY DEF TypeInv, TypeOK, EngineTypeOK, QueueIds
<1>1. /\ receiver[s] = "off" /\ receiver' = [receiver EXCEPT ![s] = "receive"]
      /\ active' = TRUE /\ current' = current + 1
      /\ sender' = [sender EXCEPT ![s] = current + 1]
      /\ UNCHANGED <<queues, clients, bound, cache, added, full, dispatcher, requested,
                     builder, failed, up, down>>
  BY DEF Accept, dispatcherVars, taskVars, wireVars
<1>2. HungUp' = HungUp /\ s \notin Accepted /\ Accepted' = Accepted \cup {s}
  BY <1>0, <1>1 DEF HungUp, Accepted, clientVars, EngineTypeOK
<1>3. QueuesMade'
  BY <1>0, <1>1, <1>2, QueueAdded DEF TypeInv
<1>4. current' \in QueueIds
  <2>1. (current \in Nat /\ QueuesMade => current \in QueueIds)'
    BY QueuesBounded, PTL
  <2> QED  BY <2>1, <1>0, <1>1, <1>3
<1>5. EngineTypeOK'
  BY <1>0, <1>1, <1>4 DEF EngineTypeOK
<1>6. ClientTypeOK' /\ WireTypeOK'
  BY <1>1 DEF TypeInv, TypeOK, WireTypeOK, ClientTypeOK, clientVars
<1>7. SessionIds'
  BY <1>1 DEF TypeInv, SessionIds, ClientIds, BuilderIds, DisconnectsOnce, clientVars
<1> QED  BY <1>3, <1>5, <1>6, <1>7 DEF TypeInv, TypeOK

LEMMA SendQueuedKeepsTypes ==
    ASSUME NEW s \in Sessions, TypeInv, SendQueued(s), UNCHANGED clientVars
    PROVE  TypeInv'
<1>0. EngineTypeOK
  BY DEF TypeInv, TypeOK
<1>1. /\ sender[s] # NoQueue /\ queues[sender[s]] # <<>>
      /\ down' = [down EXCEPT ![s] = Append(down[s], Head(queues[sender[s]]))]
      /\ queues' = [queues EXCEPT ![sender[s]] = Tail(queues[sender[s]])]
      /\ sender' = [sender EXCEPT ![s] = IF active THEN current ELSE NoQueue]
      /\ UNCHANGED <<active, current, receiver, clients, bound, cache, added, full, dispatcher,
                     requested, builder, failed, up>>
  BY DEF SendQueued, dispatcherVars, taskVars
<1>2. sender[s] \in QueueIds
  BY <1>0, <1>1 DEF EngineTypeOK
<1>3. Head(queues[sender[s]]) \in DownEvent /\ Tail(queues[sender[s]]) \in Seq(DownEvent)
  BY <1>0, <1>1, <1>2, HeadTailProperties DEF EngineTypeOK
<1>4. down' \in [Sessions -> Seq(DownEvent)]
  BY <1>1, <1>3, DownAppended
<1>5. EngineTypeOK'
  BY <1>0, <1>1, <1>2, <1>3 DEF EngineTypeOK
<1>6. Accepted' = Accepted /\ \A t \in Sessions : BuilderIds(t)'
  BY <1>1 DEF Accepted, TypeInv, SessionIds, BuilderIds
<1> QED  BY <1>1, <1>4, <1>5, <1>6, EngineStep

\* The stages of a task.
LEMMA StagesTyped ==
    ASSUME NEW s \in Sessions
    PROVE  Len(Stages(s)) \in 1 .. 3
BY WireAssumption DEF Stages

LEMMA TakeBatchKeepsTypes ==
    ASSUME NEW s \in Sessions, TypeInv, TakeBatch(s), UNCHANGED clientVars
    PROVE  TypeInv'
<1>0. EngineTypeOK
  BY DEF TypeInv, TypeOK
<1> DEFINE b == builder[s]
           x == b.sid
           next == IF b.count + 1 = Stages(s)[b.stage]
                   THEN [b EXCEPT !.stage = @ + 1, !.count = 0, !.last = Head(cache[x])]
                   ELSE [b EXCEPT !.count = @ + 1, !.last = Head(cache[x])]
<1>1. /\ b.stage > 0 /\ ~TaskEnded(s) /\ cache[x] # <<>>
      /\ cache' = [cache EXCEPT ![x] = Tail(cache[x])]
      /\ builder' = [builder EXCEPT ![s] = next]
      /\ UNCHANGED <<sender, active, current, queues, receiver, clients, bound, added, full,
                     dispatcher, requested, failed, up, down>>
  BY DEF TakeBatch, senderVars, wireVars
<1>2. /\ b \in [sid : Sessions \cup {NoSession}, stage : 0 .. 4, count : Nat, last : 0 .. NBatches]
      /\ x \in Sessions /\ b.stage \in 0 .. 3
  <2>1. b \in [sid : Sessions \cup {NoSession}, stage : 0 .. 4, count : Nat, last : 0 .. NBatches]
    BY <1>0 DEF EngineTypeOK
  <2>2. x \in Sessions
    BY <1>1 DEF TypeInv, SessionIds, BuilderIds
  <2>3. b.stage \in 0 .. 4 /\ ~(b.stage > Len(Stages(s))) /\ Len(Stages(s)) \in 1 .. 3
    BY <1>1, <2>1, StagesTyped DEF TaskEnded
  <2> HIDE DEF b
  <2>4. \A m, n : m \in 0 .. 4 /\ ~(m > n) /\ n \in 1 .. 3 => m \in 0 .. 3
    OBVIOUS
  <2>5. b.stage \in 0 .. 3
    BY <2>3, <2>4, Zenon
  <2> QED  BY <2>1, <2>2, <2>5
<1>3. Head(cache[x]) \in 0 .. NBatches /\ Tail(cache[x]) \in Seq(1 .. NBatches)
  <2>1. cache[x] \in Seq(1 .. NBatches)
    BY <1>0, <1>2 DEF EngineTypeOK
  <2>2. Head(cache[x]) \in 1 .. NBatches /\ Tail(cache[x]) \in Seq(1 .. NBatches)
    BY <1>1, <2>1, HeadTailProperties
  <2> QED  BY <2>2
<1>4. /\ next \in [sid : Sessions \cup {NoSession}, stage : 0 .. 4, count : Nat, last : 0 .. NBatches]
      /\ next.sid = x
  <2> DEFINE h == Head(cache[x])
  <2>1. b.stage + 1 \in 0 .. 4 /\ b.count + 1 \in Nat /\ h \in 0 .. NBatches
    BY <1>2, <1>3
  <2> HIDE DEF b, h
  <2>2. /\ [b EXCEPT !.stage = @ + 1, !.count = 0, !.last = h]
               \in [sid : Sessions \cup {NoSession}, stage : 0 .. 4, count : Nat, last : 0 .. NBatches]
        /\ [b EXCEPT !.stage = @ + 1, !.count = 0, !.last = h].sid = x
    BY <1>2, <2>1
  <2>3. /\ [b EXCEPT !.count = @ + 1, !.last = h]
               \in [sid : Sessions \cup {NoSession}, stage : 0 .. 4, count : Nat, last : 0 .. NBatches]
        /\ [b EXCEPT !.count = @ + 1, !.last = h].sid = x
    BY <1>2, <2>1
  <2> QED  BY <2>2, <2>3 DEF h
<1> HIDE DEF next
<1>5. EngineTypeOK'
  BY <1>0, <1>1, <1>2, <1>3, <1>4 DEF EngineTypeOK
<1>6. \A t \in Sessions : BuilderIds(t)'
  BY <1>0, <1>1, <1>2, <1>4 DEF TypeInv, SessionIds, BuilderIds, EngineTypeOK
<1>7. Accepted' = Accepted /\ down' \in [Sessions -> Seq(DownEvent)]
  BY <1>1 DEF Accepted, TypeInv, TypeOK, WireTypeOK
<1> QED  BY <1>1, <1>5, <1>6, <1>7, EngineStep

LEMMA TaskEndKeepsTypes ==
    ASSUME NEW s \in Sessions, TypeInv, SendResult(s) \/ TaskFails(s), UNCHANGED clientVars
    PROVE  TypeInv'
<1>0. EngineTypeOK /\ builder[s].stage \in 0 .. 4 /\ Len(Stages(s)) \in 1 .. 3
  BY StagesTyped DEF TypeInv, TypeOK, EngineTypeOK
<1>1. builder[s].stage > 0 /\ builder[s].sid \in Sessions
  BY <1>0 DEF SendResult, TaskFails, TaskEnded, TypeInv, SessionIds, BuilderIds
<1>2. CASE SendResult(s)
  <2>1. /\ Send(Event("result", builder[s].sid))
        /\ builder' = [builder EXCEPT ![s].stage = 0]
        /\ UNCHANGED <<sender, active, current, receiver, clients, bound, cache, added, full,
                       dispatcher, requested, failed, up, down>>
    BY <1>2 DEF SendResult, dispatcherVars, wireVars
  <2>2. queues' \in [QueueIds -> Seq(DownEvent)]
    BY <1>0, <1>1, <2>1, SendTyped, EventsTyped
  <2>3. EngineTypeOK'
    <3>0. builder[s] \in
            [sid : Sessions \cup {NoSession}, stage : 0 .. 4, count : Nat, last : 0 .. NBatches]
      BY <1>0 DEF EngineTypeOK
    <3>1. [builder[s] EXCEPT !.stage = 0] \in
            [sid : Sessions \cup {NoSession}, stage : 0 .. 4, count : Nat, last : 0 .. NBatches]
      BY <3>0
    <3> QED  BY <1>0, <2>1, <2>2, <3>1 DEF EngineTypeOK
  <2>4. \A t \in Sessions : BuilderIds(t)'
    BY <1>0, <2>1 DEF TypeInv, SessionIds, BuilderIds, EngineTypeOK
  <2>5. Accepted' = Accepted /\ down' \in [Sessions -> Seq(DownEvent)]
    BY <2>1 DEF Accepted, TypeInv, TypeOK, WireTypeOK
  <2> QED  BY <2>1, <2>3, <2>4, <2>5, EngineStep
<1>3. CASE TaskFails(s)
  <2>1. /\ failed' = failed \cup {s}
        /\ builder' = [builder EXCEPT ![s].stage = Len(Stages(s)) + 1]
        /\ UNCHANGED <<sender, active, current, queues, receiver, clients, bound, cache, added,
                       full, dispatcher, requested, up, down>>
    BY <1>3 DEF TaskFails, senderVars, dispatcherVars, wireVars
  <2>2. EngineTypeOK'
    <3>0. \A n \in 1 .. 3 : n + 1 \in 0 .. 4
      OBVIOUS
    <3>1. Len(Stages(s)) + 1 \in 0 .. 4
      BY <1>0, <3>0, Zenon
    <3>2. [builder[s] EXCEPT !.stage = Len(Stages(s)) + 1] \in
            [sid : Sessions \cup {NoSession}, stage : 0 .. 4, count : Nat, last : 0 .. NBatches]
      BY <1>0, <3>1 DEF EngineTypeOK
    <3> QED  BY <1>0, <2>1, <3>2 DEF EngineTypeOK
  <2>3. \A t \in Sessions : BuilderIds(t)'
    BY <1>0, <1>1, <2>1 DEF TypeInv, SessionIds, BuilderIds, EngineTypeOK
  <2>4. Accepted' = Accepted /\ down' \in [Sessions -> Seq(DownEvent)]
    BY <2>1 DEF Accepted, TypeInv, TypeOK, WireTypeOK
  <2> QED  BY <2>1, <2>2, <2>3, <2>4, EngineStep
<1> QED  BY <1>2, <1>3

LEMMA DispatcherKeepsTypes ==
    ASSUME NEW x \in Sessions, TypeInv, DispatcherThread(x) \/ WaitTimeout(x),
           UNCHANGED clientVars
    PROVE  TypeInv'
<1>0. EngineTypeOK
  BY DEF TypeInv, TypeOK
<1>1. ASSUME NEW next \in {"check", "clear"}, EmitRequest(x, next)
      PROVE  TypeInv'
  <2>1. /\ Send(Event("request_data", x))
        /\ requested' = [requested EXCEPT ![x] = requested[x] + 1]
        /\ dispatcher' = [dispatcher EXCEPT ![x] = next]
        /\ UNCHANGED <<sender, active, current, receiver, clients, bound, cache, added, full,
                       builder, failed, up, down>>
    BY <1>1 DEF EmitRequest, taskVars, wireVars
  <2>2. queues' \in [QueueIds -> Seq(DownEvent)]
    BY <1>0, <2>1, SendTyped, EventsTyped
  <2>3. EngineTypeOK'
    BY <1>0, <2>1, <2>2 DEF EngineTypeOK
  <2>4. Accepted' = Accepted /\ down' \in [Sessions -> Seq(DownEvent)]
        /\ \A t \in Sessions : BuilderIds(t)'
    BY <2>1 DEF Accepted, TypeInv, TypeOK, WireTypeOK, SessionIds, BuilderIds
  <2> QED  BY <2>1, <2>3, <2>4, EngineStep
<1>2. CASE CheckStop(x) \/ ClearEvent(x) \/ WaitTimeout(x)
  <2>1. /\ UNCHANGED <<sender, active, current, queues, receiver, clients, bound, cache, added,
                       requested, builder, failed, up, down>>
        /\ dispatcher' \in [Sessions -> {"off", "start", "check", "wait", "clear", "stopped"}]
        /\ full' \in [Sessions -> BOOLEAN]
    BY <1>0, <1>2 DEF CheckStop, ClearEvent, WaitTimeout, senderVars, taskVars, wireVars, EngineTypeOK
  <2>2. EngineTypeOK'
    BY <1>0, <2>1 DEF EngineTypeOK
  <2>3. Accepted' = Accepted /\ down' \in [Sessions -> Seq(DownEvent)]
        /\ \A t \in Sessions : BuilderIds(t)'
    BY <2>1 DEF Accepted, TypeInv, TypeOK, WireTypeOK, SessionIds, BuilderIds
  <2> QED  BY <2>1, <2>2, <2>3, EngineStep
<1> QED  BY <1>1, <1>2 DEF DispatcherThread, FirstRequest, NextRequest

\* The receive loop takes the first event of a backend.
LEMMA UpTaken ==
    ASSUME NEW s \in Sessions, TypeInv, up[s] # <<>>, UNCHANGED clientVars,
           up' = [up EXCEPT ![s] = Tail(up[s])]
    PROVE  /\ up' \in [Sessions -> Seq(UpEvent)] /\ Head(up[s]) \in UpEvent
           /\ \A t \in Sessions : ClientIds(t)' /\ DisconnectsOnce(t)'
           /\ Head(up[s]).ev # "disconnect" => HungUp' = HungUp
           /\ Head(up[s]).ev = "disconnect" => s \notin HungUp /\ HungUp' = HungUp \cup {s}
<1>0. up \in [Sessions -> Seq(UpEvent)] /\ main' = main
  BY DEF TypeInv, TypeOK, WireTypeOK, clientVars
<1>1. Tail(up[s]) \in Seq(UpEvent) /\ Head(up[s]) \in UpEvent
  BY <1>0, HeadTailProperties
<1>2. /\ up' \in [Sessions -> Seq(UpEvent)] /\ up'[s] = Tail(up[s])
      /\ \A t \in Sessions : t # s => up'[t] = up[t]
  BY <1>0, <1>1
<1> DEFINE D == Disconnects(up[s])
           E == Disconnects(up'[s])
<1>3. /\ Head(up[s]).ev = "disconnect" <=> 1 \in D
      /\ \A i \in E : i + 1 \in D /\ i \in Nat \ {0}
      /\ \A i \in D : i # 1 => i - 1 \in E
  BY <1>0, <1>2, DisconnectsTail
<1>4. /\ D # {} => main[s] \in {"join", "done"}
      /\ \A i, j \in D : i = j
      /\ D \subseteq Nat
  BY DEF TypeInv, SessionIds, DisconnectsOnce, Disconnects
<1> HIDE DEF D, E
<1>5. Head(up[s]).ev = "disconnect" => D # {} /\ E = {}
  <2> SUFFICES ASSUME Head(up[s]).ev = "disconnect", NEW i \in E PROVE FALSE
    BY <1>3
  <2>1. 1 \in D /\ i + 1 \in D /\ i \in Nat \ {0}
    BY <1>3
  <2>2. i + 1 = 1
    BY <2>1, <1>4
  <2> QED  BY <2>1, <2>2
<1>6. Head(up[s]).ev # "disconnect" => (E = {} <=> D = {})
  BY <1>3
<1>7. E # {} => D # {}
  BY <1>3
<1>8. \A i, j \in E : i = j
  <2> SUFFICES ASSUME NEW i \in E, NEW j \in E PROVE i = j
    OBVIOUS
  <2>1. i + 1 = j + 1 /\ i \in Nat /\ j \in Nat
    BY <1>3, <1>4
  <2> QED  BY <2>1
<1>9. ASSUME NEW t \in Sessions
      PROVE  DisconnectsOnce(t)'
  <2>1. CASE t = s
    BY <2>1, <1>0, <1>4, <1>7, <1>8 DEF DisconnectsOnce, E
  <2>2. CASE t # s
    BY <2>2, <1>0, <1>2 DEF TypeInv, SessionIds, DisconnectsOnce
  <2> QED  BY <2>1, <2>2
<1>10. \A t \in Sessions : ClientIds(t)'
  BY DEF TypeInv, SessionIds, ClientIds, clientVars
<1>11. Head(up[s]).ev # "disconnect" => HungUp' = HungUp
  BY <1>0, <1>2, <1>6 DEF HungUp, D, E
<1>12. Head(up[s]).ev = "disconnect" => s \notin HungUp /\ HungUp' = HungUp \cup {s}
  <2> SUFFICES ASSUME Head(up[s]).ev = "disconnect"
               PROVE  s \notin HungUp /\ HungUp' = HungUp \cup {s}
    OBVIOUS
  <2>1. D # {} /\ E = {} /\ main[s] \in {"join", "done"}
    BY <1>4, <1>5
  <2> QED  BY <2>1, <1>0, <1>2 DEF HungUp, D, E
<1> QED  BY <1>1, <1>2, <1>9, <1>10, <1>11, <1>12

LEMMA ReceiveKeepsTypes ==
    ASSUME NEW s \in Sessions, TypeInv, Receive(s), UNCHANGED clientVars
    PROVE  TypeInv'
<1> DEFINE e == Head(up[s])
<1>0. /\ EngineTypeOK /\ current \in Nat /\ \A t \in Sessions : BuilderIds(t)
      /\ down \in [Sessions -> Seq(DownEvent)]
  <2>1. EngineTypeOK /\ current \in Nat
    BY DEF TypeInv, TypeOK, EngineTypeOK, QueueIds
  <2> QED  BY <2>1 DEF TypeInv, TypeOK, SessionIds, WireTypeOK
<1>1. up[s] # <<>> /\ up' = [up EXCEPT ![s] = Tail(up[s])]
  BY DEF Receive
<1>2. /\ up' \in [Sessions -> Seq(UpEvent)] /\ e \in UpEvent
      /\ \A t \in Sessions : ClientIds(t)' /\ DisconnectsOnce(t)'
      /\ e.ev # "disconnect" => HungUp' = HungUp
      /\ e.ev = "disconnect" => s \notin HungUp /\ HungUp' = HungUp \cup {s}
  BY <1>1, UpTaken
<1>3. ClientTypeOK'
  BY DEF TypeInv, TypeOK, ClientTypeOK, clientVars
<1> HIDE DEF e
<1>4. ASSUME EngineTypeOK', down' \in [Sessions -> Seq(DownEvent)], QueuesMade',
             \A t \in Sessions : BuilderIds(t)'
      PROVE  TypeInv'
  BY <1>2, <1>3, <1>4 DEF TypeInv, TypeOK, WireTypeOK, SessionIds
<1>5. CASE e.ev = "setup" /\ OnSetup(s)
  <2>1. /\ clients' = clients \cup {s} /\ Send(Event("ack_setup", s))
        /\ UNCHANGED <<sender, active, current, receiver, bound, cache, added, full, dispatcher,
                       requested, builder, failed, down>>
    BY <1>5 DEF OnSetup, dispatcherVars, taskVars
  <2>2. queues' \in [QueueIds -> Seq(DownEvent)]
    BY <1>0, <2>1, SendTyped, EventsTyped
  <2>3. EngineTypeOK'
    BY <1>0, <2>1, <2>2 DEF EngineTypeOK
  <2>4. QueuesMade'
    BY <1>0, <1>2, <1>5, <2>1, QueuesKept DEF Accepted, TypeInv
  <2>5. \A t \in Sessions : BuilderIds(t)'
    BY <1>0, <2>1 DEF BuilderIds
  <2> QED  BY <1>0, <1>4, <2>1, <2>3, <2>4, <2>5
<1>6. CASE e.ev = "task" /\ OnTask(s, e.sid)
  <2> DEFINE x == e.sid
  <2>0. x \in Sessions
    BY <1>2, <1>6, EventFields
  <2> HIDE DEF x
  <2>1. /\ InitDatabase(x)
        /\ down' = [down EXCEPT ![s] = Append(down[s], Event("ack_task", x))]
        /\ builder' = IF x \in clients THEN [builder EXCEPT ![s] = TaskAt(x, 1)] ELSE builder
        /\ UNCHANGED <<sender, active, current, queues, receiver, clients, failed>>
    BY <1>6 DEF OnTask, senderVars, x
  <2>2. /\ bound' \subseteq Sessions
        /\ cache' \in [Sessions -> Seq(1 .. NBatches)]
        /\ added' \in [Sessions -> Nat]
        /\ full' \in [Sessions -> BOOLEAN]
        /\ dispatcher' \in [Sessions -> {"off", "start", "check", "wait", "clear", "stopped"}]
        /\ requested' \in [Sessions -> Nat]
    <3>1. CASE x \in bound
      BY <3>1, <1>0, <2>1 DEF InitDatabase, dispatcherVars, EngineTypeOK
    <3>2. CASE x \notin bound
      <4>1. /\ bound' = bound \cup {x}
            /\ cache' = [cache EXCEPT ![x] = <<>>]
            /\ added' = [added EXCEPT ![x] = 0]
            /\ full' = [full EXCEPT ![x] = FALSE]
            /\ dispatcher' = [dispatcher EXCEPT ![x] = "start"]
            /\ requested' = [requested EXCEPT ![x] = 0]
        BY <3>2, <2>1 DEF InitDatabase
      <4>2. <<>> \in Seq(1 .. NBatches)
        BY EmptySeq
      <4>3. cache' \in [Sessions -> Seq(1 .. NBatches)]
        BY <4>1, <4>2, <1>0 DEF EngineTypeOK
      <4> QED  BY <4>1, <4>3, <1>0, <2>0 DEF EngineTypeOK
    <3> QED  BY <3>1, <3>2
  <2>3. /\ builder' \in [Sessions -> [sid : Sessions \cup {NoSession}, stage : 0 .. 4,
                                      count : Nat, last : 0 .. NBatches]]
        /\ \A t \in Sessions : BuilderIds(t)'
    <3>1. TaskAt(x, 1) \in [sid : Sessions \cup {NoSession}, stage : 0 .. 4,
                            count : Nat, last : 0 .. NBatches] /\ TaskAt(x, 1).sid = x
      BY <2>0, WireAssumption DEF TaskAt
    <3> QED  BY <3>1, <1>0, <2>0, <2>1 DEF EngineTypeOK, BuilderIds
  <2>4. EngineTypeOK'
    BY <1>0, <2>1, <2>2, <2>3 DEF EngineTypeOK
  <2>5. down' \in [Sessions -> Seq(DownEvent)]
    BY <2>0, <2>1, DownAppended, EventsTyped
  <2>6. QueuesMade'
    BY <1>0, <1>2, <1>6, <2>1, QueuesKept DEF Accepted, TypeInv
  <2> QED  BY <1>4, <2>3, <2>4, <2>5, <2>6
<1>7. CASE e.ev = "batch_data" /\ OnBatchData(e.sid, e.batch)
  <2> DEFINE x == e.sid
             n == e.batch
  <2>0. x \in Sessions /\ n \in 1 .. NBatches
    BY <1>2, <1>7, EventFields
  <2> HIDE DEF x, n
  <2>1. /\ OnBatchData(x, n)
        /\ UNCHANGED <<sender, active, current, queues, receiver, clients, bound, dispatcher,
                       requested, builder, failed, down>>
    BY <1>7 DEF OnBatchData, senderVars, taskVars, x, n
  <2>2. /\ cache' \in [Sessions -> Seq(1 .. NBatches)]
        /\ added' \in [Sessions -> Nat]
        /\ full' \in [Sessions -> BOOLEAN]
    <3>1. CASE x \notin bound
      BY <3>1, <1>0, <2>1 DEF OnBatchData, EngineTypeOK
    <3>2. CASE x \in bound
      <4>1. /\ cache' = [cache EXCEPT ![x] = Append(cache[x], n)]
            /\ added' = [added EXCEPT ![x] = added[x] + 1]
            /\ full' = [full EXCEPT ![x] = TRUE]
        BY <3>2, <2>1 DEF OnBatchData
      <4>2. cache[x] \in Seq(1 .. NBatches)
        BY <1>0, <2>0 DEF EngineTypeOK
      <4>3. Append(cache[x], n) \in Seq(1 .. NBatches)
        BY <4>2, <2>0, AppendProperties
      <4> QED  BY <4>1, <4>3, <1>0, <2>0 DEF EngineTypeOK
    <3> QED  BY <3>1, <3>2
  <2>3. EngineTypeOK'
    BY <1>0, <2>1, <2>2 DEF EngineTypeOK
  <2>4. QueuesMade'
    BY <1>0, <1>2, <1>7, <2>1, QueuesKept DEF Accepted, TypeInv
  <2>5. \A t \in Sessions : BuilderIds(t)'
    BY <1>0, <2>1 DEF BuilderIds
  <2> QED  BY <1>0, <1>4, <2>1, <2>3, <2>4, <2>5
<1>8. CASE e.ev = "disconnect" /\ OnDisconnect(s, e.sid)
  <2> DEFINE x == e.sid
  <2>0. x \in Sessions
    BY <1>2, <1>8, EventFields
  <2> HIDE DEF x
  <2>1. /\ OnDisconnect(s, x)
        /\ UNCHANGED <<sender, cache, added, full, dispatcher, requested, builder, failed>>
    BY <1>8 DEF OnDisconnect, dispatcherVars, taskVars, x
  <2>2. \A t \in Sessions : BuilderIds(t)'
    BY <1>0, <2>1 DEF BuilderIds
  <2>3. CASE x \in clients
    <3>1. /\ clients' = clients \ {x} /\ bound' = bound \ {x} /\ active' = FALSE
          /\ Send(Event("ack_disconnect", x)) /\ current' = current + 1
          /\ UNCHANGED <<receiver, down>>
      BY <2>1, <2>3 DEF OnDisconnect
    <3>2. queues' \in [QueueIds -> Seq(DownEvent)]
      BY <1>0, <2>0, <3>1, SendTyped, EventsTyped
    <3>3. QueuesMade'
      BY <1>0, <1>2, <1>8, <3>1, QueueAdded DEF Accepted, TypeInv
    <3>4. current' \in QueueIds
      <4>1. (current \in Nat /\ QueuesMade => current \in QueueIds)'
        BY QueuesBounded, PTL
      <4> QED  BY <4>1, <1>0, <3>1, <3>3
    <3>5. EngineTypeOK'
      BY <1>0, <2>1, <3>1, <3>2, <3>4 DEF EngineTypeOK
    <3> QED  BY <1>0, <1>4, <2>2, <3>1, <3>3, <3>5
  <2>4. CASE x \notin clients
    <3>1. /\ receiver' = [receiver EXCEPT ![s] = "raised"]
          /\ down' = [down EXCEPT ![s] = Append(down[s], Event("closed", s))]
          /\ UNCHANGED <<clients, bound, queues, active, current>>
      BY <2>1, <2>4 DEF OnDisconnect
    <3>2. down' \in [Sessions -> Seq(DownEvent)]
      BY <3>1, DownAppended, EventsTyped
    <3>3. Accepted \subseteq Accepted'
      BY <1>0, <3>1 DEF Accepted, EngineTypeOK
    <3>4. QueuesMade'
      BY <1>0, <1>2, <1>8, <3>1, <3>3, QueuesKept DEF TypeInv
    <3>5. EngineTypeOK'
      BY <1>0, <2>1, <3>1 DEF EngineTypeOK
    <3> QED  BY <1>4, <2>2, <3>2, <3>4, <3>5
  <2> QED  BY <2>3, <2>4
<1> QED  BY <1>5, <1>6, <1>7, <1>8 DEF Receive, e

-----------------------------------------------------------------------------

LEMMA InitHasTypes == Init => TypeInv
<1> SUFFICES ASSUME Init PROVE TypeInv
  OBVIOUS
<1> USE DEF Init, WireInit, ClientInit, EngineInit
<1>1. WireTypeOK /\ ClientTypeOK
  BY WireAssumption DEF WireTypeOK, ClientTypeOK
<1>2. Cardinality(Sessions) \in Nat
  BY EngineAssumption, FS_CardinalityType
<1>3. NoTask \in [sid : Sessions \cup {NoSession}, stage : 0 .. 4, count : Nat, last : 0 .. NBatches]
  BY WireAssumption DEF NoTask, TaskAt
<1>4. EngineTypeOK
  <2>1. current \in QueueIds
    BY <1>2 DEF QueueIds
  <2>2. cache \in [Sessions -> Seq(1 .. NBatches)] /\ queues \in [QueueIds -> Seq(DownEvent)]
    BY EmptySeq
  <2> QED  BY <1>3, <2>1, <2>2 DEF EngineTypeOK
<1>5. SessionIds
  <2>1. \A s \in Sessions : builder[s].stage = 0
    BY DEF NoTask, TaskAt
  <2>2. ASSUME NEW s \in Sessions
        PROVE  ClientIds(s) /\ BuilderIds(s) /\ DisconnectsOnce(s)
    <3>1. /\ main[s] = "idle" /\ flags[s] = {} /\ up[s] = <<>> /\ builder[s].stage = 0
      BY <2>1
    <3> QED  BY <3>1, DisconnectsEmpty DEF ClientIds, BuilderIds, DisconnectsOnce
  <2> QED  BY <2>2 DEF SessionIds
<1>6. QueuesMade
  <2>1. Accepted = {} /\ HungUp = {}
    BY DEF Accepted, HungUp
  <2>2. Cardinality({}) = 0
    BY FS_EmptySet
  <2> QED  BY <2>1, <2>2 DEF QueuesMade
<1> QED  BY <1>1, <1>4, <1>5, <1>6 DEF TypeInv, TypeOK

LEMMA NextKeepsTypes ==
    ASSUME TypeInv, [Next]_vars
    PROVE  TypeInv'
<1>1. CASE UNCHANGED vars
  <2>1. /\ UNCHANGED clientVars /\ up' = up /\ down' = down
        /\ receiver' = receiver /\ builder' = builder /\ current' = current
    BY <1>1 DEF vars, engineVars, senderVars, taskVars, wireVars
  <2>2. EngineTypeOK'
    BY <1>1 DEF TypeInv, TypeOK, EngineTypeOK, vars, engineVars, senderVars, dispatcherVars, taskVars
  <2>3. Accepted' = Accepted /\ down' \in [Sessions -> Seq(DownEvent)]
        /\ \A t \in Sessions : BuilderIds(t)'
    BY <2>1 DEF Accepted, TypeInv, TypeOK, WireTypeOK, SessionIds, BuilderIds
  <2> QED  BY <2>1, <2>2, <2>3, EngineStep
<1>2. CASE Next
  <2> SUFFICES ASSUME NEW s \in Sessions,
                   \/ Open(s) /\ UNCHANGED engineVars
                   \/ (MainThread(s, Connected(s)) \/ WebsocketThread(s)) /\ UNCHANGED engineVars
                   \/ Accept(s) /\ UNCHANGED clientVars
                   \/ EventLoop(s) /\ UNCHANGED clientVars
                   \/ DispatcherThread(s) /\ UNCHANGED clientVars
                   \/ (WaitTimeout(s) \/ TaskFails(s)) /\ UNCHANGED clientVars
               PROVE  TypeInv'
    BY <1>2 DEF Next
  <2>1. CASE Open(s) /\ UNCHANGED engineVars
    BY <2>1, OpenKeepsTypes
  <2>2. CASE MainThread(s, Connected(s)) /\ UNCHANGED engineVars
    BY <2>2, MainKeepsTypes
  <2>3. CASE WebsocketThread(s) /\ UNCHANGED engineVars
    BY <2>3, WebsocketKeepsTypes
  <2>4. CASE Accept(s) /\ UNCHANGED clientVars
    BY <2>4, AcceptKeepsTypes
  <2>5. CASE EventLoop(s) /\ UNCHANGED clientVars
    BY <2>5, SendQueuedKeepsTypes, ReceiveKeepsTypes, TakeBatchKeepsTypes, TaskEndKeepsTypes
       DEF EventLoop
  <2>6. CASE (DispatcherThread(s) \/ WaitTimeout(s)) /\ UNCHANGED clientVars
    BY <2>6, DispatcherKeepsTypes
  <2>7. CASE TaskFails(s) /\ UNCHANGED clientVars
    BY <2>7, TaskEndKeepsTypes
  <2> QED  BY <2>1, <2>2, <2>3, <2>4, <2>5, <2>6, <2>7
<1> QED  BY <1>1, <1>2

THEOREM SessionInvariant == Spec => []TypeInv
<1>1. Init => TypeInv
  BY InitHasTypes
<1>2. TypeInv /\ [Next]_vars => TypeInv'
  BY NextKeepsTypes
<1> QED  BY <1>1, <1>2, PTL DEF Spec

\* The types hold for any number of sessions, whatever fails: an event reaches a
\* backend or the engine with a session id that was given out, the engine has a
\* message queue for every number that current takes, and the counters stay in
\* range.
THEOREM SessionTyped == Spec => []TypeOK
<1>1. TypeInv => TypeOK
  BY DEF TypeInv
<1> QED  BY <1>1, SessionInvariant, PTL
=============================================================================
