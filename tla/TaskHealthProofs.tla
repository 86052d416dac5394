-------------------------- MODULE TaskHealthProofs --------------------------
(***************************************************************************)
(* Proofs about tasks that run one at a time and do not fail: the phases a *)
(* session goes through, with every message under way in each, for any     *)
(* number of sessions and of batches and any sizes of the queues.          *)
(***************************************************************************)
EXTENDS TaskSessionProofs

-----------------------------------------------------------------------------
(* The phases of a session. *)

\* The messages of a session in the engine's queue.
Queued(s) == IF sender[s] = NoQueue THEN <<>> ELSE queues[sender[s]]

\* All the messages of a session: to the engine, in its queue, to the backend.
Wire(s, u, q, d) == up[s] = u /\ Queued(s) = q /\ down[s] = d
Silent(s)        == Wire(s, <<>>, <<>>, <<>>)

\* The connection is served, and the sender is its own.
Served(s) == receiver[s] = "receive" /\ active /\ sender[s] = current

\* No task has been started.
Fresh(s) ==
    /\ s \notin bound /\ dispatcher[s] = "off" /\ builder[s] = NoTask
    /\ requested[s] = 0 /\ added[s] = 0 /\ cache[s] = <<>>
    /\ queue[s] = <<>> /\ fed[s] = 0

Idle(s) ==
    /\ main[s] = "idle" /\ thread[s] = "off" /\ flags[s] = {} /\ s \notin clients
    /\ receiver[s] = "off" /\ sender[s] = NoQueue /\ Silent(s) /\ Fresh(s)

Connecting(s) ==
    /\ main[s] = "connect" /\ thread[s] = "service" /\ flags[s] = {} /\ s \notin clients
    /\ Served(s) \/ (receiver[s] = "off" /\ sender[s] = NoQueue)
    /\ Silent(s) /\ Fresh(s)

\* The setup and its acknowledgement: one message, or the flag it sets.
SetupSent(s) ==
    Wire(s, <<Event("setup", NoSession)>>, <<>>, <<>>) /\ flags[s] = {} /\ s \notin clients
SetupAnswered(s) ==
    /\ \/ Wire(s, <<>>, <<Event("ack_setup", s)>>, <<>>)
       \/ Wire(s, <<>>, <<>>, <<Event("ack_setup", s)>>)
    /\ flags[s] = {} /\ s \in clients
SetupDone(s) ==
    Silent(s) /\ flags[s] = {"setuped"} /\ sid[s] = s /\ s \in clients

Setting(s) ==
    /\ main[s] = "setup" /\ thread[s] = "service" /\ Served(s) /\ Fresh(s)
    /\ SetupSent(s) \/ SetupAnswered(s) \/ SetupDone(s)

Starting(s) ==
    /\ main[s] = "task" /\ thread[s] = "service" /\ Served(s) /\ Fresh(s)
    /\ flags[s] = {"setuped"} /\ sid[s] = s /\ s \in clients
    /\ Wire(s, <<Event("task", s)>>, <<>>, <<>>)

\* The batches a builder has taken, over its stages.
Taken(s) ==
    LET b == builder[s]
    IN  CASE b.stage = 1 -> b.count
          [] b.stage = 2 -> Stages(s)[1] + b.count
          [] b.stage = 3 -> Stages(s)[1] + Stages(s)[2] + b.count
          [] OTHER       -> NBatches

\* Is the acknowledgement of the task still to be handled?
Unacked(s) == flags[s] = {"setuped"}
AckTask(s) == IF Unacked(s) THEN <<Event("ack_task", s)>> ELSE <<>>

\* Between two batches.
NothingUnderWay(s) ==
    /\ Wire(s, <<>>, <<>>, AckTask(s)) /\ thread[s] = "service"
    /\ requested[s] = added[s] /\ fed[s] = Len(queue[s]) + added[s]

\* A request is in the engine's queue, on the wire behind the acknowledgement, or
\* in the hands of the websocket thread.
RequestUnderWay(s) ==
    /\ \/ Wire(s, <<>>, <<Event("request_data", s)>>, AckTask(s)) /\ thread[s] = "service"
       \/ /\ Wire(s, <<>>, <<>>, Append(AckTask(s), Event("request_data", s)))
          /\ thread[s] = "service"
       \/ Silent(s) /\ thread[s] = "dequeue" /\ ~Unacked(s)
    /\ requested[s] = added[s] + 1 /\ fed[s] = Len(queue[s]) + added[s]

\* The batch that answers it is.
BatchUnderWay(s) ==
    /\ \E n \in 1 .. NBatches : Wire(s, <<BatchEvent(s, n)>>, <<>>, <<>>)
    /\ thread[s] = "service" /\ ~Unacked(s)
    /\ requested[s] = added[s] + 1 /\ fed[s] = Len(queue[s]) + added[s] + 1

\* The task runs.
Streaming(s) ==
    /\ builder[s].stage > 0 /\ "completed" \notin flags[s]
    /\ NothingUnderWay(s) \/ RequestUnderWay(s) \/ BatchUnderWay(s)

\* All batches are used, and the result is on its way or has come.
Completing(s) ==
    /\ builder[s].stage = 0 /\ requested[s] = NBatches /\ added[s] = NBatches
    /\ thread[s] = "service" /\ ~Unacked(s)
    /\ \/ Wire(s, <<>>, <<Event("result", s)>>, <<>>) /\ "completed" \notin flags[s]
       \/ Wire(s, <<>>, <<>>, <<Event("result", s)>>) /\ "completed" \notin flags[s]
       \/ Silent(s) /\ "completed" \in flags[s]

\* The backend while its task runs: its session, its flags, its batches.
Attending(s) ==
    /\ main[s] \in {"task", "feed"} /\ sid[s] = s
    /\ Unacked(s) \/ {"setuped", "task_acknowledged"} \subseteq flags[s]
    /\ main[s] = "feed" => ~Unacked(s)
    /\ main[s] = "task" => fed[s] = 0
    /\ \A i \in 1 .. Len(queue[s]) : queue[s][i].sid = s

\* The engine while it works on a task.
Serving(s) ==
    /\ Served(s) /\ s \in clients /\ s \in bound /\ builder[s].sid = s
    /\ builder[s].stage <= Len(Stages(s)) + 1
    /\ added[s] = Len(cache[s]) + Taken(s)

Working(s) == Attending(s) /\ Serving(s) /\ (Streaming(s) \/ Completing(s))

DisconnectSent(s) ==
    /\ Wire(s, <<Event("disconnect", s)>>, <<>>, <<>>)
    /\ Served(s) /\ s \in clients /\ thread[s] = "service"
DisconnectAnswered(s) ==
    /\ \/ Wire(s, <<>>, <<Event("ack_disconnect", s)>>, <<>>) /\ ~active
       \/ Wire(s, <<>>, <<>>, <<Event("ack_disconnect", s)>>) /\ sender[s] = NoQueue
    /\ s \notin clients /\ thread[s] = "service"
DisconnectDone(s) ==
    Silent(s) /\ sender[s] = NoQueue /\ s \notin clients /\ thread[s] = "ended"

Closing(s) ==
    /\ main[s] = "join" /\ builder[s].stage = 0 /\ requested[s] = NBatches
    /\ DisconnectSent(s) \/ DisconnectAnswered(s) \/ DisconnectDone(s)

Done(s) ==
    /\ main[s] = "done" /\ builder[s].stage = 0 /\ requested[s] = NBatches
    /\ DisconnectDone(s)

Phase(s) ==
    \/ Idle(s) \/ Connecting(s) \/ Setting(s) \/ Starting(s) \/ Working(s) \/ Closing(s) \/ Done(s)

\* A message queue that no connection has used is empty.
NewQueuesEmpty ==
    \A q \in QueueIds : q > current \/ (q = current /\ ~active) => queues[q] = <<>>

OneRuns == \A s, t \in Running : s = t

PhaseInv == OneRuns /\ NewQueuesEmpty /\ \A s \in Sessions : Phase(s)

HealthInv == Healthy => PhaseInv

-----------------------------------------------------------------------------
(* Sequences of one and two messages. *)

LEMMA ShortSeqs ==
    \A a, b : /\ Append(<<>>, a) = <<a>> /\ Append(<<a>>, b) = <<a, b>>
              /\ Head(<<a>>) = a /\ Tail(<<a>>) = <<>> /\ <<a>> # <<>>
              /\ Head(<<a, b>>) = a /\ Tail(<<a, b>>) = <<b>> /\ <<a, b>> # <<>>
<1> SUFFICES ASSUME NEW a, NEW b
             PROVE  /\ Append(<<>>, a) = <<a>> /\ Append(<<a>>, b) = <<a, b>>
                    /\ Head(<<a>>) = a /\ Tail(<<a>>) = <<>> /\ <<a>> # <<>>
                    /\ Head(<<a, b>>) = a /\ Tail(<<a, b>>) = <<b>> /\ <<a, b>> # <<>>
  OBVIOUS
<1>1. Append(<<>>, a) = <<a>>
  OBVIOUS
<1>2. Append(<<a>>, b) = <<a, b>>
  <2>1. <<a>> \in Seq({a, b}) /\ Len(<<a>>) = 1
    OBVIOUS
  <2>2. /\ Append(<<a>>, b) \in Seq({a, b}) /\ Len(Append(<<a>>, b)) = 2
        /\ Append(<<a>>, b)[1] = a /\ Append(<<a>>, b)[2] = b
    BY <2>1, AppendProperties
  <2>3. /\ <<a, b>> \in Seq({a, b}) /\ Len(<<a, b>>) = 2
        /\ <<a, b>>[1] = a /\ <<a, b>>[2] = b
    OBVIOUS
  <2> DEFINE u == Append(<<a>>, b)
             v == <<a, b>>
  <2>4. \A i \in 1 .. 2 : u[i] = v[i]
    BY <2>2, <2>3
  <2>5. /\ u \in Seq({a, b}) /\ v \in Seq({a, b}) /\ Len(u) = 2 /\ Len(v) = 2
    BY <2>2, <2>3
  <2> HIDE DEF u, v
  <2>6. u = v
    BY <2>4, <2>5, SeqEqual
  <2> QED  BY <2>6 DEF u, v
<1>3. Head(<<a>>) = a /\ <<a>> # <<>> /\ Head(<<a, b>>) = a /\ <<a, b>> # <<>>
  OBVIOUS
<1>4. Tail(<<a>>) = <<>>
  OBVIOUS
<1>5. Tail(<<a, b>>) = <<b>>
  OBVIOUS
<1> QED  BY <1>1, <1>2, <1>3, <1>4, <1>5

LEMMA QueueIdsFacts == QueueIds \subseteq Nat /\ NoQueue \notin QueueIds
<1>1. Cardinality(Sessions) \in Nat
  BY EngineAssumption, FS_CardinalityType
<1> QED  BY <1>1 DEF QueueIds, NoQueue

-----------------------------------------------------------------------------
(* What a step leaves alone. *)

SameBackend(t) ==
    /\ main'[t] = main[t] /\ thread'[t] = thread[t] /\ flags'[t] = flags[t]
    /\ sid'[t] = sid[t] /\ queue'[t] = queue[t] /\ fed'[t] = fed[t]
SameLine(t)       == up'[t] = up[t] /\ down'[t] = down[t]
SameConnection(t) ==
    receiver'[t] = receiver[t] /\ sender'[t] = sender[t] /\ (t \in clients' <=> t \in clients)
SameTask(t) ==
    /\ t \in bound' <=> t \in bound
    /\ dispatcher'[t] = dispatcher[t] /\ requested'[t] = requested[t] /\ added'[t] = added[t]
    /\ cache'[t] = cache[t] /\ builder'[t] = builder[t]
Same(t) == SameBackend(t) /\ SameLine(t) /\ SameConnection(t) /\ SameTask(t)

\* A session that does not run, as far as its phase tells.
Resting(t) == Idle(t) \/ Done(t)

LEMMA RestingKept ==
    ASSUME NEW t, Resting(t), Same(t)
    PROVE  Resting(t)'
<1> USE DEF Same, SameBackend, SameLine, SameConnection, SameTask
<1>1. CASE Idle(t)
  BY <1>1 DEF Resting, Idle, Silent, Wire, Queued, Fresh, NoTask, TaskAt
<1>2. CASE Done(t)
  BY <1>2 DEF Resting, Done, DisconnectDone, Silent, Wire, Queued
<1> QED  BY <1>1, <1>2 DEF Resting

LEMMA PhaseMain ==
    ASSUME NEW s \in Sessions, Phase(s)
    PROVE  /\ main[s] = "idle" <=> Idle(s)
           /\ main[s] = "connect" <=> Connecting(s)
           /\ main[s] = "setup" <=> Setting(s)
           /\ main[s] = "task" => Starting(s) \/ Working(s)
           /\ main[s] = "feed" => Working(s)
           /\ main[s] = "join" <=> Closing(s)
           /\ main[s] = "done" <=> Done(s)
           /\ s \in Running <=> ~Resting(s)
<1>1. /\ Idle(s) => main[s] = "idle"
      /\ Connecting(s) => main[s] = "connect"
      /\ Setting(s) => main[s] = "setup"
      /\ Starting(s) => main[s] = "task"
      /\ Working(s) => main[s] \in {"task", "feed"}
      /\ Closing(s) => main[s] = "join"
      /\ Done(s) => main[s] = "done"
  BY DEF Idle, Connecting, Setting, Starting, Working, Attending, Closing, Done
<1> QED  BY <1>1 DEF Phase, Resting, Running

\* A step of the one session that runs, or of one that starts when none does.
LEMMA LocalStep ==
    ASSUME PhaseInv, NEW s \in Sessions, s \in Running \/ Running = {},
           \A t \in Sessions : t # s => Same(t), NewQueuesEmpty', Phase(s)'
    PROVE  PhaseInv'
<1>1. ASSUME NEW t \in Sessions, t # s
      PROVE  Resting(t)'
  <2>1. t \notin Running /\ Phase(t)
    BY <1>1 DEF PhaseInv, OneRuns
  <2> QED  BY <1>1, <2>1, PhaseMain, RestingKept
<1>2. \A t \in Sessions : Phase(t)'
  BY <1>1 DEF Phase, Resting
<1>3. ASSUME NEW t \in Sessions, t # s
      PROVE  t \notin Running'
  BY <1>1, <1>3 DEF Resting, Idle, Done, Running
<1>4. OneRuns'
  <2>1. Running' \subseteq {s}
    BY <1>3 DEF Running
  <2> QED  BY <2>1 DEF OneRuns
<1> QED  BY <1>2, <1>4 DEF PhaseInv

LEMMA RunningIs ==
    ASSUME NEW s \in Sessions, main[s] \notin {"idle", "done"}
    PROVE  s \in Running
BY DEF Running

\* A step that leaves the sender alone.
LEMMA QueuesStill ==
    ASSUME NewQueuesEmpty, UNCHANGED <<active, current, queues>>
    PROVE  NewQueuesEmpty'
BY DEF NewQueuesEmpty

LEMMA EngineStill ==
    ASSUME UNCHANGED engineVars
    PROVE  /\ UNCHANGED <<active, current, queues>>
           /\ \A t : SameConnection(t) /\ SameTask(t)
           /\ \A t : Queued(t)' = Queued(t) /\ (Served(t)' <=> Served(t))
           /\ \A t : Taken(t)' = Taken(t) /\ (Serving(t)' <=> Serving(t))
<1>1. UNCHANGED <<receiver, clients, bound, sender, active, current, queues, cache, added,
                  full, dispatcher, requested, builder, failed>>
  BY DEF engineVars, senderVars, dispatcherVars, taskVars
<1>2. \A t : SameConnection(t) /\ SameTask(t)
  BY <1>1 DEF SameConnection, SameTask
<1>3. \A t : Queued(t)' = Queued(t) /\ (Served(t)' <=> Served(t))
  BY <1>1 DEF Queued, Served
<1>4. \A t : Taken(t)' = Taken(t)
  BY <1>1 DEF Taken
<1>5. \A t : Serving(t)' <=> Serving(t)
  BY <1>1, <1>3, <1>4 DEF Serving
<1> QED  BY <1>1, <1>2, <1>3, <1>4, <1>5

-----------------------------------------------------------------------------
(* The steps of a backend. *)

LEMMA OpenKeepsPhases ==
    ASSUME MaxOpen <= 1, TypeInv, PhaseInv, NEW s \in Sessions, Open(s), UNCHANGED engineVars
    PROVE  PhaseInv'
<1>1. Running = {}
  <2>1. IsFiniteSet(Running)
    BY EngineAssumption, FS_Subset DEF Running
  <2>2. Cardinality(Running) \in Nat /\ (Cardinality(Running) = 0 <=> Running = {})
    BY <2>1, FS_CardinalityType, FS_EmptySet
  <2>3. Cardinality(Running) < MaxOpen
    BY DEF Open
  <2> QED  BY <2>2, <2>3, ClientAssumption
<1>2. /\ main' = [main EXCEPT ![s] = "connect"] /\ main[s] = "idle"
      /\ thread' = [thread EXCEPT ![s] = "service"]
      /\ UNCHANGED <<flags, sid, queue, fed, up, down>> /\ ClientTypeOK
  BY DEF Open, wireVars, TypeInv, TypeOK
<1>3. /\ main'[s] = "connect" /\ thread'[s] = "service"
      /\ \A t \in Sessions : t # s => main'[t] = main[t] /\ thread'[t] = thread[t]
  BY <1>2 DEF ClientTypeOK
<1>4. \A t \in Sessions : t # s => Same(t)
  BY <1>2, <1>3, EngineStill DEF Same, SameBackend, SameLine
<1>5. Idle(s)
  BY <1>2, PhaseMain DEF PhaseInv
<1>6. Connecting(s)'
  BY <1>2, <1>3, <1>5, EngineStill
     DEF Idle, Connecting, Silent, Wire, Fresh, SameConnection, SameTask, NoTask, TaskAt
<1> QED  BY <1>1, <1>4, <1>6, LocalStep, EngineStill, QueuesStill DEF PhaseInv, Phase

LEMMA SendSetupKeepsPhases ==
    ASSUME TypeInv, PhaseInv, NEW s \in Sessions, SendSetup(s, Connected(s)), UNCHANGED engineVars
    PROVE  PhaseInv'
<1>1. /\ main' = [main EXCEPT ![s] = "setup"] /\ main[s] = "connect" /\ receiver[s] # "off"
      /\ up' = [up EXCEPT ![s] = Append(up[s], Event("setup", NoSession))]
      /\ UNCHANGED <<thread, flags, sid, queue, fed, down>> /\ ClientTypeOK /\ WireTypeOK
  BY DEF SendSetup, SendJson, Connected, TypeInv, TypeOK
<1>2. /\ main'[s] = "setup" /\ up'[s] = Append(up[s], Event("setup", NoSession))
      /\ \A t \in Sessions : t # s => main'[t] = main[t] /\ up'[t] = up[t]
  BY <1>1 DEF ClientTypeOK, WireTypeOK
<1>3. \A t \in Sessions : t # s => Same(t)
  BY <1>1, <1>2, EngineStill DEF Same, SameBackend, SameLine
<1>4. Connecting(s)
  BY <1>1, PhaseMain DEF PhaseInv
<1>5. up'[s] = <<Event("setup", NoSession)>>
  BY <1>2, <1>4, ShortSeqs DEF Connecting, Silent, Wire
<1>6. Setting(s)'
  BY <1>1, <1>2, <1>4, <1>5, EngineStill
     DEF Setting, SetupSent, Connecting, Silent, Wire, Fresh, SameConnection, SameTask, NoTask, TaskAt
<1>7. s \in Running
  BY <1>1, RunningIs
<1> QED  BY <1>3, <1>6, <1>7, LocalStep, EngineStill, QueuesStill DEF PhaseInv, Phase

LEMMA SendTaskKeepsPhases ==
    ASSUME TypeInv, PhaseInv, NEW s \in Sessions, SendTask(s), UNCHANGED engineVars
    PROVE  PhaseInv'
<1>1. /\ main' = [main EXCEPT ![s] = "task"] /\ main[s] = "setup" /\ "setuped" \in flags[s]
      /\ up' = [up EXCEPT ![s] = Append(up[s], Event("task", sid[s]))]
      /\ UNCHANGED <<thread, flags, sid, queue, fed, down>> /\ ClientTypeOK /\ WireTypeOK
  BY DEF SendTask, SendJson, TypeInv, TypeOK
<1>2. /\ main'[s] = "task" /\ up'[s] = Append(up[s], Event("task", sid[s]))
      /\ \A t \in Sessions : t # s => main'[t] = main[t] /\ up'[t] = up[t]
  BY <1>1 DEF ClientTypeOK, WireTypeOK
<1>3. \A t \in Sessions : t # s => Same(t)
  BY <1>1, <1>2, EngineStill DEF Same, SameBackend, SameLine
<1>4. Setting(s) /\ SetupDone(s)
  BY <1>1, PhaseMain DEF PhaseInv, Setting, SetupSent, SetupAnswered
<1>5. up'[s] = <<Event("task", s)>>
  BY <1>2, <1>4, ShortSeqs DEF SetupDone, Silent, Wire
<1>6. Starting(s)'
  BY <1>1, <1>2, <1>4, <1>5, EngineStill
     DEF Starting, Setting, SetupDone, Silent, Wire, Fresh, SameConnection, SameTask, NoTask, TaskAt
<1>7. s \in Running
  BY <1>1, RunningIs
<1> QED  BY <1>3, <1>6, <1>7, LocalStep, EngineStill, QueuesStill DEF PhaseInv, Phase

\* While the task runs: what a step of the backend may change.
LEMMA StreamKept ==
    ASSUME NEW s, UNCHANGED engineVars, SameLine(s), thread'[s] = thread[s], flags'[s] = flags[s],
           NEW k \in {0, 1}, fed'[s] = fed[s] + k, Len(queue'[s]) = Len(queue[s]) + k,
           fed[s] \in Nat, Len(queue[s]) \in Nat, added[s] \in Nat, Streaming(s) \/ Completing(s)
    PROVE  (Streaming(s) \/ Completing(s))'
<1>1. /\ requested'[s] = requested[s] /\ added'[s] = added[s] /\ builder'[s] = builder[s]
      /\ Queued(s)' = Queued(s) /\ up'[s] = up[s] /\ down'[s] = down[s]
  BY EngineStill DEF SameTask, SameLine
<1>2. /\ (Unacked(s)' <=> Unacked(s)) /\ AckTask(s)' = AckTask(s)
  BY DEF Unacked, AckTask, Event
<1>3. \A u, q, d : Wire(s, u, q, d)' <=> Wire(s, u, q, d)
  BY <1>1 DEF Wire
<1>4. /\ fed[s] = Len(queue[s]) + added[s] => fed'[s] = Len(queue'[s]) + added'[s]
      /\ fed[s] = Len(queue[s]) + added[s] + 1 => fed'[s] = Len(queue'[s]) + added'[s] + 1
  <2>1. CASE k = 0
    BY <1>1, <2>1
  <2>2. CASE k = 1
    <3> DEFINE f == fed[s]  l == Len(queue[s])  a == added[s]
    <3>1. /\ fed'[s] = f + 1 /\ Len(queue'[s]) = l + 1 /\ added'[s] = a
          /\ f \in Nat /\ l \in Nat /\ a \in Nat
      BY <1>1, <2>2
    <3> HIDE DEF f, l, a
    <3>2. /\ f = l + a => f + 1 = (l + 1) + a
          /\ f = l + a + 1 => f + 1 = (l + 1) + a + 1
      BY <3>1
    <3> QED  BY <3>1, <3>2 DEF f, l, a
  <2> QED  BY <2>1, <2>2
<1>5. CASE Completing(s)
  BY <1>1, <1>2, <1>5 DEF Completing, Wire, Silent
<1>6. CASE Streaming(s)
  <2>1. NothingUnderWay(s) => NothingUnderWay(s)'
    BY <1>1, <1>2 DEF NothingUnderWay, Wire
  <2>2. RequestUnderWay(s) => RequestUnderWay(s)'
    <3> SUFFICES ASSUME RequestUnderWay(s) PROVE RequestUnderWay(s)'
      OBVIOUS
    <3>1. /\ requested'[s] = added'[s] + 1 /\ fed'[s] = Len(queue'[s]) + added'[s]
      BY <1>1, <1>4 DEF RequestUnderWay
    <3> QED  BY <1>2, <1>3, <3>1, Zenon DEF RequestUnderWay, Silent
  <2>3. BatchUnderWay(s) => BatchUnderWay(s)'
    <3> SUFFICES ASSUME BatchUnderWay(s) PROVE BatchUnderWay(s)'
      OBVIOUS
    <3>1. /\ requested'[s] = added'[s] + 1 /\ fed'[s] = Len(queue'[s]) + added'[s] + 1
      <4>1. requested[s] = added[s] + 1 /\ fed[s] = Len(queue[s]) + added[s] + 1
        BY Zenon DEF BatchUnderWay
      <4> QED  BY <1>1, <1>4, <4>1
    <3>2. PICK n \in 1 .. NBatches : Wire(s, <<BatchEvent(s, n)>>, <<>>, <<>>)
      BY DEF BatchUnderWay
    <3>3. Wire(s, <<BatchEvent(s, n)>>, <<>>, <<>>)'
      BY <1>1, <3>2 DEF Wire
    <3>4. thread'[s] = "service" /\ ~Unacked(s)'
      BY <1>2 DEF BatchUnderWay
    <3> QED  BY <3>1, <3>3, <3>4 DEF BatchUnderWay
  <2> QED  BY <1>1, <1>6, <2>1, <2>2, <2>3 DEF Streaming
<1> QED  BY <1>5, <1>6

LEMMA AcknowledgedKeepsPhases ==
    ASSUME TypeInv, PhaseInv, NEW s \in Sessions, TaskAcknowledged(s), UNCHANGED engineVars
    PROVE  PhaseInv'
<1>1. /\ main' = [main EXCEPT ![s] = "feed"] /\ main[s] = "task" /\ "task_acknowledged" \in flags[s]
      /\ UNCHANGED <<thread, flags, sid, queue, fed, up, down>>
      /\ ClientTypeOK /\ EngineTypeOK
  BY DEF TaskAcknowledged, wireVars, TypeInv, TypeOK
<1>2. /\ main'[s] = "feed"
      /\ \A t \in Sessions : t # s => main'[t] = main[t]
  BY <1>1 DEF ClientTypeOK
<1>3. \A t \in Sessions : t # s => Same(t)
  BY <1>1, <1>2, EngineStill DEF Same, SameBackend, SameLine
<1>4. Working(s) /\ ~Unacked(s)
  BY <1>1, PhaseMain DEF PhaseInv, Starting, Unacked
<1>5. Attending(s)'
  BY <1>1, <1>2, <1>4 DEF Working, Attending, Unacked
<1>6. fed[s] \in Nat /\ Len(queue[s]) \in Nat /\ added[s] \in Nat
  BY <1>1, LenProperties DEF ClientTypeOK, EngineTypeOK
<1>7. (Streaming(s) \/ Completing(s))'
  <2>1. fed'[s] = fed[s] + 0 /\ Len(queue'[s]) = Len(queue[s]) + 0
    BY <1>1, <1>6
  <2> QED  BY <1>1, <1>4, <1>6, <2>1, StreamKept DEF Working, SameLine
<1>8. Working(s)'
  BY <1>4, <1>5, <1>7, EngineStill DEF Working
<1>9. s \in Running
  BY <1>1, RunningIs
<1> QED  BY <1>3, <1>8, <1>9, LocalStep, EngineStill, QueuesStill DEF PhaseInv, Phase

LEMMA FeedKeepsPhases ==
    ASSUME TypeInv, TypeInv', PhaseInv, NEW s \in Sessions, FeedBatch(s), UNCHANGED engineVars
    PROVE  PhaseInv'
<1> DEFINE e == BatchEvent(sid[s], fed[s] + 1)
<1>1. /\ main[s] = "feed"
      /\ fed' = [fed EXCEPT ![s] = fed[s] + 1]
      /\ queue' = [queue EXCEPT ![s] = Append(queue[s], e)]
      /\ UNCHANGED <<main, thread, flags, sid, up, down>>
      /\ ClientTypeOK /\ ClientTypeOK' /\ EngineTypeOK
  BY DEF FeedBatch, wireVars, TypeInv, TypeOK
<1>2. /\ fed'[s] = fed[s] + 1 /\ queue'[s] = Append(queue[s], e)
      /\ \A t \in Sessions : t # s => fed'[t] = fed[t] /\ queue'[t] = queue[t]
  BY <1>1 DEF ClientTypeOK
<1>3. \A t \in Sessions : t # s => Same(t)
  BY <1>1, <1>2, EngineStill DEF Same, SameBackend, SameLine
<1>4. Working(s)
  BY <1>1, PhaseMain DEF PhaseInv
<1>5. e.sid = s
  BY <1>4 DEF Working, Attending, BatchEvent
<1>6. /\ fed[s] \in Nat /\ Len(queue[s]) \in Nat /\ added[s] \in Nat
      /\ queue[s] \in Seq(BatchEvents) /\ fed'[s] \in Nat
  BY <1>1, LenProperties DEF ClientTypeOK, EngineTypeOK
<1>7. e \in BatchEvents
  BY <1>1, <1>2, <1>4, <1>6, EventsTyped, WireAssumption DEF ClientTypeOK, Working, Attending
<1>8. /\ Len(queue'[s]) = Len(queue[s]) + 1
      /\ \A i \in 1 .. Len(queue[s]) : queue'[s][i] = queue[s][i]
      /\ queue'[s][Len(queue[s]) + 1] = e
  BY <1>2, <1>6, <1>7, AppendProperties
<1> HIDE DEF e
<1>9. Attending(s)'
  <2>1. \A i \in 1 .. Len(queue'[s]) : queue'[s][i].sid = s
    BY <1>4, <1>5, <1>6, <1>8 DEF Working, Attending
  <2> QED  BY <1>1, <1>2, <1>4, <2>1 DEF Working, Attending, Unacked
<1>10. (Streaming(s) \/ Completing(s))'
  BY <1>1, <1>2, <1>4, <1>6, <1>8, StreamKept DEF Working, SameLine
<1>11. Working(s)'
  BY <1>4, <1>9, <1>10, EngineStill DEF Working
<1>12. s \in Running
  BY <1>1, RunningIs
<1> QED  BY <1>3, <1>11, <1>12, LocalStep, EngineStill, QueuesStill DEF PhaseInv, Phase

LEMMA DisconnectKeepsPhases ==
    ASSUME TypeInv, PhaseInv, NEW s \in Sessions, SendDisconnect(s), UNCHANGED engineVars
    PROVE  PhaseInv'
<1>1. /\ main' = [main EXCEPT ![s] = "join"] /\ main[s] = "feed" /\ "completed" \in flags[s]
      /\ up' = [up EXCEPT ![s] = Append(up[s], Event("disconnect", sid[s]))]
      /\ UNCHANGED <<thread, flags, sid, queue, fed, down>> /\ ClientTypeOK /\ WireTypeOK
  BY DEF SendDisconnect, SendJson, TypeInv, TypeOK
<1>2. /\ main'[s] = "join" /\ up'[s] = Append(up[s], Event("disconnect", sid[s]))
      /\ \A t \in Sessions : t # s => main'[t] = main[t] /\ up'[t] = up[t]
  BY <1>1 DEF ClientTypeOK, WireTypeOK
<1>3. \A t \in Sessions : t # s => Same(t)
  BY <1>1, <1>2, EngineStill DEF Same, SameBackend, SameLine
<1>4. Working(s) /\ Completing(s) /\ Silent(s)
  BY <1>1, PhaseMain DEF PhaseInv, Working, Streaming, Completing
<1>5. up'[s] = <<Event("disconnect", s)>>
  BY <1>2, <1>4, ShortSeqs DEF Working, Attending, Silent, Wire
<1>6. Closing(s)'
  BY <1>1, <1>2, <1>4, <1>5, EngineStill
     DEF Closing, DisconnectSent, Working, Serving, Completing, Silent, Wire, SameConnection, SameTask
<1>7. s \in Running
  BY <1>1, RunningIs
<1> QED  BY <1>3, <1>6, <1>7, LocalStep, EngineStill, QueuesStill DEF PhaseInv, Phase

LEMMA JoinKeepsPhases ==
    ASSUME TypeInv, PhaseInv, NEW s \in Sessions, Join(s), UNCHANGED engineVars
    PROVE  PhaseInv'
<1>1. /\ main' = [main EXCEPT ![s] = "done"] /\ main[s] = "join" /\ thread[s] = "ended"
      /\ flags' = [flags EXCEPT ![s] = {}]
      /\ sid' = [sid EXCEPT ![s] = NoSession]
      /\ queue' = [queue EXCEPT ![s] = <<>>]
      /\ fed' = [fed EXCEPT ![s] = 0]
      /\ UNCHANGED <<thread, up, down>> /\ ClientTypeOK
  BY DEF Join, wireVars, TypeInv, TypeOK
<1>2. /\ main'[s] = "done"
      /\ \A t \in Sessions : t # s => /\ main'[t] = main[t] /\ flags'[t] = flags[t]
                                      /\ sid'[t] = sid[t] /\ queue'[t] = queue[t]
                                      /\ fed'[t] = fed[t]
  BY <1>1 DEF ClientTypeOK
<1>3. \A t \in Sessions : t # s => Same(t)
  BY <1>1, <1>2, EngineStill DEF Same, SameBackend, SameLine
<1>4. Closing(s) /\ DisconnectDone(s)
  BY <1>1, PhaseMain DEF PhaseInv, Closing, DisconnectSent, DisconnectAnswered
<1>5. Done(s)'
  BY <1>1, <1>2, <1>4, EngineStill
     DEF Done, Closing, DisconnectDone, Silent, Wire, SameConnection, SameTask
<1>6. s \in Running
  BY <1>1, RunningIs
<1> QED  BY <1>3, <1>5, <1>6, LocalStep, EngineStill, QueuesStill DEF PhaseInv, Phase

\* What handling an event does, by its name.
LEMMA EventHandled ==
    ASSUME TypeInv, NEW s \in Sessions, HandleEvent(s), NEW e, e = Head(down[s])
    PROVE  /\ thread[s] = "service" /\ down[s] # <<>> /\ down'[s] = Tail(down[s])
           /\ UNCHANGED <<main, queue, fed, up>>
           /\ \A t \in Sessions : t # s => SameBackend(t) /\ SameLine(t)
           /\ e.ev \notin {"request_data", "ack_disconnect", "closed"} => thread'[s] = thread[s]
           /\ e.ev = "request_data" => thread'[s] = "dequeue"
           /\ e.ev = "ack_disconnect" => thread'[s] = "ended"
           /\ e.ev = "ack_setup" => flags'[s] = flags[s] \cup {"setuped"}
           /\ e.ev = "ack_task" => flags'[s] = flags[s] \cup {"task_acknowledged"}
           /\ e.ev = "result" => flags'[s] = flags[s] \cup {"completed"}
           /\ e.ev \notin {"ack_setup", "ack_task", "result"} => flags'[s] = flags[s]
           /\ sid'[s] = IF e.ev = "ack_setup" THEN e.sid ELSE sid[s]
<1> DEFINE w == CASE e.ev = "request_data"               -> "dequeue"
                  [] e.ev \in {"ack_disconnect", "closed"} -> "ended"
                  [] OTHER                               -> thread[s]
           f == CASE e.ev = "ack_setup" -> {"setuped"}
                  [] e.ev = "ack_task"  -> {"task_acknowledged"}
                  [] e.ev = "result"    -> {"completed"}
                  [] OTHER              -> {}
           i == IF e.ev = "ack_setup" THEN e.sid ELSE sid[s]
<1>1. /\ thread[s] = "service" /\ down[s] # <<>>
      /\ down' = [down EXCEPT ![s] = Tail(down[s])]
      /\ UNCHANGED <<main, queue, fed, up>> /\ ClientTypeOK /\ WireTypeOK
  BY DEF HandleEvent, TypeInv, TypeOK
<1>2. /\ thread' = [thread EXCEPT ![s] = w]
      /\ flags' = [flags EXCEPT ![s] = flags[s] \cup f]
      /\ sid' = [sid EXCEPT ![s] = i]
  BY Zenon DEF HandleEvent
<1>3. /\ e.ev \notin {"request_data", "ack_disconnect", "closed"} => w = thread[s]
      /\ e.ev = "request_data" => w = "dequeue"
      /\ e.ev = "ack_disconnect" => w = "ended"
  OBVIOUS
<1>4. /\ e.ev = "ack_setup" => f = {"setuped"}
      /\ e.ev = "ack_task" => f = {"task_acknowledged"}
      /\ e.ev = "result" => f = {"completed"}
      /\ e.ev \notin {"ack_setup", "ack_task", "result"} => f = {}
  OBVIOUS
<1> HIDE DEF w, f, i
<1>5. /\ thread'[s] = w /\ flags'[s] = flags[s] \cup f /\ sid'[s] = i
      /\ down'[s] = Tail(down[s])
      /\ \A t \in Sessions : t # s => /\ thread'[t] = thread[t] /\ flags'[t] = flags[t]
                                      /\ sid'[t] = sid[t] /\ down'[t] = down[t]
  BY <1>1, <1>2 DEF ClientTypeOK, WireTypeOK
<1>6. \A t \in Sessions : t # s => SameBackend(t) /\ SameLine(t)
  BY <1>1, <1>5 DEF SameBackend, SameLine
<1>7. e.ev \notin {"ack_setup", "ack_task", "result"} => flags'[s] = flags[s]
  BY <1>4, <1>5
<1> QED  BY <1>1, <1>3, <1>4, <1>5, <1>6, <1>7 DEF i

\* An acknowledged task: the message that stood before the others is gone.
LEMMA AckHandled ==
    ASSUME NEW s, flags[s] = {"setuped"}, flags'[s] = flags[s] \cup {"task_acknowledged"}
    PROVE  /\ AckTask(s) = <<Event("ack_task", s)>> /\ Unacked(s)
           /\ AckTask(s)' = <<>> /\ ~Unacked(s)'
           /\ {"setuped", "task_acknowledged"} \subseteq flags'[s] /\ "completed" \notin flags'[s]
BY DEF AckTask, Unacked

LEMMA HandleEventKeepsPhases ==
    ASSUME TypeInv, PhaseInv, NEW s \in Sessions, HandleEvent(s), UNCHANGED engineVars
    PROVE  PhaseInv'
<1> DEFINE e == Head(down[s])
<1>0. /\ thread[s] = "service" /\ down[s] # <<>> /\ down'[s] = Tail(down[s])
      /\ UNCHANGED <<main, queue, fed, up>>
      /\ \A t \in Sessions : t # s => Same(t)
  BY EventHandled, EngineStill DEF Same
<1>1. /\ requested'[s] = requested[s] /\ added'[s] = added[s] /\ builder'[s] = builder[s]
      /\ Queued(s)' = Queued(s) /\ up'[s] = up[s] /\ (s \in clients' <=> s \in clients)
      /\ sender'[s] = sender[s] /\ active' = active
  BY <1>0, EngineStill DEF SameTask, SameConnection
<1>2. Setting(s) \/ Working(s) \/ Closing(s)
  <2>1. ~Idle(s) /\ ~Connecting(s) /\ ~Starting(s) /\ ~Done(s)
    BY <1>0 DEF Idle, Connecting, Starting, Done, DisconnectDone, Silent, Wire
  <2> QED  BY <2>1 DEF PhaseInv, Phase
<1>3. s \in Running
  BY <1>2, RunningIs DEF Setting, Working, Attending, Closing
<1> SUFFICES Phase(s)'
  BY <1>0, <1>3, LocalStep, EngineStill, QueuesStill DEF PhaseInv
<1>4. CASE Setting(s)
  <2>1. /\ SetupAnswered(s) /\ down[s] = <<Event("ack_setup", s)>>
        /\ up[s] = <<>> /\ Queued(s) = <<>>
    BY <1>0, <1>4, ShortSeqs DEF Setting, SetupSent, SetupAnswered, SetupDone, Silent, Wire
  <2>2. e.ev = "ack_setup" /\ e.sid = s /\ down'[s] = <<>>
    BY <1>0, <2>1, ShortSeqs, EventFields
  <2>3. thread'[s] = "service" /\ flags'[s] = {"setuped"} /\ sid'[s] = s
    BY <1>0, <2>1, <2>2, EventHandled DEF SetupAnswered
  <2>4. SetupDone(s)'
    BY <1>1, <2>1, <2>2, <2>3 DEF SetupDone, SetupAnswered, Silent, Wire
  <2>5. Fresh(s)' /\ Served(s)'
    BY <1>0, <1>4, EngineStill DEF Setting, Fresh, SameTask, NoTask, TaskAt
  <2> QED  BY <1>0, <1>4, <2>3, <2>4, <2>5 DEF Setting, Phase
<1>5. CASE Working(s)
  <2>1. Serving(s)' /\ Attending(s)
    BY <1>5, EngineStill DEF Working
  <2>2. CASE Streaming(s) /\ Unacked(s)
    <3>1. e.ev = "ack_task" /\ flags[s] = {"setuped"}
      BY <1>0, <2>2, ShortSeqs, EventFields
         DEF Streaming, NothingUnderWay, RequestUnderWay, BatchUnderWay, Wire, AckTask, Unacked
    <3>2. /\ thread'[s] = "service" /\ flags'[s] = flags[s] \cup {"task_acknowledged"}
          /\ sid'[s] = sid[s]
      BY <1>0, <3>1, EventHandled
    <3>3. /\ AckTask(s) = <<Event("ack_task", s)>> /\ Unacked(s)
          /\ AckTask(s)' = <<>> /\ ~Unacked(s)'
          /\ {"setuped", "task_acknowledged"} \subseteq flags'[s] /\ "completed" \notin flags'[s]
      BY <3>1, <3>2, AckHandled
    <3>4. Attending(s)'
      BY <1>0, <2>1, <3>2, <3>3 DEF Attending
    <3>5. NothingUnderWay(s) => NothingUnderWay(s)'
      <4> SUFFICES ASSUME NothingUnderWay(s) PROVE NothingUnderWay(s)'
        OBVIOUS
      <4>1. up'[s] = <<>> /\ Queued(s)' = <<>> /\ down'[s] = <<>>
        BY <1>0, <1>1, <3>3, ShortSeqs DEF NothingUnderWay, Wire
      <4> QED  BY <1>0, <1>1, <3>2, <3>3, <4>1 DEF NothingUnderWay, Wire
    <3>6. RequestUnderWay(s) => RequestUnderWay(s)'
      <4> SUFFICES ASSUME RequestUnderWay(s) PROVE RequestUnderWay(s)'
        OBVIOUS
      <4>1. requested'[s] = added'[s] + 1 /\ fed'[s] = Len(queue'[s]) + added'[s]
        BY <1>0, <1>1, Zenon DEF RequestUnderWay
      <4>2. CASE Wire(s, <<>>, <<Event("request_data", s)>>, AckTask(s))
        <5>1. Wire(s, <<>>, <<Event("request_data", s)>>, AckTask(s))'
          BY <1>0, <1>1, <3>3, <4>2, ShortSeqs DEF Wire, Event
        <5> QED  BY <3>2, <4>1, <5>1 DEF RequestUnderWay
      <4>3. CASE Wire(s, <<>>, <<>>, Append(AckTask(s), Event("request_data", s)))
        <5>1. down'[s] = <<Event("request_data", s)>>
          <6>1. down[s] = <<Event("ack_task", s), Event("request_data", s)>>
            BY <3>3, <4>3, ShortSeqs DEF Wire
          <6> QED  BY <1>0, <6>1, ShortSeqs
        <5>2. Wire(s, <<>>, <<>>, Append(AckTask(s), Event("request_data", s)))'
          BY <1>1, <3>3, <4>3, <5>1, ShortSeqs DEF Wire, Event
        <5> QED  BY <3>2, <4>1, <5>2 DEF RequestUnderWay
      <4> QED  BY <1>0, <4>2, <4>3 DEF RequestUnderWay
    <3>7. ~BatchUnderWay(s)
      BY <3>3 DEF BatchUnderWay
    <3>8. Streaming(s)'
      BY <1>1, <2>2, <3>3, <3>5, <3>6, <3>7 DEF Streaming
    <3> QED  BY <2>1, <3>4, <3>8 DEF Working, Phase
  <2>3. CASE Streaming(s) /\ ~Unacked(s)
    <3>1. /\ RequestUnderWay(s) /\ down[s] = <<Event("request_data", s)>>
          /\ up[s] = <<>> /\ Queued(s) = <<>>
      BY <1>0, <2>3, ShortSeqs
         DEF Streaming, NothingUnderWay, RequestUnderWay, BatchUnderWay, Wire, AckTask
    <3>2. e.ev = "request_data" /\ down'[s] = <<>>
      BY <1>0, <3>1, ShortSeqs, EventFields
    <3>3. thread'[s] = "dequeue" /\ flags'[s] = flags[s] /\ sid'[s] = sid[s]
      BY <3>2, EventHandled
    <3>4. ~Unacked(s)' /\ Attending(s)'
      BY <1>0, <2>1, <2>3, <3>3 DEF Attending, Unacked
    <3>5. requested'[s] = added'[s] + 1 /\ fed'[s] = Len(queue'[s]) + added'[s]
      BY <1>0, <1>1, <3>1, Zenon DEF RequestUnderWay
    <3>6. RequestUnderWay(s)'
      BY <1>1, <3>1, <3>2, <3>3, <3>4, <3>5 DEF RequestUnderWay, Silent, Wire
    <3>7. Streaming(s)'
      BY <1>1, <2>3, <3>3, <3>6 DEF Streaming
    <3> QED  BY <2>1, <3>4, <3>7 DEF Working, Phase
  <2>4. CASE Completing(s)
    <3>1. /\ down[s] = <<Event("result", s)>> /\ up[s] = <<>> /\ Queued(s) = <<>>
      BY <1>0, <2>4, ShortSeqs DEF Completing, Silent, Wire
    <3>2. e.ev = "result" /\ down'[s] = <<>>
      BY <1>0, <3>1, ShortSeqs, EventFields
    <3>3. thread'[s] = "service" /\ flags'[s] = flags[s] \cup {"completed"} /\ sid'[s] = sid[s]
      BY <1>0, <3>2, EventHandled
    <3>4. ~Unacked(s)' /\ Attending(s)'
      BY <1>0, <2>1, <2>4, <3>3 DEF Attending, Completing, Unacked
    <3>5. Completing(s)'
      BY <1>1, <2>4, <3>1, <3>2, <3>3, <3>4 DEF Completing, Silent, Wire
    <3> QED  BY <2>1, <3>4, <3>5 DEF Working, Phase
  <2> QED  BY <1>5, <2>2, <2>3, <2>4 DEF Working
<1>6. CASE Closing(s)
  <2>1. /\ DisconnectAnswered(s) /\ down[s] = <<Event("ack_disconnect", s)>>
        /\ sender[s] = NoQueue /\ up[s] = <<>> /\ Queued(s) = <<>>
    BY <1>0, <1>6, ShortSeqs
       DEF Closing, DisconnectSent, DisconnectAnswered, DisconnectDone, Silent, Wire
  <2>2. e.ev = "ack_disconnect" /\ down'[s] = <<>>
    BY <1>0, <2>1, ShortSeqs, EventFields
  <2>3. thread'[s] = "ended"
    BY <2>2, EventHandled
  <2>4. DisconnectDone(s)'
    BY <1>1, <2>1, <2>2, <2>3 DEF DisconnectAnswered, DisconnectDone, Silent, Wire
  <2> QED  BY <1>0, <1>1, <1>6, <2>4 DEF Closing, Phase
<1> QED  BY <1>4, <1>5, <1>6, <1>2

LEMMA DequeueKeepsPhases ==
    ASSUME TypeInv, PhaseInv, NEW s \in Sessions, DequeueBatch(s), UNCHANGED engineVars
    PROVE  PhaseInv'
<1>1. /\ thread[s] = "dequeue" /\ queue[s] # <<>>
      /\ up' = [up EXCEPT ![s] = Append(up[s], Head(queue[s]))]
      /\ queue' = [queue EXCEPT ![s] = Tail(queue[s])]
      /\ thread' = [thread EXCEPT ![s] = "service"]
      /\ UNCHANGED <<main, flags, sid, fed, down>> /\ ClientTypeOK /\ WireTypeOK /\ EngineTypeOK
  BY DEF DequeueBatch, SendJson, TypeInv, TypeOK
<1>2. /\ thread'[s] = "service" /\ queue'[s] = Tail(queue[s])
      /\ up'[s] = Append(up[s], Head(queue[s]))
      /\ \A t \in Sessions : t # s => /\ thread'[t] = thread[t] /\ up'[t] = up[t]
                                      /\ queue'[t] = queue[t]
  BY <1>1 DEF ClientTypeOK, WireTypeOK
<1>3. \A t \in Sessions : t # s => Same(t)
  BY <1>1, <1>2, EngineStill DEF Same, SameBackend, SameLine
<1>4. Working(s) /\ Streaming(s) /\ RequestUnderWay(s) /\ Silent(s) /\ ~Unacked(s)
  <2>1. Working(s)
    BY <1>1 DEF PhaseInv, Phase, Idle, Connecting, Setting, Starting, Closing, Done,
                DisconnectSent, DisconnectAnswered, DisconnectDone
  <2> QED  BY <1>1, <2>1
      DEF Working, Streaming, Completing, NothingUnderWay, RequestUnderWay, BatchUnderWay
<1>5. /\ requested'[s] = requested[s] /\ added'[s] = added[s] /\ builder'[s] = builder[s]
      /\ Queued(s)' = Queued(s)
  BY EngineStill DEF SameTask
<1>6. queue[s] \in Seq(BatchEvents) /\ fed[s] \in Nat /\ added[s] \in Nat
  BY <1>1 DEF ClientTypeOK, EngineTypeOK
<1>7. /\ Head(queue[s]) \in BatchEvents /\ Head(queue[s]) = queue[s][1]
      /\ Len(queue[s]) \in Nat \ {0} /\ Len(Tail(queue[s])) = Len(queue[s]) - 1
      /\ \A i \in 1 .. Len(Tail(queue[s])) : Tail(queue[s])[i] = queue[s][i + 1]
  BY <1>1, <1>6, HeadTailProperties, EmptySeq
<1>8. PICK n \in 1 .. NBatches : Head(queue[s]) = BatchEvent(s, n)
  <2>1. queue[s][1].sid = s
    BY <1>4, <1>7 DEF Working, Attending
  <2> QED  BY <1>7, <2>1 DEF BatchEvents, BatchEvent
<1>9. Wire(s, <<BatchEvent(s, n)>>, <<>>, <<>>)'
  BY <1>1, <1>2, <1>4, <1>5, <1>8, ShortSeqs DEF Silent, Wire, BatchEvent
<1>10. requested'[s] = added'[s] + 1 /\ fed'[s] = Len(queue'[s]) + added'[s] + 1
  <2> DEFINE l == Len(queue[s])
             m == Len(queue'[s])
  <2>1. /\ requested[s] = added[s] + 1 /\ fed[s] = l + added[s]
        /\ l \in Nat \ {0} /\ m = l - 1
    BY <1>2, <1>4, <1>7, Zenon DEF RequestUnderWay
  <2> HIDE DEF l, m
  <2>2. fed[s] = m + added[s] + 1
    BY <1>6, <2>1
  <2> QED  BY <1>1, <1>5, <2>1, <2>2 DEF m
<1>11. ~Unacked(s)'
  BY <1>1, <1>4 DEF Unacked
<1>12. BatchUnderWay(s)'
  BY <1>2, <1>9, <1>10, <1>11 DEF BatchUnderWay
<1>13. Streaming(s)'
  BY <1>1, <1>4, <1>5, <1>12 DEF Streaming
<1>14. Attending(s)'
  <2>1. \A i \in 1 .. Len(queue'[s]) : queue'[s][i].sid = s
    <3> SUFFICES ASSUME NEW i \in 1 .. Len(Tail(queue[s])) PROVE Tail(queue[s])[i].sid = s
      BY <1>2
    <3>1. i + 1 \in 1 .. Len(queue[s])
      BY <1>7
    <3> QED  BY <1>4, <1>7, <3>1 DEF Working, Attending
  <2> QED  BY <1>1, <1>4, <2>1 DEF Working, Attending, Unacked
<1>15. Working(s)'
  BY <1>4, <1>13, <1>14, EngineStill DEF Working
<1>16. s \in Running
  BY <1>4, RunningIs DEF Working, Attending
<1> QED  BY <1>3, <1>15, <1>16, LocalStep, EngineStill, QueuesStill DEF PhaseInv, Phase

-----------------------------------------------------------------------------
(* The batches taken. *)

LEMMA StageSizes ==
    /\ NTrain \in Int /\ NEval \in Int /\ NTest \in Int
    /\ NTrain + NEval + NTest = NBatches /\ NBatches \in Nat \ {0}
<1>1. \A a \in Nat : a \div 10 \in Int
  OBVIOUS
<1>2. NBatches \in Nat \ {0} /\ 8 * NBatches + 9 \in Nat /\ NBatches + 9 \in Nat
  BY WireAssumption
<1>3. NTrain \in Int /\ NEval \in Int
  BY <1>1, <1>2 DEF NTrain, NEval
<1> HIDE DEF NTrain, NEval
<1> QED  BY <1>2, <1>3 DEF NTest

\* What Taken is, for either kind of task.
LEMMA TakenIs ==
    ASSUME NEW s \in Sessions, NEW b, b = builder[s]
    PROVE  /\ Task[s] = "inference" => /\ Stages(s) = <<NBatches>> /\ Len(Stages(s)) = 1
                                       /\ b.stage = 1 => Taken(s) = b.count
                                       /\ b.stage = 2 => Taken(s) = NBatches + b.count
           /\ Task[s] = "train" => /\ Stages(s) = <<NTrain, NEval, NTest>> /\ Len(Stages(s)) = 3
                                   /\ b.stage = 1 => Taken(s) = b.count
                                   /\ b.stage = 2 => Taken(s) = NTrain + b.count
                                   /\ b.stage = 3 => Taken(s) = NTrain + NEval + b.count
           /\ b.stage \notin {1, 2, 3} => Taken(s) = NBatches
           /\ Task[s] \in {"train", "inference"}
<1>1. /\ Task[s] \in {"train", "inference"}
      /\ Task[s] = "inference" => Stages(s) = <<NBatches>>
      /\ Task[s] = "train" => Stages(s) = <<NTrain, NEval, NTest>>
  BY WireAssumption DEF Stages
<1>2. /\ b.stage = 1 => Taken(s) = b.count
      /\ b.stage = 2 => Taken(s) = Stages(s)[1] + b.count
      /\ b.stage = 3 => Taken(s) = Stages(s)[1] + Stages(s)[2] + b.count
      /\ b.stage \notin {1, 2, 3} => Taken(s) = NBatches
  BY DEF Taken
<1>3. CASE Task[s] = "inference"
  <2>1. Stages(s)[1] = NBatches /\ Len(Stages(s)) = 1
    BY <1>1, <1>3
  <2> QED  BY <1>1, <1>2, <1>3, <2>1
<1>4. CASE Task[s] = "train"
  <2>1. Stages(s)[1] = NTrain /\ Stages(s)[2] = NEval /\ Len(Stages(s)) = 3
    BY <1>1, <1>4
  <2> QED  BY <1>1, <1>2, <1>4, <2>1
<1> QED  BY <1>1, <1>3, <1>4

LEMMA TakenTyped ==
    ASSUME TypeInv, NEW s \in Sessions, builder[s].stage <= Len(Stages(s)) + 1
    PROVE  Taken(s) \in Int
<1> DEFINE b == builder[s]
<1>1. b.stage \in 0 .. 4 /\ b.count \in Nat
  BY DEF TypeInv, TypeOK, EngineTypeOK
<1>2. CASE Task[s] = "inference"
  <2>1. Len(Stages(s)) = 1
    BY <1>2, TakenIs
  <2>2. b.stage \in {0, 1, 2}
    BY <1>1, <2>1
  <2>3. \/ Taken(s) = b.count \/ Taken(s) = NBatches + b.count \/ Taken(s) = NBatches
    BY <1>2, <2>2, TakenIs
  <2> HIDE DEF b
  <2> QED  BY <1>1, <2>3, StageSizes
<1>3. CASE Task[s] = "train"
  <2>1. b.stage \in {0, 1, 2, 3, 4}
    BY <1>1
  <2>2. \/ Taken(s) = b.count \/ Taken(s) = NTrain + b.count
        \/ Taken(s) = NTrain + NEval + b.count \/ Taken(s) = NBatches
    BY <1>3, <2>1, TakenIs
  <2> HIDE DEF b
  <2> QED  BY <1>1, <2>2, StageSizes
<1> QED  BY <1>2, <1>3, TakenIs

-----------------------------------------------------------------------------
(* The steps of the engine. *)

LEMMA BackendStill ==
    ASSUME UNCHANGED clientVars
    PROVE  /\ UNCHANGED <<main, thread, flags, sid, queue, fed>>
           /\ \A t : SameBackend(t)
           /\ \A t : (Unacked(t)' <=> Unacked(t)) /\ AckTask(t)' = AckTask(t)
           /\ \A t : Attending(t)' <=> Attending(t)
<1>1. UNCHANGED <<main, thread, flags, sid, queue, fed>>
  BY DEF clientVars
<1>2. \A t : SameBackend(t)
  BY <1>1 DEF SameBackend
<1>3. \A t : (Unacked(t)' <=> Unacked(t)) /\ AckTask(t)' = AckTask(t)
  BY <1>1 DEF Unacked, AckTask, Event
<1>4. \A t : Attending(t)' <=> Attending(t)
  BY <1>1, <1>3 DEF Attending
<1> QED  BY <1>1, <1>2, <1>3, <1>4

\* The queue of a session that is served is the current one.
LEMMA ServedQueue ==
    ASSUME TypeInv, NEW s \in Sessions, Served(s)
    PROVE  /\ current \in QueueIds /\ sender[s] = current /\ sender[s] # NoQueue /\ active
           /\ Queued(s) = queues[current] /\ receiver[s] = "receive"
<1>1. current \in QueueIds
  BY DEF TypeInv, TypeOK, EngineTypeOK
<1> QED  BY <1>1, QueueIdsFacts DEF Served, Queued

\* A message for a session that is served and has none waiting.
LEMMA MessageSent ==
    ASSUME TypeInv, NewQueuesEmpty, NEW s \in Sessions, Served(s), Queued(s) = <<>>,
           NEW e, Send(e), sender'[s] = sender[s]
    PROVE  /\ Queued(s)' = <<e>>
           /\ \A q \in QueueIds : q # current => queues'[q] = queues[q]
           /\ UNCHANGED <<active, current>> => NewQueuesEmpty'
<1>1. /\ current \in QueueIds /\ sender[s] = current /\ sender[s] # NoQueue /\ active
      /\ queues[current] = <<>> /\ queues \in [QueueIds -> Seq(DownEvent)]
  BY ServedQueue DEF TypeInv, TypeOK, EngineTypeOK
<1>2. queues' = [queues EXCEPT ![current] = Append(queues[current], e)]
  BY <1>1 DEF Send
<1>3. /\ queues'[current] = Append(queues[current], e)
      /\ \A q \in QueueIds : q # current => queues'[q] = queues[q]
  BY <1>1, <1>2
<1>4. Queued(s)' = <<e>>
  BY <1>1, <1>3, ShortSeqs DEF Queued
<1>5. UNCHANGED <<active, current>> => NewQueuesEmpty'
  BY <1>1, <1>3, QueueIdsFacts DEF NewQueuesEmpty
<1> QED  BY <1>3, <1>4, <1>5

LEMMA AcceptKeepsPhases ==
    ASSUME TypeInv, PhaseInv, NEW s \in Sessions, main[s] = "connect", Accept(s),
           UNCHANGED clientVars
    PROVE  PhaseInv'
<1>0. TypeInv'
  BY AcceptKeepsTypes
<1>1. /\ receiver' = [receiver EXCEPT ![s] = "receive"] /\ receiver[s] = "off"
      /\ sender' = [sender EXCEPT ![s] = current + 1]
      /\ active' = TRUE /\ current' = current + 1
      /\ UNCHANGED <<queues, clients, bound, cache, added, full, dispatcher, requested, builder,
                     up, down>>
      /\ EngineTypeOK /\ current \in QueueIds /\ current' \in QueueIds
  BY <1>0 DEF Accept, dispatcherVars, taskVars, wireVars, TypeInv, TypeOK, EngineTypeOK
<1>2. /\ receiver'[s] = "receive" /\ sender'[s] = current'
      /\ \A t \in Sessions : t # s => receiver'[t] = receiver[t] /\ sender'[t] = sender[t]
  BY <1>1 DEF EngineTypeOK
<1>3. \A t \in Sessions : t # s => Same(t)
  BY <1>1, <1>2, BackendStill DEF Same, SameLine, SameConnection, SameTask
<1>4. current \in Nat /\ current' \in Nat
  BY <1>1, QueueIdsFacts
<1>5. queues[current'] = <<>> /\ NewQueuesEmpty'
  <2>1. queues[current'] = <<>>
    BY <1>1, <1>4 DEF PhaseInv, NewQueuesEmpty
  <2>2. ASSUME NEW q \in QueueIds, q > current' \/ (q = current' /\ ~active')
        PROVE  queues'[q] = <<>>
    <3>1. q > current
      BY <2>2, <1>1, <1>4, QueueIdsFacts
    <3> QED  BY <3>1, <1>1 DEF PhaseInv, NewQueuesEmpty
  <2> QED  BY <2>1, <2>2 DEF NewQueuesEmpty
<1>6. Connecting(s)
  BY PhaseMain DEF PhaseInv
<1>7. Queued(s)' = <<>> /\ Served(s)'
  BY <1>1, <1>2, <1>5 DEF Queued, Served
<1>8. Connecting(s)'
  BY <1>1, <1>6, <1>7, BackendStill DEF Connecting, Silent, Wire, Fresh, NoTask, TaskAt
<1>9. s \in Running
  BY RunningIs
<1> QED  BY <1>3, <1>5, <1>8, <1>9, LocalStep DEF Phase

LEMMA SendQueuedKeepsPhases ==
    ASSUME TypeInv, PhaseInv, NEW s \in Sessions, SendQueued(s), UNCHANGED clientVars
    PROVE  PhaseInv'
<1> DEFINE q == sender[s]
<1>1. /\ q # NoQueue /\ queues[q] # <<>>
      /\ down' = [down EXCEPT ![s] = Append(down[s], Head(queues[q]))]
      /\ queues' = [queues EXCEPT ![q] = Tail(queues[q])]
      /\ sender' = [sender EXCEPT ![s] = IF active THEN current ELSE NoQueue]
      /\ UNCHANGED <<active, current, receiver, clients, bound, cache, added, full, dispatcher,
                     requested, builder, up>>
      /\ EngineTypeOK /\ WireTypeOK
  BY DEF SendQueued, dispatcherVars, taskVars, TypeInv, TypeOK
<1>2. q \in QueueIds /\ Queued(s) = queues[q]
  BY <1>1 DEF EngineTypeOK, Queued
<1>3. /\ down'[s] = Append(down[s], Head(queues[q])) /\ queues'[q] = Tail(queues[q])
      /\ sender'[s] = IF active THEN current ELSE NoQueue
      /\ \A t \in Sessions : t # s => down'[t] = down[t] /\ sender'[t] = sender[t]
      /\ \A r \in QueueIds : r # q => queues'[r] = queues[r]
  BY <1>1, <1>2 DEF EngineTypeOK, WireTypeOK
<1> HIDE DEF q
<1>4. \A t \in Sessions : t # s => Same(t)
  BY <1>1, <1>3, BackendStill DEF Same, SameLine, SameConnection, SameTask
<1>5. Setting(s) \/ Working(s) \/ Closing(s)
  <2>1. ~Idle(s) /\ ~Connecting(s) /\ ~Starting(s) /\ ~Done(s)
    BY <1>1, <1>2 DEF Idle, Connecting, Starting, Done, DisconnectDone, Silent, Wire, q
  <2> QED  BY <2>1 DEF PhaseInv, Phase
<1>6. s \in Running
  BY <1>5, RunningIs DEF Setting, Working, Attending, Closing
\* There is one message in the queue, and it goes to the backend.
<1>7. ASSUME NEW e, NEW d, Wire(s, <<>>, <<e>>, d)
      PROVE  /\ up'[s] = <<>> /\ down'[s] = Append(d, e) /\ queues'[q] = <<>>
             /\ NewQueuesEmpty'
  <2>1. queues[q] = <<e>> /\ up[s] = <<>> /\ down[s] = d
    BY <1>2, <1>7 DEF Wire
  <2>2. queues'[q] = <<>>
    BY <1>3, <2>1, ShortSeqs
  <2>3. up'[s] = <<>> /\ down'[s] = Append(d, e)
    BY <1>1, <1>3, <2>1, ShortSeqs
  <2>4. NewQueuesEmpty'
    BY <1>1, <1>3, <2>2 DEF PhaseInv, NewQueuesEmpty
  <2> QED  BY <2>2, <2>3, <2>4
<1>8. ASSUME Served(s), queues'[q] = <<>>
      PROVE  Served(s)' /\ Queued(s)' = <<>>
  <2>1. q = current /\ active /\ current # NoQueue
    BY <1>8, ServedQueue DEF q
  <2> QED  BY <1>1, <1>3, <1>8, <2>1 DEF Served, Queued
<1>9. Taken(s)' = Taken(s)
  BY <1>1 DEF Taken
<1>10. CASE Setting(s)
  <2>1. /\ Wire(s, <<>>, <<Event("ack_setup", s)>>, <<>>) /\ SetupAnswered(s)
    BY <1>1, <1>2, <1>10, ShortSeqs DEF Setting, SetupSent, SetupAnswered, SetupDone, Silent, Wire
  <2>2. /\ up'[s] = <<>> /\ down'[s] = <<Event("ack_setup", s)>> /\ NewQueuesEmpty'
        /\ Served(s)' /\ Queued(s)' = <<>>
    BY <1>7, <1>8, <1>10, <2>1, ShortSeqs DEF Setting
  <2>3. SetupAnswered(s)'
    BY <1>1, <2>1, <2>2, BackendStill DEF SetupAnswered, Wire, Event
  <2>4. Setting(s)'
    BY <1>1, <1>10, <2>2, <2>3, BackendStill DEF Setting, Fresh, NoTask, TaskAt
  <2> QED  BY <1>4, <1>6, <2>2, <2>4, LocalStep DEF Phase
<1>11. CASE Working(s)
  <2>1. CASE Streaming(s)
    <3>1. /\ Wire(s, <<>>, <<Event("request_data", s)>>, AckTask(s)) /\ RequestUnderWay(s)
          /\ thread[s] = "service"
      BY <1>1, <1>2, <2>1, ShortSeqs
         DEF Streaming, NothingUnderWay, RequestUnderWay, BatchUnderWay, Silent, Wire
    <3>2. /\ up'[s] = <<>> /\ down'[s] = Append(AckTask(s), Event("request_data", s))
          /\ NewQueuesEmpty' /\ Served(s)' /\ Queued(s)' = <<>>
      BY <1>7, <1>8, <1>11, <3>1 DEF Working, Serving
    <3>3. Wire(s, <<>>, <<>>, Append(AckTask(s), Event("request_data", s)))'
      BY <3>2, BackendStill DEF Wire, Event
    <3>4. requested'[s] = added'[s] + 1 /\ fed'[s] = Len(queue'[s]) + added'[s]
      BY <1>1, <3>1, BackendStill, Zenon DEF RequestUnderWay
    <3>5. RequestUnderWay(s)'
      BY <3>1, <3>3, <3>4, BackendStill DEF RequestUnderWay
    <3>6. Streaming(s)'
      BY <1>1, <2>1, <3>5, BackendStill DEF Streaming
    <3>7. Serving(s)'
      BY <1>1, <1>9, <1>11, <3>2 DEF Working, Serving
    <3>8. Working(s)'
      BY <1>11, <3>6, <3>7, BackendStill DEF Working
    <3> QED  BY <1>4, <1>6, <3>2, <3>8, LocalStep DEF Phase
  <2>2. CASE Completing(s)
    <3>1. Wire(s, <<>>, <<Event("result", s)>>, <<>>) /\ "completed" \notin flags[s]
      BY <1>1, <1>2, <2>2, ShortSeqs DEF Completing, Silent, Wire
    <3>2. /\ up'[s] = <<>> /\ down'[s] = <<Event("result", s)>>
          /\ NewQueuesEmpty' /\ Served(s)' /\ Queued(s)' = <<>>
      BY <1>7, <1>8, <1>11, <3>1, ShortSeqs DEF Working, Serving
    <3>3. Completing(s)'
      BY <1>1, <2>2, <3>1, <3>2, BackendStill DEF Completing, Wire, Event
    <3>4. Serving(s)'
      BY <1>1, <1>9, <1>11, <3>2 DEF Working, Serving
    <3>5. Working(s)'
      BY <1>11, <3>3, <3>4, BackendStill DEF Working
    <3> QED  BY <1>4, <1>6, <3>2, <3>5, LocalStep DEF Phase
  <2> QED  BY <1>11, <2>1, <2>2 DEF Working
<1>12. CASE Closing(s)
  <2>1. /\ Wire(s, <<>>, <<Event("ack_disconnect", s)>>, <<>>) /\ ~active
        /\ s \notin clients /\ thread[s] = "service"
    BY <1>1, <1>2, <1>12, ShortSeqs
       DEF Closing, DisconnectSent, DisconnectAnswered, DisconnectDone, Silent, Wire
  <2>2. /\ up'[s] = <<>> /\ down'[s] = <<Event("ack_disconnect", s)>> /\ NewQueuesEmpty'
    BY <1>7, <2>1, ShortSeqs
  <2>3. sender'[s] = NoQueue /\ Queued(s)' = <<>>
    BY <1>3, <2>1 DEF Queued
  <2>4. DisconnectAnswered(s)'
    BY <1>1, <2>1, <2>2, <2>3, BackendStill DEF DisconnectAnswered, Wire, Event
  <2>5. Closing(s)'
    BY <1>1, <1>12, <2>4, BackendStill DEF Closing
  <2> QED  BY <1>4, <1>6, <2>2, <2>5, LocalStep DEF Phase
<1> QED  BY <1>5, <1>10, <1>11, <1>12

LEMMA SetupReceived ==
    ASSUME TypeInv, PhaseInv, NEW s \in Sessions, UNCHANGED clientVars,
           Setting(s), SetupSent(s), OnSetup(s),
           up'[s] = <<>>, \A t \in Sessions : t # s => up'[t] = up[t]
    PROVE  PhaseInv'
<1>1. /\ clients' = clients \cup {s} /\ Send(Event("ack_setup", s))
      /\ UNCHANGED <<sender, active, current, receiver, bound, cache, added, full, dispatcher,
                     requested, builder, down>>
  BY DEF OnSetup, dispatcherVars, taskVars
<1>2. \A t \in Sessions : t # s => Same(t)
  BY <1>1, BackendStill DEF Same, SameLine, SameConnection, SameTask
<1>3. Served(s) /\ Queued(s) = <<>> /\ down[s] = <<>> /\ NewQueuesEmpty
  BY DEF Setting, SetupSent, Wire, PhaseInv
<1>4. Queued(s)' = <<Event("ack_setup", s)>> /\ NewQueuesEmpty'
  BY <1>1, <1>3, MessageSent
<1>5. SetupAnswered(s)'
  BY <1>1, <1>3, <1>4, BackendStill DEF SetupSent, SetupAnswered, Wire, Event
<1>6. Setting(s)'
  BY <1>1, <1>5, BackendStill DEF Setting, Served, Fresh, NoTask, TaskAt
<1>7. s \in Running
  BY RunningIs DEF Setting
<1> QED  BY <1>2, <1>4, <1>6, <1>7, LocalStep DEF Phase

LEMMA TaskReceived ==
    ASSUME TypeInv, PhaseInv, NEW s \in Sessions, UNCHANGED clientVars, Starting(s), OnTask(s, s),
           up'[s] = <<>>, \A t \in Sessions : t # s => up'[t] = up[t]
    PROVE  PhaseInv'
<1>1. /\ bound' = bound \cup {s}
      /\ cache' = [cache EXCEPT ![s] = <<>>]
      /\ added' = [added EXCEPT ![s] = 0]
      /\ dispatcher' = [dispatcher EXCEPT ![s] = "start"]
      /\ requested' = [requested EXCEPT ![s] = 0]
  BY DEF OnTask, InitDatabase, Starting, Fresh
<1>2. /\ down' = [down EXCEPT ![s] = Append(down[s], Event("ack_task", s))]
      /\ builder' = [builder EXCEPT ![s] = TaskAt(s, 1)]
      /\ UNCHANGED <<sender, active, current, queues, receiver, clients>>
      /\ EngineTypeOK /\ WireTypeOK
  BY DEF OnTask, senderVars, Starting, TypeInv, TypeOK
<1>3. /\ s \in bound' /\ cache'[s] = <<>> /\ added'[s] = 0 /\ requested'[s] = 0
      /\ builder'[s] = TaskAt(s, 1) /\ down'[s] = Append(down[s], Event("ack_task", s))
  BY <1>1, <1>2 DEF EngineTypeOK, WireTypeOK
<1>4. \A t \in Sessions : t # s => Same(t)
  <2>1. \A t \in Sessions : t # s => SameTask(t)
    BY <1>1, <1>2 DEF EngineTypeOK, SameTask
  <2> QED  BY <1>2, <2>1, BackendStill DEF WireTypeOK, Same, SameLine, SameConnection
<1>5. builder'[s].sid = s /\ builder'[s].stage = 1 /\ builder'[s].count = 0
  BY <1>3 DEF TaskAt
<1>6. /\ queue'[s] = <<>> /\ fed'[s] = 0 /\ flags'[s] = {"setuped"} /\ main'[s] = "task"
      /\ sid'[s] = s /\ thread'[s] = "service"
  BY BackendStill DEF Starting, Fresh
<1>7. down'[s] = <<Event("ack_task", s)>> /\ Queued(s)' = <<>>
  BY <1>2, <1>3, ShortSeqs DEF Starting, Wire, Queued
<1>8. Attending(s)'
  BY <1>6 DEF Attending, Unacked
<1>9. Serving(s)'
  <2>1. Taken(s)' = 0
    BY <1>5 DEF Taken
  <2>2. Len(cache'[s]) = 0
    BY <1>3
  <2>3. builder'[s].stage <= Len(Stages(s)) + 1
    <3>1. \A n \in 1 .. 3 : 1 <= n + 1
      OBVIOUS
    <3> QED  BY <1>5, <3>1, StagesTyped, Zenon
  <2> QED  BY <1>2, <1>3, <1>5, <2>1, <2>2, <2>3 DEF Starting, Serving, Served
<1>10. Streaming(s)'
  <2>1. Wire(s, <<>>, <<>>, AckTask(s))'
    BY <1>6, <1>7 DEF Wire, AckTask, Unacked
  <2>2. fed'[s] = Len(queue'[s]) + added'[s]
    BY <1>3, <1>6
  <2> QED  BY <1>3, <1>5, <1>6, <2>1, <2>2 DEF Streaming, NothingUnderWay
<1>11. s \in Running
  BY RunningIs DEF Starting
<1>12. NewQueuesEmpty'
  BY <1>2, QueuesStill DEF PhaseInv
<1> QED  BY <1>4, <1>8, <1>9, <1>10, <1>11, <1>12, LocalStep DEF Phase, Working

LEMMA BatchReceived ==
    ASSUME TypeInv, PhaseInv, NEW s \in Sessions, UNCHANGED clientVars,
           Working(s), Streaming(s), BatchUnderWay(s), NEW n \in 1 .. NBatches, OnBatchData(s, n),
           up'[s] = <<>>, \A t \in Sessions : t # s => up'[t] = up[t]
    PROVE  PhaseInv'
<1>1. /\ cache' = [cache EXCEPT ![s] = Append(cache[s], n)]
      /\ added' = [added EXCEPT ![s] = added[s] + 1]
      /\ UNCHANGED <<sender, active, current, queues, receiver, clients, bound, dispatcher,
                     requested, builder, down>>
      /\ EngineTypeOK
  BY DEF OnBatchData, senderVars, taskVars, Working, Serving, TypeInv, TypeOK
<1>2. /\ cache'[s] = Append(cache[s], n) /\ added'[s] = added[s] + 1
      /\ \A t \in Sessions : t # s => cache'[t] = cache[t] /\ added'[t] = added[t]
  BY <1>1 DEF EngineTypeOK
<1>3. \A t \in Sessions : t # s => Same(t)
  BY <1>1, <1>2, BackendStill DEF Same, SameLine, SameConnection, SameTask
<1>4. cache[s] \in Seq(1 .. NBatches) /\ added[s] \in Nat
  BY <1>1 DEF EngineTypeOK
<1>5. Len(cache'[s]) = Len(cache[s]) + 1 /\ Len(cache[s]) \in Nat
  BY <1>2, <1>4, AppendProperties, LenProperties
<1>6. Taken(s)' = Taken(s)
  BY <1>1 DEF Taken
<1>7. Serving(s)'
  <2> DEFINE l == Len(cache[s])
             k == Taken(s)
  <2>1. l \in Nat /\ k \in Int /\ added[s] = l + k
    BY <1>5, TakenTyped DEF Working, Serving
  <2>2. added'[s] = Len(cache'[s]) + Taken(s)'
    <3>1. Len(cache'[s]) = l + 1 /\ Taken(s)' = k /\ added'[s] = added[s] + 1
      BY <1>2, <1>5, <1>6
    <3> HIDE DEF l, k
    <3>2. added[s] + 1 = (l + 1) + k
      BY <1>4, <2>1
    <3> QED  BY <3>1, <3>2
  <2> QED  BY <1>1, <2>2 DEF Working, Serving, Served
<1>8. Streaming(s)'
  <2>1. down[s] = <<>> /\ Queued(s) = <<>> /\ ~Unacked(s) /\ thread[s] = "service"
    BY DEF BatchUnderWay, Wire
  <2>2. Wire(s, <<>>, <<>>, AckTask(s))'
    BY <1>1, <2>1, BackendStill DEF Wire, AckTask, Queued
  <2>3. requested[s] = added[s] + 1 /\ fed[s] = Len(queue[s]) + added[s] + 1
    BY Zenon DEF BatchUnderWay
  <2>4. requested'[s] = added'[s] /\ fed'[s] = Len(queue'[s]) + added'[s]
    <3> DEFINE l == Len(queue[s])
    <3>1. fed[s] = l + added[s] + 1 /\ l \in Nat
      BY <2>3, LenProperties DEF TypeInv, TypeOK, ClientTypeOK
    <3> HIDE DEF l
    <3>2. fed[s] = l + (added[s] + 1)
      BY <1>4, <3>1
    <3> QED  BY <1>1, <1>2, <2>3, <3>2, BackendStill DEF l
  <2> QED  BY <1>1, <2>1, <2>2, <2>4, BackendStill DEF Streaming, NothingUnderWay
<1>9. Working(s)'
  BY <1>7, <1>8, BackendStill DEF Working
<1>10. s \in Running
  BY RunningIs DEF Working, Attending
<1>11. NewQueuesEmpty'
  BY <1>1, QueuesStill DEF PhaseInv
<1> QED  BY <1>3, <1>9, <1>10, <1>11, LocalStep DEF Phase

LEMMA DisconnectReceived ==
    ASSUME TypeInv, TypeInv', PhaseInv, NEW s \in Sessions, UNCHANGED clientVars,
           Closing(s), DisconnectSent(s), OnDisconnect(s, s),
           up'[s] = <<>>, \A t \in Sessions : t # s => up'[t] = up[t]
    PROVE  PhaseInv'
<1>1. /\ clients' = clients \ {s} /\ bound' = bound \ {s} /\ Send(Event("ack_disconnect", s))
      /\ active' = FALSE /\ current' = current + 1
      /\ UNCHANGED <<receiver, down, sender, cache, added, full, dispatcher, requested, builder>>
  BY DEF OnDisconnect, DisconnectSent, dispatcherVars, taskVars
<1>2. \A t \in Sessions : t # s => Same(t)
  BY <1>1, BackendStill DEF Same, SameLine, SameConnection, SameTask
<1>3. Served(s) /\ Queued(s) = <<>> /\ down[s] = <<>> /\ NewQueuesEmpty
  BY DEF DisconnectSent, Wire, PhaseInv
<1>4. /\ Queued(s)' = <<Event("ack_disconnect", s)>>
      /\ \A q \in QueueIds : q # current => queues'[q] = queues[q]
  BY <1>1, <1>3, MessageSent
<1>5. NewQueuesEmpty'
  <2> SUFFICES ASSUME NEW q \in QueueIds, q > current' \/ q = current'
               PROVE  queues'[q] = <<>>
    BY DEF NewQueuesEmpty
  <2>1. q \in Nat /\ current \in Nat
    BY QueueIdsFacts DEF TypeInv, TypeOK, EngineTypeOK
  <2>2. q > current /\ q # current
    BY <1>1, <2>1
  <2> QED  BY <1>3, <1>4, <2>2 DEF NewQueuesEmpty
<1>6. DisconnectAnswered(s)'
  BY <1>1, <1>3, <1>4, BackendStill DEF DisconnectSent, DisconnectAnswered, Wire, Event
<1>7. Closing(s)'
  BY <1>1, <1>6, BackendStill DEF Closing
<1>8. s \in Running
  BY RunningIs DEF Closing
<1> QED  BY <1>2, <1>5, <1>7, <1>8, LocalStep DEF Phase

LEMMA ReceiveKeepsPhases ==
    ASSUME TypeInv, PhaseInv, NEW s \in Sessions, Receive(s), UNCHANGED clientVars
    PROVE  PhaseInv'
<1> DEFINE e == Head(up[s])
<1>0. TypeInv'
  BY ReceiveKeepsTypes
<1>1. /\ up[s] # <<>> /\ up' = [up EXCEPT ![s] = Tail(up[s])] /\ WireTypeOK
      /\ \/ e.ev = "setup" /\ OnSetup(s)
         \/ e.ev = "task" /\ OnTask(s, e.sid)
         \/ e.ev = "batch_data" /\ OnBatchData(e.sid, e.batch)
         \/ e.ev = "disconnect" /\ OnDisconnect(s, e.sid)
  BY DEF Receive, TypeInv, TypeOK
<1>2. up'[s] = Tail(up[s]) /\ \A t \in Sessions : t # s => up'[t] = up[t]
  BY <1>1 DEF WireTypeOK
<1>3. CASE Setting(s)
  <2>1. SetupSent(s) /\ up[s] = <<Event("setup", NoSession)>>
    BY <1>1, <1>3 DEF Setting, SetupSent, SetupAnswered, SetupDone, Silent, Wire
  <2>2. up'[s] = <<>> /\ e.ev = "setup"
    BY <1>2, <2>1, ShortSeqs, EventFields
  <2> QED  BY <1>1, <1>2, <1>3, <2>1, <2>2, SetupReceived
<1>4. CASE Starting(s)
  <2>1. up[s] = <<Event("task", s)>>
    BY <1>4 DEF Starting, Wire
  <2>2. up'[s] = <<>> /\ e.ev = "task" /\ e.sid = s
    BY <1>2, <2>1, ShortSeqs, EventFields
  <2> QED  BY <1>1, <1>2, <1>4, <2>2, TaskReceived
<1>5. CASE Working(s)
  <2>1. Streaming(s) /\ BatchUnderWay(s)
    BY <1>1, <1>5 DEF Working, Streaming, Completing, NothingUnderWay, RequestUnderWay, Silent, Wire
  <2>2. PICK n \in 1 .. NBatches : up[s] = <<BatchEvent(s, n)>>
    BY <2>1 DEF BatchUnderWay, Wire
  <2>3. up'[s] = <<>> /\ e.ev = "batch_data" /\ e.sid = s /\ e.batch = n
    BY <1>2, <2>2, ShortSeqs DEF BatchEvent
  <2> QED  BY <1>1, <1>2, <1>5, <2>1, <2>3, BatchReceived
<1>6. CASE Closing(s)
  <2>1. DisconnectSent(s) /\ up[s] = <<Event("disconnect", s)>>
    BY <1>1, <1>6 DEF Closing, DisconnectSent, DisconnectAnswered, DisconnectDone, Silent, Wire
  <2>2. up'[s] = <<>> /\ e.ev = "disconnect" /\ e.sid = s
    BY <1>2, <2>1, ShortSeqs, EventFields
  <2> QED  BY <1>0, <1>1, <1>2, <1>6, <2>1, <2>2, DisconnectReceived
<1>7. Setting(s) \/ Starting(s) \/ Working(s) \/ Closing(s)
  <2>1. ~Idle(s) /\ ~Connecting(s) /\ ~Done(s)
    BY <1>1 DEF Idle, Connecting, Done, DisconnectDone, Silent, Wire
  <2> QED  BY <2>1 DEF PhaseInv, Phase
<1> QED  BY <1>3, <1>4, <1>5, <1>6, <1>7

\* Only a session that streams has a task under way.
LEMMA BuilderStreams ==
    ASSUME PhaseInv, NEW s \in Sessions, builder[s].stage > 0
    PROVE  Working(s) /\ Streaming(s) /\ s \in Running
<1>1. NoTask.stage = 0 /\ ~(0 > 0)
  BY DEF NoTask, TaskAt
<1>2. ~Idle(s) /\ ~Connecting(s) /\ ~Setting(s) /\ ~Starting(s)
  BY <1>1 DEF Idle, Connecting, Setting, Starting, Fresh
<1>3. ~Closing(s) /\ ~Done(s) /\ ~Completing(s)
  BY <1>1 DEF Closing, Done, Completing
<1>4. Working(s) /\ Streaming(s)
  BY <1>2, <1>3 DEF PhaseInv, Phase, Working
<1> QED  BY <1>4, RunningIs DEF Working, Attending

\* One more batch has been taken, whichever stage it belongs to.
LEMMA TakenGrows ==
    ASSUME TypeInv, TypeInv', NEW s \in Sessions,
           builder[s].stage > 0, ~TaskEnded(s), NEW h,
           builder'[s] = IF builder[s].count + 1 = Stages(s)[builder[s].stage]
                         THEN [builder[s] EXCEPT !.stage = @ + 1, !.count = 0, !.last = h]
                         ELSE [builder[s] EXCEPT !.count = @ + 1, !.last = h]
    PROVE  /\ Taken(s)' = Taken(s) + 1 /\ builder'[s].sid = builder[s].sid
           /\ builder'[s].stage > 0 /\ builder'[s].stage <= Len(Stages(s)) + 1
<1> DEFINE b == builder[s]
           c == builder'[s]
           n == Stages(s)[b.stage]
<1>1. /\ b \in [sid : Sessions \cup {NoSession}, stage : 0 .. 4, count : Nat, last : 0 .. NBatches]
      /\ b.stage \in 0 .. 4 /\ b.count \in Nat
  BY DEF TypeInv, TypeOK, EngineTypeOK
<1>2. /\ b.count + 1 = n => c.stage = b.stage + 1 /\ c.count = 0
      /\ b.count + 1 # n => c.stage = b.stage /\ c.count = b.count + 1
      /\ c.sid = b.sid
  BY <1>1
<1>3. b.stage > 0 /\ ~(b.stage > Len(Stages(s)))
  BY DEF TaskEnded
<1>4. /\ Task[s] = "inference" => /\ Stages(s) = <<NBatches>> /\ Len(Stages(s)) = 1
                                  /\ c.stage = 1 => Taken(s)' = c.count
                                  /\ c.stage = 2 => Taken(s)' = NBatches + c.count
      /\ Task[s] = "train" => /\ Stages(s) = <<NTrain, NEval, NTest>> /\ Len(Stages(s)) = 3
                              /\ c.stage = 1 => Taken(s)' = c.count
                              /\ c.stage = 2 => Taken(s)' = NTrain + c.count
                              /\ c.stage = 3 => Taken(s)' = NTrain + NEval + c.count
      /\ c.stage \notin {1, 2, 3} => Taken(s)' = NBatches
  <2>1. /\ Task[s] = "inference" => Stages(s) = <<NBatches>> /\ Len(Stages(s)) = 1
        /\ Task[s] = "train" => Stages(s) = <<NTrain, NEval, NTest>> /\ Len(Stages(s)) = 3
    BY TakenIs
  <2>2. /\ c.stage = 1 => Taken(s)' = c.count
        /\ c.stage = 2 => Taken(s)' = Stages(s)[1] + c.count
        /\ c.stage = 3 => Taken(s)' = Stages(s)[1] + Stages(s)[2] + c.count
        /\ c.stage \notin {1, 2, 3} => Taken(s)' = NBatches
    BY DEF Taken, Stages
  <2>3. /\ Task[s] = "inference" => Stages(s)[1] = NBatches
        /\ Task[s] = "train" => Stages(s)[1] = NTrain /\ Stages(s)[2] = NEval
    BY <2>1
  <2> QED  BY <2>1, <2>2, <2>3
<1>5. CASE Task[s] = "inference"
  <2>1. Len(Stages(s)) = 1 /\ b.stage = 1 /\ n = NBatches /\ Taken(s) = b.count
    <3>1. Stages(s) = <<NBatches>> /\ Len(Stages(s)) = 1
      BY <1>5, TakenIs
    <3>2. b.stage = 1
      BY <1>1, <1>3, <3>1
    <3> QED  BY <1>5, <3>1, <3>2, TakenIs
  <2> HIDE DEF b, c, n
  <2>2. CASE b.count + 1 = n
    <3>1. c.stage = 2 /\ c.count = 0
      BY <1>2, <2>1, <2>2
    <3>2. Taken(s)' = NBatches + 0
      BY <1>4, <1>5, <3>1
    <3> QED  BY <1>1, <1>2, <2>1, <2>2, <3>1, <3>2, StageSizes DEF b, c
  <2>3. CASE b.count + 1 # n
    <3>1. c.stage = 1 /\ c.count = b.count + 1
      BY <1>2, <2>1, <2>3
    <3> QED  BY <1>2, <1>4, <1>5, <2>1, <3>1 DEF b, c
  <2> QED  BY <2>2, <2>3
<1>6. CASE Task[s] = "train"
  <2>1. Len(Stages(s)) = 3 /\ b.stage \in {1, 2, 3}
    BY <1>1, <1>3, <1>6, TakenIs
  <2>2. /\ b.stage = 1 => n = NTrain /\ Taken(s) = b.count
        /\ b.stage = 2 => n = NEval /\ Taken(s) = NTrain + b.count
        /\ b.stage = 3 => n = NTest /\ Taken(s) = NTrain + NEval + b.count
    <3>1. Stages(s)[1] = NTrain /\ Stages(s)[2] = NEval /\ Stages(s)[3] = NTest
      BY <1>6, TakenIs
    <3> QED  BY <1>6, <3>1, TakenIs
  <2> HIDE DEF b, c, n
  <2>3. CASE b.count + 1 = n
    <3>1. c.stage = b.stage + 1 /\ c.count = 0
      BY <1>2, <2>3
    <3>2. CASE b.stage = 1
      BY <1>1, <1>4, <1>6, <2>2, <2>3, <3>1, <3>2, <2>1, <1>2, StageSizes DEF b, c
    <3>3. CASE b.stage = 2
      BY <1>1, <1>4, <1>6, <2>2, <2>3, <3>1, <3>3, <2>1, <1>2, StageSizes DEF b, c
    <3>4. CASE b.stage = 3
      <4>1. c.stage = 4 /\ Taken(s)' = NBatches
        BY <1>4, <3>1, <3>4
      <4>2. Taken(s) + 1 = NBatches
        BY <1>1, <2>2, <2>3, <3>4, StageSizes
      <4> QED  BY <1>2, <2>1, <4>1, <4>2 DEF b, c
    <3> QED  BY <2>1, <3>2, <3>3, <3>4
  <2>4. CASE b.count + 1 # n
    <3>1. c.stage = b.stage /\ c.count = b.count + 1
      BY <1>2, <2>4
    <3>2. Taken(s)' = Taken(s) + 1
      BY <1>1, <1>4, <1>6, <2>1, <2>2, <3>1, StageSizes
    <3> QED  BY <1>2, <2>1, <3>1, <3>2 DEF b, c
  <2> QED  BY <2>3, <2>4
<1> QED  BY <1>5, <1>6, TakenIs

LEMMA TakeBatchKeepsPhases ==
    ASSUME TypeInv, PhaseInv, NEW s \in Sessions, TakeBatch(s), UNCHANGED clientVars
    PROVE  PhaseInv'
<1>0. TypeInv'
  BY TakeBatchKeepsTypes
<1>1. /\ builder[s].stage > 0 /\ ~TaskEnded(s)
      /\ UNCHANGED <<sender, active, current, queues, receiver, clients, bound, added, full,
                     dispatcher, requested, failed, up, down>>
      /\ EngineTypeOK
  BY DEF TakeBatch, senderVars, wireVars, TypeInv, TypeOK
<1>2. Working(s) /\ Streaming(s) /\ s \in Running /\ builder[s].sid = s
  BY <1>1, BuilderStreams DEF Working, Serving
<1>3. /\ cache[s] # <<>> /\ cache' = [cache EXCEPT ![s] = Tail(cache[s])]
      /\ builder' = [builder EXCEPT ![s] =
             IF builder[s].count + 1 = Stages(s)[builder[s].stage]
             THEN [builder[s] EXCEPT !.stage = @ + 1, !.count = 0, !.last = Head(cache[s])]
             ELSE [builder[s] EXCEPT !.count = @ + 1, !.last = Head(cache[s])]]
  BY <1>2 DEF TakeBatch
<1> DEFINE next == IF builder[s].count + 1 = Stages(s)[builder[s].stage]
                   THEN [builder[s] EXCEPT !.stage = @ + 1, !.count = 0, !.last = Head(cache[s])]
                   ELSE [builder[s] EXCEPT !.count = @ + 1, !.last = Head(cache[s])]
<1>4. builder' = [builder EXCEPT ![s] = next]
  BY <1>3
<1> HIDE DEF next
<1>5. /\ cache'[s] = Tail(cache[s]) /\ builder'[s] = next
      /\ \A t \in Sessions : t # s => cache'[t] = cache[t] /\ builder'[t] = builder[t]
  BY <1>1, <1>3, <1>4 DEF EngineTypeOK
<1>6. \A t \in Sessions : t # s => Same(t)
  BY <1>1, <1>5, BackendStill DEF Same, SameLine, SameConnection, SameTask
<1>7. /\ Taken(s)' = Taken(s) + 1 /\ builder'[s].sid = s
      /\ builder'[s].stage > 0 /\ builder'[s].stage <= Len(Stages(s)) + 1
  BY <1>0, <1>1, <1>2, <1>5, TakenGrows DEF next
<1>8. Serving(s)'
  <2> DEFINE l == Len(cache[s])
             k == Taken(s)
  <2>1. cache[s] \in Seq(1 .. NBatches)
    BY <1>1 DEF EngineTypeOK
  <2>2. l \in Nat \ {0} /\ Len(cache'[s]) = l - 1
    BY <1>3, <1>5, <2>1, HeadTailProperties, EmptySeq
  <2>3. k \in Int /\ added[s] = l + k /\ Taken(s)' = k + 1
    BY <1>2, <1>7, TakenTyped DEF Working, Serving
  <2> HIDE DEF l, k
  <2>4. l + k = (l - 1) + (k + 1)
    BY <2>2, <2>3
  <2>5. added'[s] = Len(cache'[s]) + Taken(s)'
    BY <1>1, <2>2, <2>3, <2>4
  <2> QED  BY <1>1, <1>2, <1>7, <2>5 DEF Working, Serving, Served
<1>9. Streaming(s)'
  <2>1. Queued(s)' = Queued(s)
    BY <1>1 DEF Queued
  <2>2. \A u, q, d : Wire(s, u, q, d)' <=> Wire(s, u, q, d)
    BY <1>1, <2>1 DEF Wire
  <2>3. NothingUnderWay(s) => NothingUnderWay(s)'
    BY <1>1, <2>1, BackendStill, Zenon DEF NothingUnderWay, Wire
  <2>4. RequestUnderWay(s) => RequestUnderWay(s)'
    BY <1>1, <2>2, BackendStill, Zenon DEF RequestUnderWay, Silent
  <2>5. BatchUnderWay(s) => BatchUnderWay(s)'
    BY <1>1, <2>1, BackendStill, Zenon DEF BatchUnderWay, Wire, BatchEvent
  <2> QED  BY <1>2, <1>7, <2>3, <2>4, <2>5, BackendStill DEF Streaming
<1>10. Working(s)'
  BY <1>2, <1>8, <1>9, BackendStill DEF Working
<1>11. NewQueuesEmpty'
  BY <1>1, QueuesStill DEF PhaseInv
<1> QED  BY <1>2, <1>6, <1>10, <1>11, LocalStep DEF Phase

LEMMA SendResultKeepsPhases ==
    ASSUME TypeInv, FlowInv, PhaseInv, NEW s \in Sessions, SendResult(s), UNCHANGED clientVars
    PROVE  PhaseInv'
<1>1. /\ TaskEnded(s) /\ Send(Event("result", builder[s].sid))
      /\ builder' = [builder EXCEPT ![s].stage = 0]
      /\ UNCHANGED <<sender, active, current, receiver, clients, bound, cache, added, full,
                     dispatcher, requested, up, down>>
      /\ EngineTypeOK /\ ClientTypeOK
  BY DEF SendResult, dispatcherVars, wireVars, TypeInv, TypeOK
<1>2. builder[s].stage \in 0 .. 4 /\ builder[s].count \in Nat
  BY <1>1 DEF EngineTypeOK
<1>3. Working(s) /\ Streaming(s) /\ s \in Running /\ builder[s].sid = s
  <2>1. \A m, n : m \in 0 .. 4 /\ m > n /\ n \in 1 .. 3 => m > 0
    OBVIOUS
  <2>2. builder[s].stage > 0
    BY <1>1, <1>2, <2>1, StagesTyped, Zenon DEF TaskEnded
  <2> QED  BY <2>2, BuilderStreams DEF Working, Serving
<1>4. /\ builder'[s].sid = builder[s].sid /\ builder'[s].stage = 0
      /\ \A t \in Sessions : t # s => builder'[t] = builder[t]
  BY <1>1 DEF EngineTypeOK
<1>5. \A t \in Sessions : t # s => Same(t)
  BY <1>1, <1>4, BackendStill DEF Same, SameLine, SameConnection, SameTask
\* All the batches have been taken.
<1>6. \E j \in Nat : Taken(s) = NBatches + j
  <2> DEFINE b == builder[s]
  <2>1. CASE Task[s] = "inference"
    <3>1. Len(Stages(s)) = 1
      BY <2>1, TakenIs
    <3>2. b.stage = 2
      BY <1>1, <1>2, <1>3, <3>1 DEF TaskEnded, Working, Serving
    <3> QED  BY <1>2, <2>1, <3>2, TakenIs
  <2>2. CASE Task[s] = "train"
    <3>1. Len(Stages(s)) = 3
      BY <2>2, TakenIs
    <3>2. b.stage \notin {1, 2, 3}
      BY <1>1, <1>2, <3>1 DEF TaskEnded
    <3>3. Taken(s) = NBatches + 0
      BY <3>2, TakenIs, StageSizes
    <3> QED  BY <3>3
  <2> QED  BY <2>1, <2>2, TakenIs
\* None is left, and none is under way.
<1>7. /\ added[s] = NBatches /\ Len(cache[s]) = 0 /\ requested[s] = NBatches
      /\ NothingUnderWay(s) /\ ~Unacked(s)
  <2> DEFINE l == Len(queue[s])
             m == Len(cache[s])
             a == added[s]
             r == requested[s]
             f == fed[s]
  <2>1. PICK j \in Nat : Taken(s) = NBatches + j
    BY <1>6
  <2>2. /\ l \in Nat /\ m \in Nat /\ a \in Nat /\ r \in Nat /\ f \in 0 .. NBatches
    BY <1>1, LenProperties DEF ClientTypeOK, EngineTypeOK
  <2>3. a = m + (NBatches + j) /\ r <= NBatches
    BY <1>3, <2>1 DEF Working, Serving, FlowInv, DispatcherInv
  <2>4. /\ NothingUnderWay(s) => r = a /\ f = l + a
        /\ RequestUnderWay(s) => r = a + 1 /\ f = l + a
        /\ BatchUnderWay(s) => r = a + 1 /\ f = l + a + 1
    BY Zenon DEF NothingUnderWay, RequestUnderWay, BatchUnderWay
  <2>5. main[s] = "task" => f = 0
    BY <1>3 DEF Working, Attending
  <2> HIDE DEF l, m, a, r, f
  <2>6. a >= NBatches /\ NBatches \in Nat \ {0}
    BY <2>2, <2>3, StageSizes
  <2>7. NothingUnderWay(s)
    <3>1. r # a + 1
      BY <2>2, <2>3, <2>6
    <3> QED  BY <1>3, <2>4, <3>1 DEF Streaming
  <2>8. r = a /\ f = l + a
    BY <2>4, <2>7
  <2>9. a = NBatches /\ m = 0
    BY <2>2, <2>3, <2>6, <2>8
  <2>10. main[s] # "task"
    BY <2>2, <2>5, <2>6, <2>8, <2>9
  <2>11. ~Unacked(s)
    BY <1>3, <2>10 DEF Working, Attending
  <2> QED  BY <2>7, <2>8, <2>9, <2>11 DEF l, m, a, r, f
<1>8. /\ up[s] = <<>> /\ Queued(s) = <<>> /\ down[s] = <<>> /\ thread[s] = "service"
      /\ Served(s) /\ NewQueuesEmpty
  BY <1>3, <1>7 DEF NothingUnderWay, Wire, AckTask, Working, Serving, PhaseInv
<1>9. Queued(s)' = <<Event("result", s)>> /\ NewQueuesEmpty'
  BY <1>1, <1>3, <1>8, MessageSent
<1>10. Completing(s)'
  BY <1>1, <1>3, <1>4, <1>7, <1>8, <1>9, BackendStill DEF Completing, Streaming, Wire, Event
<1>11. Serving(s)'
  <2>1. Taken(s)' = NBatches
    BY <1>4 DEF Taken
  <2>2. added'[s] = Len(cache'[s]) + Taken(s)'
    BY <1>1, <1>7, <2>1, StageSizes
  <2>3. 0 <= Len(Stages(s)) + 1
    <3>1. \A n \in 1 .. 3 : 0 <= n + 1
      OBVIOUS
    <3> QED  BY <3>1, StagesTyped, Zenon
  <2> QED  BY <1>1, <1>3, <1>4, <2>2, <2>3 DEF Working, Serving, Served
<1>12. Working(s)'
  BY <1>3, <1>10, <1>11, BackendStill DEF Working
<1> QED  BY <1>3, <1>5, <1>9, <1>12, LocalStep DEF Phase

\* A dispatcher that asks for a batch is that of a session that streams, and no
\* other request or batch of the session is under way.
LEMMA RequestKeepsPhases ==
    ASSUME TypeInv, FlowInv, PhaseInv, NEW s \in Sessions, FirstRequest(s) \/ NextRequest(s),
           UNCHANGED clientVars
    PROVE  PhaseInv'
<1>1. PICK next \in {"check", "clear"} :
        /\ dispatcher[s] \in {"start", "wait"}
        /\ EmitRequest(s, next)
  BY DEF FirstRequest, NextRequest
<1>2. /\ Send(Event("request_data", s))
      /\ requested' = [requested EXCEPT ![s] = requested[s] + 1]
      /\ dispatcher' = [dispatcher EXCEPT ![s] = next]
      /\ UNCHANGED <<sender, active, current, receiver, clients, bound, cache, added, full,
                     builder, up, down>>
      /\ EngineTypeOK
  BY <1>1 DEF EmitRequest, taskVars, wireVars, TypeInv, TypeOK
<1>3. /\ requested'[s] = requested[s] + 1
      /\ \A t \in Sessions : t # s => /\ requested'[t] = requested[t]
                                      /\ dispatcher'[t] = dispatcher[t]
  BY <1>2 DEF EngineTypeOK
<1>4. \A t \in Sessions : t # s => Same(t)
  BY <1>2, <1>3, BackendStill DEF Same, SameLine, SameConnection, SameTask
<1>5. /\ requested[s] \in Nat /\ added[s] \in Nat
      /\ requested[s] # NBatches /\ requested[s] # added[s] + 1
  <2>1. requested[s] \in Nat /\ added[s] \in Nat /\ DispatcherInv(s)
    BY <1>2 DEF EngineTypeOK, FlowInv
  <2>2. CASE FirstRequest(s)
    BY <2>1, <2>2, StageSizes DEF FirstRequest, DispatcherInv
  <2>3. CASE NextRequest(s)
    BY <2>1, <2>3, StageSizes DEF NextRequest, DispatcherInv
  <2> QED  BY <2>2, <2>3
<1>6. Working(s) /\ Streaming(s) /\ NothingUnderWay(s)
  <2>1. ~Idle(s) /\ ~Connecting(s) /\ ~Setting(s) /\ ~Starting(s)
    BY <1>1 DEF Idle, Connecting, Setting, Starting, Fresh
  <2>2. ~Closing(s) /\ ~Done(s) /\ ~Completing(s)
    BY <1>5 DEF Closing, Done, Completing
  <2>3. ~RequestUnderWay(s) /\ ~BatchUnderWay(s)
    BY <1>5, Zenon DEF RequestUnderWay, BatchUnderWay
  <2> QED  BY <2>1, <2>2, <2>3 DEF PhaseInv, Phase, Working, Streaming
<1>7. /\ up[s] = <<>> /\ Queued(s) = <<>> /\ down[s] = AckTask(s) /\ thread[s] = "service"
      /\ Served(s) /\ NewQueuesEmpty
  BY <1>6 DEF NothingUnderWay, Wire, Working, Serving, PhaseInv
<1>8. Queued(s)' = <<Event("request_data", s)>> /\ NewQueuesEmpty'
  BY <1>2, <1>7, MessageSent
<1>9. requested'[s] = added'[s] + 1 /\ fed'[s] = Len(queue'[s]) + added'[s]
  <2>1. requested[s] = added[s] /\ fed[s] = Len(queue[s]) + added[s]
    BY <1>6, Zenon DEF NothingUnderWay
  <2> QED  BY <1>2, <1>3, <2>1, BackendStill, Zenon
<1>10. RequestUnderWay(s)'
  <2>1. Wire(s, <<>>, <<Event("request_data", s)>>, AckTask(s))'
    BY <1>2, <1>7, <1>8, BackendStill DEF Wire, Event
  <2>2. thread'[s] = "service"
    BY <1>7, BackendStill
  <2> QED  BY <1>9, <2>1, <2>2 DEF RequestUnderWay
<1>11. Streaming(s)'
  BY <1>2, <1>6, <1>10, BackendStill DEF Streaming
<1>12. Serving(s)'
  <2>1. Taken(s)' = Taken(s)
    BY <1>2 DEF Taken
  <2> QED  BY <1>2, <1>6, <2>1 DEF Working, Serving, Served
<1>13. Working(s)'
  BY <1>6, <1>11, <1>12, BackendStill DEF Working
<1>14. s \in Running
  BY <1>6, RunningIs DEF Working, Attending
<1> QED  BY <1>4, <1>8, <1>13, <1>14, LocalStep DEF Phase

\* A step that changes the place and the event of a dispatcher only.
LEMMA QuietStep ==
    ASSUME PhaseInv, UNCHANGED clientVars,
           UNCHANGED <<sender, active, current, queues, receiver, clients, bound, cache, added,
                       requested, builder, up, down>>,
           \A t \in Sessions : dispatcher[t] = "off" => dispatcher'[t] = "off"
    PROVE  PhaseInv'
<1>1. OneRuns' /\ NewQueuesEmpty'
  BY BackendStill, QueuesStill DEF PhaseInv, OneRuns, Running
<1>2. ASSUME NEW t \in Sessions
      PROVE  Phase(t)'
  <2>1. /\ Queued(t)' = Queued(t) /\ (Served(t)' <=> Served(t)) /\ Taken(t)' = Taken(t)
    BY DEF Queued, Served, Taken
  <2>2. \A u, q, d : Wire(t, u, q, d)' <=> Wire(t, u, q, d)
    BY <2>1 DEF Wire
  <2>3. (Silent(t)' <=> Silent(t)) /\ (Fresh(t) => Fresh(t)')
    BY <2>1, BackendStill DEF Silent, Wire, Fresh, NoTask, TaskAt
  <2>4. Idle(t) => Idle(t)'
    BY <2>3, BackendStill DEF Idle
  <2>5. Connecting(t) => Connecting(t)'
    BY <2>1, <2>3, BackendStill DEF Connecting
  <2>6. Setting(t) => Setting(t)'
    BY <2>1, <2>3, BackendStill
       DEF Setting, SetupSent, SetupAnswered, SetupDone, Wire, Event
  <2>7. Starting(t) => Starting(t)'
    BY <2>1, <2>3, BackendStill DEF Starting, Wire, Event
  <2>8. Working(t) => Working(t)'
    <3>1. NothingUnderWay(t) => NothingUnderWay(t)'
      BY <2>1, BackendStill, Zenon DEF NothingUnderWay, Wire
    <3>2. RequestUnderWay(t) => RequestUnderWay(t)'
      BY <2>2, <2>3, BackendStill, Zenon DEF RequestUnderWay
    <3>3. BatchUnderWay(t) => BatchUnderWay(t)'
      BY <2>1, BackendStill, Zenon DEF BatchUnderWay, Wire, BatchEvent
    <3>4. Streaming(t) => Streaming(t)'
      BY <3>1, <3>2, <3>3, BackendStill DEF Streaming
    <3>5. Completing(t) => Completing(t)'
      BY <2>1, <2>3, BackendStill DEF Completing, Wire, Event
    <3>6. Serving(t) => Serving(t)'
      BY <2>1 DEF Serving
    <3> QED  BY <3>4, <3>5, <3>6, BackendStill DEF Working
  <2>9. DisconnectDone(t) => DisconnectDone(t)'
    BY <2>3, BackendStill DEF DisconnectDone
  <2>10. Closing(t) => Closing(t)'
    BY <2>1, <2>9, BackendStill DEF Closing, DisconnectSent, DisconnectAnswered, Wire, Event
  <2>11. Done(t) => Done(t)'
    BY <2>9, BackendStill DEF Done
  <2> QED  BY <2>4, <2>5, <2>6, <2>7, <2>8, <2>10, <2>11 DEF PhaseInv, Phase
<1> QED  BY <1>1, <1>2 DEF PhaseInv

LEMMA DispatcherKeepsPhases ==
    ASSUME TypeInv, FlowInv, PhaseInv, NEW s \in Sessions, DispatcherThread(s) \/ WaitTimeout(s),
           UNCHANGED clientVars
    PROVE  PhaseInv'
<1>1. CASE FirstRequest(s) \/ NextRequest(s)
  BY <1>1, RequestKeepsPhases
<1>2. CASE CheckStop(s) \/ ClearEvent(s) \/ WaitTimeout(s)
  <2>1. UNCHANGED <<sender, active, current, queues, receiver, clients, bound, cache, added,
                    requested, builder, up, down>>
    BY <1>2 DEF CheckStop, ClearEvent, WaitTimeout, senderVars, taskVars, wireVars
  <2>2. \A t \in Sessions : dispatcher[t] = "off" => dispatcher'[t] = "off"
    <3>1. /\ dispatcher \in [Sessions -> {"off", "start", "check", "wait", "clear", "stopped"}]
          /\ dispatcher[s] # "off"
      BY <1>2 DEF CheckStop, ClearEvent, WaitTimeout, TypeInv, TypeOK, EngineTypeOK
    <3> QED  BY <1>2, <3>1 DEF CheckStop, ClearEvent, WaitTimeout
  <2> QED  BY <2>1, <2>2, QuietStep
<1> QED  BY <1>1, <1>2 DEF DispatcherThread

-----------------------------------------------------------------------------

LEMMA InitHasPhases == Init => PhaseInv
<1> SUFFICES ASSUME Init PROVE PhaseInv
  OBVIOUS
<1> USE DEF Init, WireInit, ClientInit, EngineInit
<1>1. OneRuns
  BY DEF OneRuns, Running
<1>2. NewQueuesEmpty
  BY DEF NewQueuesEmpty
<1>3. ASSUME NEW s \in Sessions
      PROVE  Phase(s)
  <2>1. Silent(s)
    BY DEF Silent, Wire, Queued
  <2>2. Fresh(s)
    BY DEF Fresh
  <2> QED  BY <2>1, <2>2 DEF Phase, Idle
<1> QED  BY <1>1, <1>2, <1>3 DEF PhaseInv

LEMMA NextKeepsPhases ==
    ASSUME MaxOpen <= 1, TypeInv, FlowInv, HealthInv, [Next]_vars
    PROVE  HealthInv'
<1> SUFFICES ASSUME Healthy' PROVE PhaseInv'
  BY DEF HealthInv
<1>1. CASE UNCHANGED vars
  <2>1. PhaseInv
    BY <1>1 DEF HealthInv, Healthy, vars, engineVars, taskVars
  <2>2. /\ UNCHANGED clientVars
        /\ UNCHANGED <<sender, active, current, queues, receiver, clients, bound, cache, added,
                       dispatcher, requested, builder, up, down>>
    BY <1>1 DEF vars, engineVars, senderVars, dispatcherVars, taskVars, wireVars
  <2> QED  BY <2>1, <2>2, QuietStep
<1>2. CASE Next
  <2> SUFFICES ASSUME NEW s \in Sessions,
                   \/ Open(s) /\ UNCHANGED engineVars
                   \/ (MainThread(s, Connected(s)) \/ WebsocketThread(s)) /\ UNCHANGED engineVars
                   \/ main[s] = "connect" /\ Accept(s) /\ UNCHANGED clientVars
                   \/ EventLoop(s) /\ UNCHANGED clientVars
                   \/ DispatcherThread(s) /\ UNCHANGED clientVars
                   \/ (WaitTimeout(s) \/ TaskFails(s)) /\ UNCHANGED clientVars
               PROVE  PhaseInv'
    BY <1>2 DEF Next
  \* Nothing but a failure changes failed.
  <2>1. ASSUME failed' = failed PROVE PhaseInv
    BY <2>1 DEF HealthInv, Healthy
  <2>2. ASSUME UNCHANGED engineVars PROVE PhaseInv
    BY <2>1, <2>2 DEF engineVars, taskVars
  <2>3. CASE Open(s) /\ UNCHANGED engineVars
    BY <2>2, <2>3, OpenKeepsPhases
  <2>4. CASE MainThread(s, Connected(s)) /\ UNCHANGED engineVars
    <3>1. CASE FeedBatch(s)
      <4>1. TypeInv'
        BY <2>4, MainKeepsTypes
      <4> QED  BY <2>2, <2>4, <3>1, <4>1, FeedKeepsPhases
    <3> QED  BY <2>2, <2>4, <3>1, SendSetupKeepsPhases, SendTaskKeepsPhases,
                AcknowledgedKeepsPhases, DisconnectKeepsPhases, JoinKeepsPhases DEF MainThread
  <2>5. CASE WebsocketThread(s) /\ UNCHANGED engineVars
    BY <2>2, <2>5, HandleEventKeepsPhases, DequeueKeepsPhases DEF WebsocketThread
  <2>6. CASE main[s] = "connect" /\ Accept(s) /\ UNCHANGED clientVars
    BY <2>1, <2>6, AcceptKeepsPhases DEF Accept, taskVars
  <2>7. CASE EventLoop(s) /\ UNCHANGED clientVars
    <3>1. CASE SendQueued(s)
      BY <2>1, <2>7, <3>1, SendQueuedKeepsPhases DEF SendQueued, taskVars
    <3>2. CASE Receive(s)
      <4>1. failed' = failed
        BY <3>2 DEF Receive, OnSetup, OnTask, OnBatchData, OnDisconnect, taskVars
      <4> QED  BY <2>1, <2>7, <3>2, <4>1, ReceiveKeepsPhases
    <3>3. CASE TakeBatch(s)
      BY <2>1, <2>7, <3>3, TakeBatchKeepsPhases DEF TakeBatch
    <3>4. CASE SendResult(s)
      BY <2>1, <2>7, <3>4, SendResultKeepsPhases DEF SendResult
    <3> QED  BY <2>7, <3>1, <3>2, <3>3, <3>4 DEF EventLoop
  <2>8. CASE (DispatcherThread(s) \/ WaitTimeout(s)) /\ UNCHANGED clientVars
    <3>1. failed' = failed
      BY <2>8 DEF DispatcherThread, FirstRequest, NextRequest, EmitRequest, CheckStop, ClearEvent,
                  WaitTimeout, taskVars
    <3> QED  BY <2>1, <2>8, <3>1, DispatcherKeepsPhases
  <2>9. CASE TaskFails(s) /\ UNCHANGED clientVars
    <3>1. s \in failed'
      BY <2>9 DEF TaskFails
    <3> QED  BY <3>1 DEF Healthy
  <2> QED  BY <2>3, <2>4, <2>5, <2>6, <2>7, <2>8, <2>9
<1> QED  BY <1>1, <1>2

\* When tasks run one at a time, every session that no failure has touched is in
\* one of its phases: at most one message of it is under way (with, at the start,
\* the acknowledgement before the first request), it concerns the session itself,
\* and it stands in the place the phase says.
THEOREM HealthyPhases == MaxOpen <= 1 => (Spec => []HealthInv)
<1> SUFFICES ASSUME MaxOpen <= 1 PROVE Spec => []HealthInv
  OBVIOUS
<1>1. Init => TypeInv /\ FlowInv /\ HealthInv
  BY InitHasTypes, InitHasFlow, InitHasPhases DEF HealthInv
<1>2. TypeInv /\ FlowInv /\ HealthInv /\ [Next]_vars => (TypeInv /\ FlowInv /\ HealthInv)'
  BY NextKeepsTypes, NextKeepsFlow, NextKeepsPhases
<1> QED  BY <1>1, <1>2, PTL DEF Spec

\* The messages to a backend, in any phase.
LEMMA PhaseDown ==
    ASSUME NEW s \in Sessions, Phase(s)
    PROVE  \/ down[s] = <<>>
           \/ \E name : down[s] = <<Event(name, s)>>
           \/ down[s] = <<Event("ack_task", s), Event("request_data", s)>>
<1>1. CASE Idle(s) \/ Connecting(s) \/ Setting(s) \/ Starting(s)
  BY <1>1 DEF Idle, Connecting, Setting, Starting, SetupSent, SetupAnswered, SetupDone, Silent, Wire
<1>2. CASE Working(s)
  <2>1. AckTask(s) = <<>> \/ AckTask(s) = <<Event("ack_task", s)>>
    BY DEF AckTask
  <2>2. \/ Append(AckTask(s), Event("request_data", s)) = <<Event("request_data", s)>>
        \/ Append(AckTask(s), Event("request_data", s))
               = <<Event("ack_task", s), Event("request_data", s)>>
    BY <2>1, ShortSeqs
  <2>3. CASE Streaming(s)
    BY <2>1, <2>2, <2>3
       DEF Streaming, NothingUnderWay, RequestUnderWay, BatchUnderWay, Silent, Wire
  <2>4. CASE Completing(s)
    BY <2>4 DEF Completing, Silent, Wire
  <2> QED  BY <1>2, <2>3, <2>4 DEF Working
<1>3. CASE Closing(s) \/ Done(s)
  BY <1>3 DEF Closing, Done, DisconnectSent, DisconnectAnswered, DisconnectDone, Silent, Wire
<1> QED  BY <1>1, <1>2, <1>3 DEF Phase

\* With tasks one at a time, no event about another session reaches a backend
\* before a task has failed: neither through the message queue that all senders
\* share, nor from a dispatcher that on_disconnect has left running.
THEOREM HealthyEventsAreOwn == MaxOpen <= 1 => (Spec => []HealthyOwnEvents)
<1> SUFFICES ASSUME MaxOpen <= 1 PROVE Spec => []HealthyOwnEvents
  OBVIOUS
<1>1. HealthInv => HealthyOwnEvents
  <2> SUFFICES ASSUME PhaseInv, NEW s \in Sessions, NEW i \in DOMAIN down[s]
               PROVE  down[s][i].sid = s
    BY DEF HealthInv, HealthyOwnEvents, OwnEvents
  <2>1. CASE down[s] = <<>>
    BY <2>1
  <2>2. ASSUME NEW name, down[s] = <<Event(name, s)>>
        PROVE  down[s][i].sid = s
    <3> DEFINE e == Event(name, s)
    <3>1. down[s] = <<e>> /\ e.sid = s
      BY <2>2, EventFields
    <3> HIDE DEF e
    <3> QED  BY <3>1
  <2>3. CASE down[s] = <<Event("ack_task", s), Event("request_data", s)>>
    <3> DEFINE e == Event("ack_task", s)
               f == Event("request_data", s)
    <3>1. down[s] = <<e, f>> /\ e.sid = s /\ f.sid = s
      BY <2>3, EventFields
    <3> HIDE DEF e, f
    <3> QED  BY <3>1
  <2> QED  BY <2>1, <2>2, <2>3, PhaseDown DEF PhaseInv
<1> QED  BY <1>1, HealthyPhases, PTL

\* With tasks one at a time and a table that holds the batches of the task, the
\* websocket thread never waits for a batch that does not come, as long as no task
\* has failed: the request it holds is for a batch that is in the queue or that the
\* main thread is about to put there, and that thread is past every wait of its own.
THEOREM WaitedBatchComes ==
    MaxOpen <= 1 /\ NBatches <= TableBatches => (Spec => []BatchComes)
<1> SUFFICES ASSUME MaxOpen <= 1, NBatches <= TableBatches PROVE Spec => []BatchComes
  OBVIOUS
<1>1. TypeInv /\ FlowInv /\ HealthInv => BatchComes
  <2> SUFFICES ASSUME TypeInv, FlowInv, PhaseInv, NEW s \in Sessions, thread[s] = "dequeue"
               PROVE  /\ main[s] = "feed" \/ (main[s] = "task" /\ "task_acknowledged" \in flags[s])
                      /\ queue[s] # <<>> \/ fed[s] < FetchLimit
    BY DEF HealthInv, BatchComes
  <2>1. Working(s) /\ RequestUnderWay(s) /\ ~Unacked(s)
    <3>1. Working(s)
      BY DEF PhaseInv, Phase, Idle, Connecting, Setting, Starting, Closing, Done,
             DisconnectSent, DisconnectAnswered, DisconnectDone
    <3> QED  BY <3>1
        DEF Working, Streaming, Completing, NothingUnderWay, RequestUnderWay, BatchUnderWay
  <2>2. main[s] = "feed" \/ (main[s] = "task" /\ "task_acknowledged" \in flags[s])
    BY <2>1 DEF Working, Attending
  <2>3. ASSUME queue[s] = <<>> PROVE fed[s] < FetchLimit
    <3>1. /\ fed[s] = Len(queue[s]) + added[s] /\ requested[s] = added[s] + 1
          /\ requested[s] <= NBatches
      BY <2>1, Zenon DEF RequestUnderWay, FlowInv, DispatcherInv
    <3>2. Len(queue[s]) = 0 /\ added[s] \in Nat
      BY <2>3 DEF FlowInv, DispatcherType
    <3>3. fed[s] = added[s] /\ added[s] < NBatches
      BY <3>1, <3>2, StageSizes
    <3> QED  BY <3>3, ClientAssumption DEF FetchLimit
  <2> QED  BY <2>2, <2>3
<1>2. Spec => [](TypeInv /\ FlowInv /\ HealthInv)
  <2>1. Spec => []FlowInv
    BY InitHasFlow, NextKeepsFlow, PTL DEF Spec
  <2> QED  BY <2>1, SessionInvariant, HealthyPhases, PTL
<1> QED  BY <1>1, <1>2, PTL
=============================================================================
