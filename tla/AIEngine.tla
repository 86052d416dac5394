------------------------------ MODULE AIEngine ------------------------------
(***************************************************************************)
(* The AI engine's side of the tasks (aiengine/runtime): one asyncio event *)
(* loop, in which every connection has a loop that receives events and a   *)
(* sender task, and every task a model builder that consumes batches from  *)
(* the session's data cache; and, for every task, a dispatcher thread that *)
(* asks the backend for the next batch.                                    *)
(*                                                                         *)
(* The message queue and the flag of WebsocketSender belong to the class:  *)
(* all connections share them.  A coroutine scheduled on the event loop is *)
(* taken to run at the moment it is scheduled; the delays that matter (of  *)
(* a thread, of a sender, on the wire) are steps of their own.             *)
(***************************************************************************)
EXTENDS TaskWire, FiniteSets

CONSTANTS
    CacheSize,      \* cacheSize of the task (80 in the code)
    Failures        \* what may go wrong: "task", "timeout"

ASSUME EngineAssumption ==
    /\ CacheSize \in Nat \ {0} /\ Failures \subseteq {"task", "timeout"}
    /\ IsFiniteSet(Sessions)

VARIABLES
    receiver,       \* the receive loop of each connection (handle_ws)
    sender,         \* the queue that each connection's sender task waits for
    active,         \* WebsocketSender.active
    current,        \* WebsocketSender.message_queue
    queues,         \* all the message queues there have been
    clients,        \* the sessions set up
    bound,          \* the sessions that have a data cache and a dispatcher
    cache,          \* the batches in each session's data cache
    added,          \* current_batch_num of the cache
    full,           \* full_event of the dispatcher
    dispatcher,     \* where the dispatcher's thread is
    requested,      \* the batches it has asked for
    builder,        \* the task started by each connection
    failed          \* the connections whose task failed

senderVars     == <<sender, active, current, queues>>
dispatcherVars == <<cache, added, full, dispatcher, requested>>
taskVars       == <<builder, failed>>
engineVars     == <<receiver, clients, bound, senderVars, dispatcherVars, taskVars>>

\* Every connection makes a queue when it starts and one when it ends.
QueueIds == 0 .. 2 * Cardinality(Sessions)
NoQueue  == -1

\* A model builder: its session, its stage, and the batches taken in that stage.
TaskAt(x, stage) == [sid |-> x, stage |-> stage, count |-> 0, last |-> 0]
NoTask           == TaskAt(NoSession, 0)

-----------------------------------------------------------------------------
(* The stages of a task. *)

NTrain == (8 * NBatches + 9) \div 10
NEval  == (NBatches + 9) \div 10
NTest  == NBatches - NTrain - NEval

\* The batches that the builder takes in each stage.
Stages(s) == IF Task[s] = "inference" THEN <<NBatches>> ELSE <<NTrain, NEval, NTest>>

-----------------------------------------------------------------------------

EngineTypeOK ==
    /\ receiver \in [Sessions -> {"off", "receive", "raised"}]
    /\ sender \in [Sessions -> QueueIds \cup {NoQueue}]
    /\ active \in BOOLEAN
    /\ current \in QueueIds
    /\ queues \in [QueueIds -> Seq(DownEvent)]
    /\ clients \subseteq Sessions
    /\ bound \subseteq Sessions
    /\ cache \in [Sessions -> Seq(1 .. NBatches)]
    /\ added \in [Sessions -> Nat]
    /\ full \in [Sessions -> BOOLEAN]
    /\ dispatcher \in [Sessions -> {"off", "start", "check", "wait", "clear", "stopped"}]
    /\ requested \in [Sessions -> Nat]
    /\ builder \in [Sessions -> [sid : Sessions \cup {NoSession}, stage : 0 .. 4,
                                 count : Nat, last : 0 .. NBatches]]
    /\ failed \subseteq Sessions

EngineInit ==
    /\ receiver = [s \in Sessions |-> "off"]
    /\ sender = [s \in Sessions |-> NoQueue]
    /\ active = FALSE
    /\ current = 0
    /\ queues = [q \in QueueIds |-> <<>>]
    /\ clients = {}
    /\ bound = {}
    /\ cache = [x \in Sessions |-> <<>>]
    /\ added = [x \in Sessions |-> 0]
    /\ full = [x \in Sessions |-> FALSE]
    /\ dispatcher = [x \in Sessions |-> "off"]
    /\ requested = [x \in Sessions |-> 0]
    /\ builder = [s \in Sessions |-> NoTask]
    /\ failed = {}

-----------------------------------------------------------------------------
(* WebsocketSender. *)

\* send: without an active sender the message is dropped.
Send(e) == queues' = IF active THEN [queues EXCEPT ![current] = Append(@, e)] ELSE queues

\* A connection is accepted: handle_ws starts, and its sender task makes a new
\* message queue for all connections.
Accept(s) ==
    /\ receiver[s] = "off"
    /\ receiver' = [receiver EXCEPT ![s] = "receive"]
    /\ active' = TRUE
    /\ current' = current + 1
    /\ sender' = [sender EXCEPT ![s] = current + 1]
    /\ UNCHANGED <<queues, clients, bound, dispatcherVars, taskVars, wireVars>>

\* A sender task takes a message from the queue it waits for, sends it on its own
\* connection and then waits for the queue of the class, unless that was stopped.
SendQueued(s) ==
    /\ sender[s] # NoQueue
    /\ queues[sender[s]] # <<>>
    /\ down' = [down EXCEPT ![s] = Append(@, Head(queues[sender[s]]))]
    /\ queues' = [queues EXCEPT ![sender[s]] = Tail(@)]
    /\ sender' = [sender EXCEPT ![s] = IF active THEN current ELSE NoQueue]
    /\ UNCHANGED <<active, current, receiver, clients, bound, dispatcherVars, taskVars, up>>

-----------------------------------------------------------------------------
(* The receive loop of a connection. *)

OnSetup(s) ==
    /\ clients' = clients \cup {s}
    /\ Send(Event("ack_setup", s))
    /\ UNCHANGED <<sender, active, current, receiver, bound, dispatcherVars, taskVars, down>>

\* init_database: a new cache and a new dispatcher, whose thread is started.
InitDatabase(x) ==
    IF x \in bound
    THEN UNCHANGED <<bound, dispatcherVars>>
    ELSE /\ bound' = bound \cup {x}
         /\ cache' = [cache EXCEPT ![x] = <<>>]
         /\ added' = [added EXCEPT ![x] = 0]
         /\ full' = [full EXCEPT ![x] = FALSE]
         /\ dispatcher' = [dispatcher EXCEPT ![x] = "start"]
         /\ requested' = [requested EXCEPT ![x] = 0]

\* on_train, on_inference, on_finetune: the acknowledgement does not go through
\* the message queue.  before_execute refuses a session that is not set up.
OnTask(s, x) ==
    /\ InitDatabase(x)
    /\ down' = [down EXCEPT ![s] = Append(@, Event("ack_task", x))]
    /\ builder' = IF x \in clients
                  THEN [builder EXCEPT ![s] = TaskAt(x, 1)]
                  ELSE builder
    /\ UNCHANGED <<senderVars, receiver, clients, failed>>

OnBatchDataNoWait(x, n) ==
    /\ IF x \in bound /\ Len(cache[x]) < CacheSize
       THEN /\ cache' = [cache EXCEPT ![x] = Append(@, n)]
            /\ added' = [added EXCEPT ![x] = @ + 1]
            /\ full' = [full EXCEPT ![x] = TRUE]
       ELSE UNCHANGED <<cache, added, full>>
    /\ UNCHANGED <<senderVars, receiver, clients, bound, dispatcher, requested, taskVars, down>>

\* on_batch_data: the loop waits here until the cache has room.
OnBatchData(x, n) ==
    /\ IF x \in bound
       THEN /\ Len(cache[x]) < CacheSize
            /\ cache' = [cache EXCEPT ![x] = Append(@, n)]
            /\ added' = [added EXCEPT ![x] = @ + 1]
            /\ full' = [full EXCEPT ![x] = TRUE]
       ELSE UNCHANGED <<cache, added, full>>
    /\ UNCHANGED <<senderVars, receiver, clients, bound, dispatcher, requested, taskVars, down>>

OnDisconnectStopFirst(s, x) ==
    /\ clients' = clients \ {x}
    /\ bound' = bound \ {x}
    /\ active' = FALSE
    /\ current' = current + 1
    /\ UNCHANGED <<receiver, sender, queues, dispatcherVars, taskVars, down>>

\* on_disconnect: the session is forgotten, though its dispatcher's thread is not
\* stopped; then the sender is.  An unknown session id raises KeyError, which
\* ends the receive loop and closes the connection.
OnDisconnect(s, x) ==
    /\ IF x \in clients
       THEN /\ clients' = clients \ {x}
            /\ bound' = bound \ {x}
            /\ Send(Event("ack_disconnect", x))
            /\ active' = FALSE
            /\ current' = current + 1
            /\ UNCHANGED <<receiver, down>>
       ELSE /\ receiver' = [receiver EXCEPT ![s] = "raised"]
            /\ down' = [down EXCEPT ![s] = Append(@, Event("closed", s))]
            /\ UNCHANGED <<clients, bound, queues, active, current>>
    /\ UNCHANGED <<sender, dispatcherVars, taskVars>>

Receive(s) ==
    /\ receiver[s] = "receive"
    /\ up[s] # <<>>
    /\ up' = [up EXCEPT ![s] = Tail(@)]
    /\ LET e == Head(up[s])
       IN  \/ e.ev = "setup" /\ OnSetup(s)
           \/ e.ev = "task" /\ OnTask(s, e.sid)
           \/ e.ev = "batch_data" /\ OnBatchData(e.sid, e.batch)
           \/ e.ev = "disconnect" /\ OnDisconnect(s, e.sid)

-----------------------------------------------------------------------------
(* The dispatcher's thread: background_task. *)

EmitRequest(x, next) ==
    /\ Send(Event("request_data", x))
    /\ requested' = [requested EXCEPT ![x] = @ + 1]
    /\ dispatcher' = [dispatcher EXCEPT ![x] = next]
    /\ UNCHANGED <<sender, active, current, receiver, clients, bound, cache, added, full,
                   taskVars, wireVars>>

FirstRequest(x) == dispatcher[x] = "start" /\ EmitRequest(x, "check")

TimeToStopAtTotal(x) == added[x] >= NBatches

TimeToStop(x) == added[x] >= NBatches - 1

CheckStop(x) ==
    /\ dispatcher[x] = "check"
    /\ dispatcher' = [dispatcher EXCEPT ![x] = IF TimeToStop(x) THEN "stopped" ELSE "wait"]
    /\ UNCHANGED <<senderVars, receiver, clients, bound, cache, added, full, requested,
                   taskVars, wireVars>>

\* full_event is set: the next request.
NextRequest(x) == dispatcher[x] = "wait" /\ full[x] /\ EmitRequest(x, "clear")

\* The event is reset after the request has been emitted.
ClearEvent(x) ==
    /\ dispatcher[x] = "clear"
    /\ full' = [full EXCEPT ![x] = FALSE]
    /\ dispatcher' = [dispatcher EXCEPT ![x] = "check"]
    /\ UNCHANGED <<senderVars, receiver, clients, bound, cache, added, requested, taskVars,
                   wireVars>>

\* No batch in ten minutes: the dispatcher stops itself.
WaitTimeout(x) ==
    /\ "timeout" \in Failures
    /\ dispatcher[x] = "wait"
    /\ ~full[x]
    /\ dispatcher' = [dispatcher EXCEPT ![x] = "stopped"]
    /\ full' = [full EXCEPT ![x] = TRUE]
    /\ UNCHANGED <<senderVars, receiver, clients, bound, cache, added, requested, taskVars,
                   wireVars>>

-----------------------------------------------------------------------------
(* The model builder. *)

TaskEnded(s) == builder[s].stage > Len(Stages(s))

\* A batch is taken from the cache (StreamingDataSet); a stage is over when its
\* number of batches has been met exactly.
TakeBatch(s) ==
    LET b == builder[s]
        x == b.sid
    IN  /\ b.stage > 0 /\ ~TaskEnded(s)
        /\ cache[x] # <<>>
        /\ cache' = [cache EXCEPT ![x] = Tail(@)]
        /\ builder' = [builder EXCEPT ![s] =
                IF b.count + 1 = Stages(s)[b.stage]
                THEN [b EXCEPT !.stage = @ + 1, !.count = 0, !.last = Head(cache[x])]
                ELSE [b EXCEPT !.count = @ + 1, !.last = Head(cache[x])]]
        /\ UNCHANGED <<senderVars, receiver, clients, bound, added, full, dispatcher, requested,
                       failed, wireVars>>

\* Any exception in the task, a model that is not there included: an empty result.
TaskFails(s) ==
    /\ "task" \in Failures
    /\ builder[s].stage > 0 /\ ~TaskEnded(s)
    /\ failed' = failed \cup {s}
    /\ builder' = [builder EXCEPT ![s].stage = Len(Stages(s)) + 1]
    /\ UNCHANGED <<senderVars, receiver, clients, bound, dispatcherVars, wireVars>>

\* The done callback of the task sends its result.
SendResult(s) ==
    /\ TaskEnded(s)
    /\ Send(Event("result", builder[s].sid))
    /\ builder' = [builder EXCEPT ![s].stage = 0]
    /\ UNCHANGED <<sender, active, current, receiver, clients, bound, dispatcherVars, failed,
                   wireVars>>

EventLoop(s) == SendQueued(s) \/ Receive(s) \/ TakeBatch(s) \/ SendResult(s)

DispatcherThread(x) == FirstRequest(x) \/ CheckStop(x) \/ NextRequest(x) \/ ClearEvent(x)
=============================================================================
