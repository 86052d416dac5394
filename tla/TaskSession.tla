---------------------------- MODULE TaskSession ----------------------------
(***************************************************************************)
(* Machine learning tasks from end to end: the backends' calls of nr_train *)
(* and nr_inference (PipelineClient) and the AI engine (AIEngine), joined  *)
(* by one websocket per call.  A PREDICT statement that has to train first *)
(* runs two such calls, one after the other.                               *)
(***************************************************************************)
EXTENDS PipelineClient, AIEngine

CONSTANT OpenAfterFailure   \* does a run go on to new tasks after one has failed

ASSUME SessionAssumption == OpenAfterFailure \in BOOLEAN

vars == <<clientVars, engineVars, wireVars>>

Init == WireInit /\ ClientInit /\ EngineInit

Connected(s) == receiver[s] # "off"

Next ==
    \E s \in Sessions :
        \/ (failed = {} \/ OpenAfterFailure) /\ Open(s) /\ UNCHANGED engineVars
        \/ (MainThread(s, Connected(s)) \/ WebsocketThread(s)) /\ UNCHANGED engineVars
        \/ main[s] = "connect" /\ Accept(s) /\ UNCHANGED clientVars
        \/ EventLoop(s) /\ UNCHANGED clientVars
        \/ DispatcherThread(s) /\ UNCHANGED clientVars
        \/ (WaitTimeout(s) \/ TaskFails(s)) /\ UNCHANGED clientVars

Spec == Init /\ [][Next]_vars

\* Every thread and the event loop keep running.  Nothing makes a backend start a
\* task, a task fail or a wait time out.
Fairness ==
    \A s \in Sessions :
        /\ WF_vars(MainThread(s, Connected(s)) /\ UNCHANGED engineVars)
        /\ WF_vars(WebsocketThread(s) /\ UNCHANGED engineVars)
        /\ WF_vars(main[s] = "connect" /\ Accept(s) /\ UNCHANGED clientVars)
        /\ WF_vars(SendQueued(s) /\ UNCHANGED clientVars)
        /\ WF_vars(Receive(s) /\ UNCHANGED clientVars)
        /\ WF_vars((TakeBatch(s) \/ SendResult(s)) /\ UNCHANGED clientVars)
        /\ WF_vars(DispatcherThread(s) /\ UNCHANGED clientVars)

FairSpec == Spec /\ Fairness

-----------------------------------------------------------------------------

\* Type correctness of the wire, the backends and the engine.
TypeOK == WireTypeOK /\ ClientTypeOK /\ EngineTypeOK

\* The dispatcher of a session never asks for more batches than the task has, and
\* never for one before the previous one has been put into the cache.  It rests on
\* the "- 1" of DataCache.time_to_stop and on one full_event.set per batch, read by
\* a thread that runs beside the event loop.
FlowControl ==
    \A x \in Sessions : requested[x] <= NBatches /\ requested[x] <= added[x] + 1

Healthy == failed = {}

\* Every event that reaches a backend is about its own session.  The handlers of
\* websocket.c do not compare session ids, and WebsocketSender has one queue for
\* all connections.
OwnEvents ==
    \A s \in Sessions : \A i \in DOMAIN down[s] : down[s][i].sid = s

\* As long as no task has failed and tasks run one at a time, the shared sender
\* and the dispatchers left running by on_disconnect mix up no two sessions.
HealthyOwnEvents == Healthy => OwnEvents

\* As long as no task has failed, whenever the websocket thread waits for a batch
\* inside handle_request_data, and so hears no other event, the main thread has a
\* batch for it: it does not itself wait for an acknowledgement or for the result.
BatchComes ==
    Healthy => \A s \in Sessions :
        thread[s] = "dequeue" =>
            /\ main[s] = "feed" \/ (main[s] = "task" /\ "task_acknowledged" \in flags[s])
            /\ queue[s] # <<>> \/ fed[s] < FetchLimit

\* The batches of a session between the table and the builder, the oldest first:
\* in the data cache, on the websocket, in the queue between the threads.
BatchNumbers(events) == [i \in 1 .. Len(events) |-> events[i].batch]
InTransit(s) == cache[s] \o BatchNumbers(up[s]) \o BatchNumbers(queue[s])

StreamState(s) ==
    IF main[s] \in {"join", "done"} THEN "closed" ELSE IF s \in failed THEN "failed" ELSE "open"

IfOpen(s, v) == IF StreamState(s) = "closed" THEN 0 ELSE v

Stream == INSTANCE BatchStream WITH
    Streams <- Sessions,
    Total   <- NBatches,
    pending <- [s \in Sessions |-> IF main[s] = "feed" THEN InTransit(s) ELSE <<>>],
    sent    <- [s \in Sessions |-> IfOpen(s, fed[s])],
    used    <- [s \in Sessions |-> IfOpen(s, builder[s].last)],
    state   <- [s \in Sessions |-> StreamState(s)]

\* Through the queue between the threads, the websocket and the data cache, every
\* session's batches reach the builder once and in order, and a backend hangs up
\* only when all have been used or its task has failed.
IsBatchStream == Stream!StreamSpec

\* Once the dispatcher has asked for every batch of a task, the call of nr_train or
\* nr_inference returns, unless a task fails.
ServedTasksEnd ==
    \A s \in Sessions : requested[s] = NBatches ~> main[s] = "done" \/ ~Healthy

\* A task that the engine has acknowledged ends: its call returns.
TasksEnd ==
    \A s \in Sessions : main[s] = "feed" ~> main[s] = "done"
=============================================================================
