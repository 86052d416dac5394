--------------------------- MODULE PipelineClient ---------------------------
(***************************************************************************)
(* The backend's side of a machine learning task (nr_pipeline): the main   *)
(* thread, which runs nr_train or nr_inference and feeds a bounded queue   *)
(* of batches, and the websocket thread, which handles the engine's events *)
(* one after the other and waits inside the handler of request_data until  *)
(* the queue has a batch.  The threads meet in the queue and in the flags  *)
(* of NrWebsocket that the main thread polls.                              *)
(***************************************************************************)
EXTENDS TaskWire, FiniteSets

CONSTANTS
    QueueMax,       \* max_size of the batch queue (10 in the code)
    TableBatches,   \* the batches that the table holds
    MaxOpen         \* the tasks that run at the same time

ASSUME ClientAssumption ==
    /\ QueueMax \in Nat \ {0} /\ TableBatches \in Nat /\ MaxOpen \in Nat

VARIABLES
    main,           \* where the main thread is
    thread,         \* where the websocket thread is
    flags,          \* setuped, task_acknowledged and completed of NrWebsocket
    sid,            \* the session id the engine gave
    queue,          \* the BatchQueue, of batch_data events
    fed             \* the batches the main thread has queued so far

clientVars == <<main, thread, flags, sid, queue, fed>>

ClientTypeOK ==
    /\ main \in [Sessions -> {"idle", "connect", "setup", "task", "feed", "join", "done"}]
    /\ thread \in [Sessions -> {"off", "service", "dequeue", "ended"}]
    /\ flags \in [Sessions -> SUBSET {"setuped", "task_acknowledged", "completed"}]
    /\ sid \in [Sessions -> Sessions \cup {NoSession}]
    /\ queue \in [Sessions -> Seq(BatchEvents)]
    /\ fed \in [Sessions -> 0 .. NBatches]

ClientInit ==
    /\ main = [s \in Sessions |-> "idle"]
    /\ thread = [s \in Sessions |-> "off"]
    /\ flags = [s \in Sessions |-> {}]
    /\ sid = [s \in Sessions |-> NoSession]
    /\ queue = [s \in Sessions |-> <<>>]
    /\ fed = [s \in Sessions |-> 0]

SendJson(s, e) == up' = [up EXCEPT ![s] = Append(@, e)]

-----------------------------------------------------------------------------
(* The main thread. *)

Running == {s \in Sessions : main[s] \notin {"idle", "done"}}

\* nr_train or nr_inference is called: the socket is opened and the websocket
\* thread started.
Open(s) ==
    /\ main[s] = "idle"
    /\ Cardinality(Running) < MaxOpen
    /\ main' = [main EXCEPT ![s] = "connect"]
    /\ thread' = [thread EXCEPT ![s] = "service"]
    /\ UNCHANGED <<flags, sid, queue, fed, wireVars>>

\* The connection is established (conn): the second half of nws_connect.
SendSetup(s, conn) ==
    /\ main[s] = "connect"
    /\ conn
    /\ main' = [main EXCEPT ![s] = "setup"]
    /\ SendJson(s, Event("setup", NoSession))
    /\ UNCHANGED <<thread, flags, sid, queue, fed, down>>

SendTask(s) ==
    /\ main[s] = "setup"
    /\ "setuped" \in flags[s]
    /\ main' = [main EXCEPT ![s] = "task"]
    /\ SendJson(s, Event("task", sid[s]))
    /\ UNCHANGED <<thread, flags, sid, queue, fed, down>>

TaskAcknowledged(s) ==
    /\ main[s] = "task"
    /\ "task_acknowledged" \in flags[s]
    /\ main' = [main EXCEPT ![s] = "feed"]
    /\ UNCHANGED <<thread, flags, sid, queue, fed, wireVars>>

FetchLimitPast  == IF NBatches < TableBatches THEN NBatches + 1 ELSE TableBatches
FetchLimitShort == IF NBatches <= TableBatches THEN NBatches - 1 ELSE TableBatches

\* The batches the fetch loop sends: it ends with the table, or after n_batches.
FetchLimit == IF NBatches <= TableBatches THEN NBatches ELSE TableBatches

\* One round of the fetch loop: a batch is fetched and queued, once the queue
\* has room for it.
FeedBatch(s) ==
    /\ main[s] = "feed"
    /\ fed[s] < FetchLimit
    /\ Len(queue[s]) < QueueMax
    /\ fed' = [fed EXCEPT ![s] = @ + 1]
    /\ queue' = [queue EXCEPT ![s] = Append(@, BatchEvent(sid[s], fed[s] + 1))]
    /\ UNCHANGED <<main, thread, flags, sid, wireVars>>

\* The loop is over and the result has come: _clean_up_common sends disconnect.
SendDisconnect(s) ==
    /\ main[s] = "feed"
    /\ fed[s] = FetchLimit
    /\ "completed" \in flags[s]
    /\ main' = [main EXCEPT ![s] = "join"]
    /\ SendJson(s, Event("disconnect", sid[s]))
    /\ UNCHANGED <<thread, flags, sid, queue, fed, down>>

\* The websocket thread is joined, the socket freed, the call returns.
Join(s) ==
    /\ main[s] = "join"
    /\ thread[s] = "ended"
    /\ main' = [main EXCEPT ![s] = "done"]
    /\ flags' = [flags EXCEPT ![s] = {}]
    /\ sid' = [sid EXCEPT ![s] = NoSession]
    /\ queue' = [queue EXCEPT ![s] = <<>>]
    /\ fed' = [fed EXCEPT ![s] = 0]
    /\ UNCHANGED <<thread, wireVars>>

-----------------------------------------------------------------------------
(* The websocket thread. *)

\* The handlers look at the name of an event only: any session id will do.
HandleEvent(s) ==
    /\ thread[s] = "service"
    /\ down[s] # <<>>
    /\ down' = [down EXCEPT ![s] = Tail(@)]
    /\ LET e == Head(down[s])
       IN  /\ thread' = [thread EXCEPT ![s] =
                            CASE e.ev = "request_data"               -> "dequeue"
                              [] e.ev \in {"ack_disconnect", "closed"} -> "ended"
                              [] OTHER                               -> @]
           /\ flags' = [flags EXCEPT ![s] = @ \cup
                            (CASE e.ev = "ack_setup" -> {"setuped"}
                               [] e.ev = "ack_task"  -> {"task_acknowledged"}
                               [] e.ev = "result"    -> {"completed"}
                               [] OTHER              -> {})]
           /\ sid' = [sid EXCEPT ![s] = IF e.ev = "ack_setup" THEN e.sid ELSE @]
    /\ UNCHANGED <<main, queue, fed, up>>

\* The rest of handle_request_data, once the queue is not empty (nBatch is 1).
DequeueBatch(s) ==
    /\ thread[s] = "dequeue"
    /\ queue[s] # <<>>
    /\ SendJson(s, Head(queue[s]))
    /\ queue' = [queue EXCEPT ![s] = Tail(@)]
    /\ thread' = [thread EXCEPT ![s] = "service"]
    /\ UNCHANGED <<main, flags, sid, fed, down>>

MainThread(s, conn) ==
    \/ SendSetup(s, conn) \/ SendTask(s) \/ TaskAcknowledged(s) \/ FeedBatch(s)
    \/ SendDisconnect(s) \/ Join(s)

WebsocketThread(s) == HandleEvent(s) \/ DequeueBatch(s)
=============================================================================
