------------------------------ MODULE TaskWire ------------------------------
(***************************************************************************)
(* What a database backend and the AI engine share when the backend runs a *)
(* machine learning task: the task, and one websocket per task, which is a *)
(* FIFO of events in each direction.                                       *)
(***************************************************************************)
EXTENDS Integers, Sequences

CONSTANTS
    Sessions,       \* the calls of nr_train and nr_inference, one websocket each
    Task,           \* the task of each: "train" or "inference"
    NBatches,       \* n_batches of the call (nr_task_num_batches)
    NoSession       \* the empty sid, before the engine has given one

ASSUME WireAssumption ==
    /\ Task \in [Sessions -> {"train", "inference"}]
    /\ NBatches \in Nat \ {0}
    /\ NoSession \notin Sessions

VARIABLES
    up,             \* events on their way to the engine
    down            \* events on their way to the backend

wireVars == <<up, down>>

\* An event: its name, the session id in it and, in batch_data, the batch.  The
\* end of the connection is the event "closed".
Event(name, x)    == [ev |-> name, sid |-> x, batch |-> 0]
BatchEvent(x, n)  == [ev |-> "batch_data", sid |-> x, batch |-> n]

BatchEvents == [ev : {"batch_data"}, sid : Sessions, batch : 1 .. NBatches]

UpEvent ==
    [ev : {"setup"}, sid : {NoSession}, batch : {0}]
        \cup [ev : {"task", "disconnect"}, sid : Sessions, batch : {0}]
        \cup BatchEvents

DownEvent ==
    [ev : {"ack_setup", "ack_task", "request_data", "result", "ack_disconnect", "closed"},
     sid : Sessions, batch : {0}]

WireTypeOK ==
    /\ up \in [Sessions -> Seq(UpEvent)]
    /\ down \in [Sessions -> Seq(DownEvent)]

WireInit ==
    /\ up = [s \in Sessions |-> <<>>]
    /\ down = [s \in Sessions |-> <<>>]
=============================================================================
