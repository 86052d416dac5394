---------------------------- MODULE RocksService ----------------------------
(***************************************************************************)
(* The RocksDB service of nr_am and its clients: backends send requests    *)
(* over one shared channel and wait for the answer on a channel of their   *)
(* own (rocks_handler.c); the background worker takes one request at a     *)
(* time, carries it out, and sends the answer (run_rocks_no_thread and     *)
(* process_request in rocks_service.c, the loop that bgw_main_arg = 1      *)
(* selects).                                                               *)
(*                                                                         *)
(* A channel is the FIFO of whole messages that KVChannel implements, with *)
(* its limit counted in messages; the test of is_running and the section   *)
(* under the lock are one step here.  Only another push wakes a sender     *)
(* that sleeps on a full channel: a client that sleeps on the request      *)
(* channel depends on the other clients, and the service that sleeps on an *)
(* answer channel on nobody, because it is the only one to send there.     *)
(***************************************************************************)
EXTENDS RocksOps, SequencesExt, FiniteSets

CONSTANTS
    MaxCalls,       \* bound: the number of calls
    ReqCap,         \* the requests that fit into the request channel
    RespCap,        \* the answers that fit into a client's channel
    RangeCap        \* the rows that fit into one message of MSG_SIZE bytes

ASSUME RocksAssumption ==
    /\ InitialKeys \subseteq Keys /\ IsFiniteSet(Clients)
    /\ MaxCalls \in Nat /\ ReqCap \in Nat \ {0} /\ RespCap \in Nat \ {0} /\ RangeCap \in Nat
    /\ NoValue \notin Values /\ NoValue \notin Request
    /\ NoValue \notin [req: Request, n: Nat \ {0}]

VARIABLES
    db,         \* the contents of RocksDB
    running,    \* rocks_service_running, and is_running of the request channel
    svc,        \* where the service is in its loop
    req,        \* the request channel
    push,       \* the request each client could not yet send, the channel being full
    waiters,    \* the clients on the list of the request channel's condition variable
    results,    \* result_queue of the service
    resp,       \* the answer channel of each client
    call,       \* the call whose answer each client waits for
    got,        \* what its last call returned
    calls,      \* the number of requests sent or refused so far
    slept,      \* has the client found its channel empty in this call
    cancels,    \* the number of calls of each client cancelled while it waited
    \* The history, for stating properties.
    rows,       \* the contents of RocksDB when all requests sent are carried out
    owed        \* the answers each client is to get, one for each request sent

serviceVars == <<db, svc, results>>
pushVars    == <<push, waiters>>
clientVars  == <<call, got, calls, slept, cancels>>
histVars    == <<rows, owed>>
vars        == <<serviceVars, running, req, resp, pushVars, clientVars, histVars>>

Init ==
    /\ db = Rows0
    /\ running = TRUE
    /\ svc = "loop"
    /\ req = <<>>
    /\ results = <<>>
    /\ resp = [c \in Clients |-> <<>>]
    /\ push = [c \in Clients |-> NoValue]
    /\ waiters = {}
    /\ call = [c \in Clients |-> NoValue]
    /\ got = [c \in Clients |-> NoValue]
    /\ calls = 0
    /\ slept = [c \in Clients |-> FALSE]
    /\ cancels = [c \in Clients |-> 0]
    /\ rows = Rows0
    /\ owed = [c \in Clients |-> <<>>]

-----------------------------------------------------------------------------
(* The clients: RocksClientPut, RocksClientGet, RocksClientRangeScan. *)

\* The access method gets a row by a key it has found in an index, a scan or
\* its own read set, so the row was put before.
Known(r) == r.op = "get" => rows[r.key] # NoValue

\* The clients inside KVChannelPushMsg on the request channel.
Pushing == {c \in Clients : push[c] # NoValue}

\* A client enters the loop of KVChannelPush with a new request, or goes round
\* it again because a broadcast has woken it.
Tries(c, r) ==
    \/ /\ call[c] = NoValue /\ push[c] = NoValue
       /\ calls + Cardinality(Pushing) < MaxCalls
       /\ Known(r)
    \/ /\ push[c] = r
       /\ c \notin waiters

\* Room is kept for one more message.
RoomShort == Len(req) + 1 < ReqCap

\* The test for space in KVChannelPush.
Room == Len(req) < ReqCap

\* There is room: KVChannelPush copies the request and wakes all who sleep on
\* the channel; then the client waits on its own one.
Call(c, r) ==
    /\ Tries(c, r)
    /\ running
    /\ Room
    /\ calls' = calls + 1
    /\ call' = [call EXCEPT ![c] = [req |-> r, n |-> calls + 1]]
    /\ req' = Append(req, [client |-> c, req |-> r, n |-> calls + 1])
    /\ push' = [push EXCEPT ![c] = NoValue]
    /\ waiters' = {}
    /\ slept' = [slept EXCEPT ![c] = resp[c] = <<>>]
    /\ rows' = ApplyTo(rows, r, calls + 1)
    /\ owed' = [owed EXCEPT ![c] = Append(@, Answer(rows, r, calls + 1))]
    /\ UNCHANGED <<serviceVars, running, resp, got, cancels>>

\* The request channel is full: the client sleeps, without a timeout.
CallSleeps(c, r) ==
    /\ Tries(c, r)
    /\ running
    /\ ~Room
    /\ push' = [push EXCEPT ![c] = r]
    /\ waiters' = waiters \union {c}
    /\ UNCHANGED <<serviceVars, running, req, resp, clientVars, histVars>>

\* The request channel was terminated: a warning, and the call fails.
CallRefused(c, r) ==
    /\ Tries(c, r)
    /\ ~running
    /\ calls' = calls + 1
    /\ got' = [got EXCEPT ![c] = Refused(r)]
    /\ push' = [push EXCEPT ![c] = NoValue]
    /\ UNCHANGED <<serviceVars, running, req, resp, waiters, call, slept, cancels, histVars>>

\* A cancel request is served in the sleep on the full channel; nothing was sent.
CancelPush(c) ==
    /\ push[c] # NoValue
    /\ push' = [push EXCEPT ![c] = NoValue]
    /\ waiters' = waiters \ {c}
    /\ UNCHANGED <<serviceVars, running, req, resp, clientVars, histVars>>

\* An answer is used and stays in the channel.
ReturnUnread(c) ==
    /\ call[c] # NoValue
    /\ resp[c] # <<>>
    /\ got' = [got EXCEPT ![c] = Result(call[c].req, Head(resp[c]))]
    /\ call' = [call EXCEPT ![c] = NoValue]
    /\ slept' = [slept EXCEPT ![c] = FALSE]
    /\ owed' = [owed EXCEPT ![c] = Tail(@)]
    /\ UNCHANGED <<serviceVars, running, req, resp, pushVars, calls, cancels, rows>>

\* KVChannelPopMsg from the client's channel, and the test of op.
Return(c) ==
    /\ call[c] # NoValue
    /\ resp[c] # <<>>
    /\ got' = [got EXCEPT ![c] = Result(call[c].req, Head(resp[c]))]
    /\ resp' = [resp EXCEPT ![c] = Tail(@)]
    /\ call' = [call EXCEPT ![c] = NoValue]
    /\ slept' = [slept EXCEPT ![c] = FALSE]
    /\ owed' = [owed EXCEPT ![c] = Tail(@)]
    /\ UNCHANGED <<serviceVars, running, req, pushVars, calls, cancels, rows>>

\* A cancel request is served in ConditionVariableSleep, which the client enters
\* when it finds its channel empty, and may still be served when an answer has
\* come meanwhile.  The call ends with an error, the request stays on its way.
Cancel(c) ==
    /\ call[c] # NoValue
    /\ slept[c]
    /\ slept' = [slept EXCEPT ![c] = FALSE]
    /\ call' = [call EXCEPT ![c] = NoValue]
    /\ cancels' = [cancels EXCEPT ![c] = @ + 1]
    /\ UNCHANGED <<serviceVars, running, req, resp, pushVars, got, calls, histVars>>

-----------------------------------------------------------------------------
(* run_rocks_no_thread. *)

\* The loop condition, and the one of KVChannelPopMsg: once the service has
\* been told to stop, requests in the channel are left there.
Loop ==
    /\ svc = "loop"
    /\ svc' = IF running THEN "pop" ELSE "exited"
    /\ UNCHANGED <<db, results, running, req, resp, pushVars, clientVars, histVars>>

\* No request within ROCKSDB_CHANNEL_DEFAULT_TIMEOUT.
PopNull ==
    /\ svc = "pop"
    /\ req = <<>>
    /\ svc' = "loop"
    /\ UNCHANGED <<db, results, running, req, resp, pushVars, clientVars, histVars>>

\* handle_kv_put answers nothing.
ProcessRequestSilent ==
    /\ svc = "pop"
    /\ req # <<>>
    /\ LET m == Head(req)
       IN  /\ db' = ApplyTo(db, m.req, m.n)
           /\ results' = IF m.req.op = "put" THEN results ELSE
                 Append(results, [client |-> m.client, ans |-> Answer(db, m.req, m.n)])
    /\ req' = Tail(req)
    /\ svc' = "clear"
    /\ UNCHANGED <<running, resp, pushVars, clientVars, histVars>>

\* A range scan overtakes the requests before it.
ProcessRequestScanFirst ==
    LET scan == Last(req).req.op = "range"
        m    == IF scan THEN Last(req) ELSE Head(req)
    IN  /\ svc = "pop"
        /\ req # <<>>
        /\ db' = ApplyTo(db, m.req, m.n)
        /\ results' = Append(results, [client |-> m.client, ans |-> Answer(db, m.req, m.n)])
        /\ req' = IF scan THEN Front(req) ELSE Tail(req)
        /\ svc' = "clear"
        /\ UNCHANGED <<running, resp, pushVars, clientVars, histVars>>

\* KVChannelPopMsg, then process_request: carry it out, push the answer onto
\* the result queue.
ProcessRequest ==
    /\ svc = "pop"
    /\ req # <<>>
    /\ LET m == Head(req)
       IN  /\ db' = ApplyTo(db, m.req, m.n)
           /\ results' = Append(results, [client |-> m.client, ans |-> Answer(db, m.req, m.n)])
    /\ req' = Tail(req)
    /\ svc' = "clear"
    /\ UNCHANGED <<running, resp, pushVars, clientVars, histVars>>

\* Does the answer fit into a message?
TooLarge(a) ==
    a.op = "range" /\ Cardinality(a.val) > RangeCap

\* The answer is sent whether there is room or not.
ClearOneOverfull ==
    /\ svc = "clear"
    /\ results # <<>>
    /\ LET x == Head(results)
       IN  /\ ~TooLarge(x.ans)
           /\ resp' = [resp EXCEPT ![x.client] = Append(@, x.ans)]
    /\ results' = Tail(results)
    /\ UNCHANGED <<db, svc, running, req, pushVars, clientVars, histVars>>

\* ResultQueueClear: KVChannelPushMsg to the client's channel.
ClearOne ==
    /\ svc = "clear"
    /\ results # <<>>
    /\ LET x == Head(results)
       IN  /\ ~TooLarge(x.ans)
           /\ Len(resp[x.client]) < RespCap
           /\ resp' = [resp EXCEPT ![x.client] = Append(@, x.ans)]
    /\ results' = Tail(results)
    /\ UNCHANGED <<db, svc, running, req, pushVars, clientVars, histVars>>

ClearDone ==
    /\ svc = "clear"
    /\ results = <<>>
    /\ svc' = "loop"
    /\ UNCHANGED <<db, results, running, req, resp, pushVars, clientVars, histVars>>

\* The answer is larger than MSG_SIZE: an ERROR, which ends the worker for
\* good (BGW_NEVER_RESTART); the request channel stays open.
ClearTooLarge ==
    /\ svc = "clear"
    /\ results # <<>>
    /\ TooLarge(Head(results).ans)
    /\ svc' = "failed"
    /\ UNCHANGED <<db, results, running, req, resp, pushVars, clientVars, histVars>>

\* The client's channel is full: the service sleeps on it, and the client's
\* KVChannelPopMsg does not wake it.
ClearBlocked ==
    /\ svc = "clear"
    /\ results # <<>>
    /\ ~TooLarge(Head(results).ans)
    /\ Len(resp[Head(results).client]) >= RespCap
    /\ svc' = "blocked"
    /\ UNCHANGED <<db, results, running, req, resp, pushVars, clientVars, histVars>>

\* terminate_rocks, the handler of SIGTERM: the flags, and the broadcast of
\* TerminateChannel.
Terminate ==
    /\ running
    /\ running' = FALSE
    /\ waiters' = {}
    /\ UNCHANGED <<serviceVars, req, resp, push, clientVars, histVars>>

-----------------------------------------------------------------------------
ServiceStep ==
    \/ Loop
    \/ PopNull
    \/ ProcessRequest
    \/ ClearOne
    \/ ClearDone
    \/ ClearTooLarge
    \/ ClearBlocked

Next ==
    \/ \E c \in Clients, r \in Request : Call(c, r) \/ CallSleeps(c, r) \/ CallRefused(c, r)
    \/ \E c \in Clients : Return(c) \/ Cancel(c) \/ CancelPush(c)
    \/ ServiceStep
    \/ Terminate

Spec == Init /\ [][Next]_vars

\* A client that was woken in KVChannelPush goes round its loop.
Retry(c) ==
    /\ push[c] # NoValue
    /\ \E r \in Request : Call(c, r) \/ CallSleeps(c, r) \/ CallRefused(c, r)

\* The service runs on, and so does a client whose answer has arrived or that
\* was woken.
FairSpec ==
    /\ Spec
    /\ WF_vars(ServiceStep)
    /\ \A c \in Clients : WF_vars(Return(c)) /\ WF_vars(Retry(c))

-----------------------------------------------------------------------------
(* Properties. *)

Requests == [client: Clients, req: Request, n: Nat \ {0}]
Answers  == {a \in [op: {"put", "get", "range"}, call: Nat \ {0}, val: SUBSET Values] :
                a.op = "get" => a.val # {}}
Results  == [req: Request, ok: BOOLEAN, val: SUBSET Values]

ServiceType ==
    /\ db \in Rows
    /\ running \in BOOLEAN
    /\ svc \in {"loop", "pop", "clear", "exited", "failed", "blocked"}
    /\ req \in Seq(Requests)
    /\ results \in Seq([client: Clients, ans: Answers])
    /\ resp \in [Clients -> Seq(Answers)]
    /\ \A c \in Clients : Len(resp[c]) <= RespCap
    /\ Len(req) <= ReqCap

ClientType ==
    /\ push \in [Clients -> Request \union {NoValue}]
    /\ waiters \subseteq Clients
    /\ call \in [Clients -> [req: Request, n: Nat \ {0}] \union {NoValue}]
    /\ got \in [Clients -> Results \union {NoValue}]
    /\ calls \in Nat
    /\ slept \in [Clients -> BOOLEAN]
    /\ cancels \in [Clients -> Nat]

HistType ==
    /\ rows \in Rows
    /\ owed \in [Clients -> Seq(Answers)]

\* The type invariant.  A get finds its row when it is carried out, and no
\* channel holds more messages than fit.
TypeOK == ServiceType /\ ClientType /\ HistType

Store == INSTANCE SessionStore WITH open <- running

\* A request takes effect in the order in which it entered the channel, so for
\* every client it is as if it took effect when it was sent, even when the call
\* is cancelled or takes an older answer for its own: this is what lets a
\* transaction release its lock after a put.  Every answer is delivered once,
\* in the order of the client's requests.
IsSessionStore == Store!StoreSpec

\* The calls of a client that have an answer in its channel, in the result
\* queue, or to come.
Outstanding(c) ==
    {resp[c][i].call : i \in 1 .. Len(resp[c])}
    \union {results[i].ans.call : i \in {j \in 1 .. Len(results) : results[j].client = c}}
    \union {req[i].n : i \in {j \in 1 .. Len(req) : req[j].client = c}}

Busy(c) == IF call[c] = NoValue THEN 0 ELSE 1

\* The only way to leave an answer behind is a cancelled call, and each leaves
\* at most one: with fewer cancels than its channel holds answers, no client can
\* make the service sleep on that channel.
OnlyCancelsLeaveAnswers ==
    /\ \A c \in Clients : Cardinality(Outstanding(c)) <= cancels[c] + Busy(c)
    /\ svc = "blocked" => cancels[Head(results).client] >= RespCap

\* The cancelled calls of all clients.
Cancelled == UNION {{c} \X (1 .. cancels[c]) : c \in Clients}

\* A client sleeps on the full request channel only when the clients and their
\* cancelled calls are more than the requests that fit: each of the others has
\* at most one request under way that it waits for, and one for each of its
\* cancelled calls.
OnlyCrowdsSleep ==
    waiters # {} => ReqCap < Cardinality(Clients) + Cardinality(Cancelled)

\* While the service is neither told to stop nor lost to a full channel or an
\* answer that is too large, every call ends, unless it sleeps on the full
\* request channel and nobody sends another request: KVChannelPopMsg makes room
\* and wakes nobody.
CallsReturn ==
    [](running /\ svc \notin {"blocked", "failed"})
        => \A c \in Clients :
              call[c] # NoValue \/ push[c] # NoValue
                  ~> c \in waiters \/ (call[c] = NoValue /\ push[c] = NoValue)

\* A get returns a value that was put under its key, as the client test of the
\* repository checks: PUT, then GET, then compare.
GetAnswersItsKey ==
    \A c \in Clients :
        got[c] # NoValue /\ got[c].ok /\ got[c].req.op = "get" =>
            \A v \in got[c].val : v[1] = got[c].req.key
=============================================================================
