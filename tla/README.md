# NeurDB: a TLA+ model of the storage engine and of machine learning tasks

NeurDB is a fork of PostgreSQL 16.3 with extensions of its own under
`src/dbengine/nr_kernel` and an AI engine under `src/aiengine`.  This project
models two of its parts.  The first carries the database's own concurrency
control: `nr_am`, the NRAM table access method, from the statement down to the
shared-memory channel to the RocksDB service.  The second is what a PREDICT
statement runs: the sessions in which `nr_pipeline` streams a table to the AI
engine.  Paths below are relative to `src/dbengine/nr_kernel/nr_am/src` unless
they start with `src/` or name a part of these sessions.

## The system

| Part | State | Operations | Talks to |
|---|---|---|---|
| NeurCC policy (`nram_xact/action.c`) | a table of actions in shared memory, indexed by a feature (operation, number of accesses) | `load_agent_function`, `get_action` | read by every backend without a lock |
| Transactions (`nram_xact/xact.c`) | per backend: xid, feature, action, read set, write set | `before_access`, `add_read_set`, `add_write_set`, the commit callback | lock manager, Rocks client |
| Table access method (`nram.c`) | scan descriptors | scan, index fetch, fetch by tid, insert, update | transactions, lock manager, Rocks client |
| Keys and values (`nram_access/kv.c`) | a per-backend tid counter | tid generation, serialisation | |
| Channel (`ipc/msg.c`) | a ring of 32 KB in shared memory, a lock, a condition variable, a running flag | push, pop, terminate | |
| Rocks client (`nram_storage/rocks_handler.c`) | one answer channel per backend | put, get, range scan | request channel, own answer channel |
| Rocks service (`nram_storage/rocks_service.c`) | RocksDB, a result queue | one loop: pop, process, send | all channels |
| Lock manager (`src/dbengine/src/backend/storage/lmgr`) | PostgreSQL's, changed: a wait queue ordered by rank; rank > 9.8 never waits | acquire, release | |
| nr_pipeline (`interface.c`, `websocket.c`, `queue.c`) | per call of `nr_train` or `nr_inference`: two threads, the flags of `NrWebsocket`, a session id, a bounded batch queue | connect, setup, task, fetch loop, disconnect; a handler per event | the AI engine, over one websocket per call |
| AI engine (`server.py`, `ws.py`, `data_dispatcher.py`, `data_cache.py`) | one event loop; per session a data cache and a dispatcher thread with an event; one message queue and one flag for all connections | the receive loop, the sender, `background_task`, the model builder | backends |
| nr_store, nr_index_management, nr_workload_forecast, nr_ext, nr_molqo, nr_modelmanager, neurqo_frame, Python API | see `PROJECT.json` | | |

A transaction buffers its updates in a write set.  An UPDATE fetches its row twice:
the plan does, to compute the new values, and then PostgreSQL's `ExecModifyTable`,
to merge them into the current row; only the second fetch enters the read set.  An
inserted row is put into RocksDB at once, marked private.  At commit the callback
sorts the write set, takes an advisory lock per key (its tag keeps 32 of the 48 bits
of a tid, so keys may share a lock), validates the read set if the transaction is
SERIALIZABLE (a share lock without waiting, then a comparison of versions), and puts
the writes one by one, releasing each key after its put.  Under a locking policy
statements also take tuple locks.

What is hard: validation interleaves with the installation of other transactions'
writes, key by key; commit waits for locks without a timeout, in an order that the
truncated tags need not follow; the policy changes under running transactions; a
cancel can hit between any two messages; the service can stop or die and is not
restarted; a channel has bounded space and one wait list for readers and writers.

A task starts with three blocking exchanges (connection, setup, task).  Then the
main thread of the backend puts batches into the queue, the engine's dispatcher
thread emits one `request_data` per batch, the backend's websocket thread answers
each with a batch, and the builder takes the batches from the cache and ends
after a fixed number of them.  The result lets the main thread disconnect.

What is hard here: five threads of control per task, coupled by polled flags, a
condition variable, an event and two queues; a handler that blocks the only
thread that receives; a request counted by one thread and answered through
another; state of a class shared by all sessions; and what a failed or finished
task leaves running.

`PROJECT.json` lists the hazards with their lines, and what would catch each.

What makes the parts correct:

- transactions: recorded reads are serialisable, no dirty reads, no lost
  updates, an aborted transaction leaves nothing, a committed one loses
  nothing, commit terminates;
- channel: whole messages, in order, once each; no lost wake-up;
- client and service: a request takes effect in the order it was sent, an answer
  belongs to its call, every call returns or the reason why it cannot is known;
- task sessions: every batch reaches the model once and in order, the engine asks
  for as many as there are, an event reaches the backend it is about, nobody waits
  for a batch that does not come, every call returns.

## Modules

| Module | Models |
|---|---|
| `NramPolicy` | `action.c`: the table, its index, the load of one entry |
| `NramXact` | `nram.c` and `xact.c`: statements, the commit callback, failures; the properties |
| `NramXactInv` | the inductive invariants: `IInv`, and `TwoPLInv` for policies that lock |
| `NramXactProofs` | the theorems about `NramXact` for every policy, and their proofs |
| `NramTwoPLProofs` | the theorems about `NramXact` for policies that lock, and their proofs |
| `MsgFifo` | abstract: a queue of messages |
| `KVChannel` | `ipc/msg.c`; implements `MsgFifo` |
| `KVChannelProofs` | the theorems about `KVChannel`, the refinement included, and their proofs |
| `RocksOps` | requests, answers and what they do to RocksDB |
| `SessionStore` | abstract: a store whose requests take effect when sent, and per client a queue of answers owed |
| `RocksService` | `rocks_handler.c` and `rocks_service.c`; implements `SessionStore` |
| `RocksServiceProofs` | the theorems about `RocksService`, the refinement included, and their proofs |
| `TaskWire` | the events between a backend and the AI engine, and the two directions of a websocket |
| `PipelineClient` | `nr_pipeline`: the main thread and the websocket thread of a call |
| `AIEngine` | the engine's receive loops, senders, dispatchers and builders |
| `BatchStream` | abstract: numbered batches, sent and used in order, and a close that comes last |
| `TaskSession` | the composition of `PipelineClient` and `AIEngine`; implements `BatchStream`; the properties |
| `TaskSessionProofs` | the theorems about `TaskSession` for overlapping sessions, and their proofs |
| `TaskHealthProofs` | the theorems about tasks that run one at a time, until one fails, and their proofs |
| `TaskStreamProofs` | the refinement of `BatchStream`, and its proof |
| `MCNramXact`, `MCKVChannel`, `MCRocksService`, `MCTaskSession` | instances for TLC |

`NramXact` treats the store as atomic puts and gets.  `RocksService` is what
justifies it: its refinement of `SessionStore` says that a request takes effect in
the order of sending, so a put is done for everyone who sends later, even if its
call was cancelled (the action `CancelledPut`).  `RocksService` in turn treats
channels as FIFO queues of messages, which `KVChannel` implements.  All three
refinements of the project are proved.  One link of this chain is weak in the code:
after a cancel a backend can take an older answer for its own (run `stale_answer`).
`NramXact` does not include that; it describes backends none of whose calls was
cancelled before.

### How NramXact corresponds to the code

- `readSet`, `writeSet`: `NRAMXactState.read_set` and `write_set`, as functions
  from keys.  A version keeps the writer's xid, the private mark, and, for the
  row's contents, the set of updates it is built on.
- `scan`: what is left of the results of the range scan; `slot`: the row an
  UPDATE's plan has fetched and not yet replaced, and whether `ExecModifyTable`
  (`src/dbengine/src/backend/executor/nodeModifyTable.c:3869`) has fetched it again.
  `RefetchRow` is that second fetch, through `nram_fetch_row_version`: it locks the
  tuple under a locking policy and records the row unless the transaction has read
  or written it already.  The column an UPDATE assigns is computed from the first
  fetch, so the updates a new version is built on are those of the first.
- `action` is the *index* of a table entry, as the code keeps a pointer into the
  table; `nowait` is `MyProc->rank > 9.8`, which outlives the transaction.
- `tupleS`, `tupleX`, `validS`, `validX`: tuple locks and advisory locks.  The
  relation locks taken with tuple locks never conflict with each other.  An
  advisory lock is named by `Tag(k)`, the key modulo `TagSpace` (2^32 in the code),
  and the write set is sorted by the key: keys may share a lock, which a backend then
  holds until it has put the last of them, and the order of locking is not an order
  of the locks.
- `phase` and `todo`: where the commit callback is, and the keys left in its loop.
- One action per table access method callback; the callback's loops are one
  action per key, since another backend can run between two keys.  A tuple lock
  and the read it protects are one step.  The read set is validated in any
  order (the code uses the order of the list).
- Errors, cancels, lock timeouts and the victims of deadlocks over tuple locks are
  `Abort`, and after validation `LateAbort` and `CancelledPut`.
- `nram_validation_lock` switches the lock timeout off and leaves the deadlock
  detector on.  `DeadlockAbort` is that detector's ERROR for a backend on a cycle of
  advisory locks.
- `clock`, `pos`, `writes`, `reads`, `fate` are history for the properties.

### How KVChannel corresponds to the code

A byte is the message it belongs to and its place in it.  The section under the
LWLock is one step; the test of `is_running` before it, the sleep, the wake-up,
the timeout and the two halves of `TerminateChannel` are steps of their own.
`queue` is history: the messages pushed and not yet popped.  No action tests it;
that what a reader assembles from the bytes is its head is what `IsFifo` says.

### How RocksService corresponds to the code

`svc` is the place in `run_rocks_no_thread`: the loop test, the pop, the
clearing of the result queue, and three ends: `exited` (SIGTERM), `failed` (an
ERROR: the answer exceeds `MSG_SIZE`), `blocked` (the client's channel is full).
A call is a send and a receive, and between them it may be cancelled if it has
slept.  A channel holds a number of messages (`ReqCap`, `RespCap`), where the code's
ring of 32 KB holds a number of bytes.  A client that finds the request channel full
keeps its request in `push` and joins `waiters`, without a timeout; it goes round its
loop again when another push (`Call`) or `Terminate` empties that list, and never
because the service has made room, since a pop wakes nobody (`ipc/msg.c:456`).  A
cancel ends this sleep too (`CancelPush`), and then nothing was sent.  The test of
`is_running` and the section under the lock are one step here; `KVChannel` has them
apart.  Gets are of rows that exist: the access method gets only keys it has
found.  An answer carries the rows asked for that exist, as a set: none for a put,
one for a get.  `rows` and `owed` are history: the store as it will be when all
requests under way are carried out, and the answers each client is still to get.

### How TaskSession corresponds to the code

- `main` is the place in `nr_train` or `nr_inference`: the loops that poll a flag
  of `NrWebsocket`, the fetch loop with the wait for the result after it, and the
  join.  `thread` is the websocket thread; `dequeue` is its wait inside
  `handle_request_data`.  `nr_finetune` takes the same steps as `nr_train`.
- A session is named by its connection: the engine draws a fresh uuid per setup.
- `current` and `queues`: `WebsocketSender.message_queue` and the queues it has
  pointed to, since a sender that waits keeps the queue it took.  `ack_task` goes
  to the connection directly, as in the code.
- `full` is `full_event`, `added` is `current_batch_num`; `requested` counts for the
  properties.  `background_task` is cut where the event loop can run in between:
  after a request, before the test, at the wait, before the reset of the event.
- `builder`: `stage` and `count` are the loops of the ARMNet builder, which end on
  equality; `last` is the last batch taken.
- A coroutine scheduled on the event loop runs in the step that schedules it, and a
  sender's send and its next test of `active` are one step.
- A batch is its number.  `TaskFails` is any exception of a task; it gives an empty
  result, not an error.  `WaitTimeout` is the ten minutes of the dispatcher.

## Runs

| Run | Question | Bounds |
|---|---|---|
| `xact_occ` | does validation hold under the policy `occ`, with every failure, and where can commits wait in a cycle | 2 backends, 2 rows and a key to insert, 2 transactions of 2 statements, 2 lock tags |
| `xact_twopl` | do tuple locks alone prevent lost updates and keep reads stable at READ COMMITTED | 2 backends, 2 rows, index, scan and tid access |
| `xact_live` | does validation hold, and does every commit end, when the policy changes under running transactions | 2 backends, 1 row and 2 keys to insert, 2 statements, 2 lock tags, 1 entry loaded (one that never waits) |
| `lost_update`, `late_abort`, `service_stop` | findings, below | 2 backends, 2 rows, 1 statement |
| `kv_channel` | is the ring a FIFO without lost wake-ups, and does termination end the calls | 2 writers with messages of 1 and 2 bytes, 1 reader, a ring of 3 bytes |
| `rocks_service` | do requests and answers keep their order, do calls return | 2 clients, 4 calls, 1 key, a request channel of 2, answer channels of 1, messages of no row |
| `stale_answer` | finding, below | 1 client, 3 calls |
| `task_session` | does the data of a task arrive completely, in order and at the right session, and does a task end that has asked for all of it | a training and an inference task, one at a time, 10 batches of a table of 11, queue and cache of 2, failing tasks, timeouts |
| `lost_request`, `stale_request` | findings, below | 1 and 2 inference tasks of 2 batches |

The bounds are the smallest at which the cases happen.  Two rows and two
statements give write skew, read skew and two commits that lock two rows each; each
needs two transactions only, and the theorems cover more.  With three keys and two
tags keys 1 and 3 share a lock: a commit of {1, 2} and one of {2, 3} wait for each
other, and a commit of {1, 3} takes one lock for both.  In the other runs every key
has a tag of its own.  A ring of 3 bytes with messages
of 1 and 2 wraps around, fills up and empties.  A channel of one answer is full
after one cancelled call, and a request channel of two after a cancelled call and one
under way, so that a client sleeps on it (one more cancel or client is needed for
each message that fits).  With messages of no row a range scan that finds a row
fails the service.  Ten batches are the fewest for which the three stages
of a training all get one (`_get_n_batches_train_eval_test`); a table of 11 makes
the fetch loop end by its count; queues of 2 fill up and run empty.  `MaxOpen` is
1 in the passing run: with two sessions at a time `OwnEvents` fails within eight
steps, because a new connection replaces the message queue of all.
`OpenAfterFailure` is FALSE there: what a failed task does to the next one is the
run `stale_request`.  Deadlock checking is off: the numbers of transactions
and calls and tasks are bounded, tuple locks can deadlock (PostgreSQL breaks that with an
abort), and a stopped service leaves clients waiting.

Fairness: a backend in the commit callback runs on (`CommitStep`: the callback has
no step that waits for the user, and the lock manager wakes waiters and looks for
deadlocks); a process in a channel call and `TerminateChannel` run on; the service's
loop runs on and a client whose answer has arrived takes it.  Statements, cancels
and failures have none.  `RetriedUnderTraffic` is conditional on other writers,
because nothing else wakes a writer, and `StoppedCallsEnd` on a call that sleeps or
has a timeout, because the broadcast of `TerminateChannel` does not take the lock.
`CallsReturn` says that a call ends or is asleep on the full request channel, while
the service is not stopped, failed or blocked.  The exception is the code's: nothing
wakes that sleeper unless another client sends.  What can be said of it is
`OnlyCrowdsSleep`: it takes more clients and cancelled calls than requests fit.  A
client that was woken goes round its loop (`Retry`).  In `TaskSession` each thread,
each receive loop, each sender and each builder runs on: the threads are the
operating system's, and the event loop serves its coroutines in turn.  Failures,
timeouts and the start of a task have no fairness.  `ServedTasksEnd` is conditional
on the last request having been made, because the code does not guarantee that (run
`lost_request`).

`PROJECT.json` names for each property a mutation of a mapped definition that
violates it; the mutated forms stand next to the originals in the modules.

## What the runs found

- `lost_update`: under the default policy an UPDATE of a SERIALIZABLE transaction
  can overwrite the committed update of another.  If the other transaction commits
  between the plan's fetch and that of `ExecModifyTable`, the new value is computed
  from the old row, which is not recorded (`nram.c:284`), and the row that is
  recorded (`nram.c:570`) is the new one, which validation finds unchanged.  The
  manual (`mvcc.sgml:92`) promises an effect as if the transactions had run one at a
  time.  Where both UPDATEs run before either commits, the second commit fails its
  validation, as it should.
- `late_abort`: an abort after validation leaves writes in the store (`xact.c:381`).
- `service_stop`: the commit callback ignores failed puts (`xact.c:371`).
- `stale_answer`: a get can return the row of an earlier, cancelled get
  (`rocks_handler.c:102`).
- `lost_request`: a task can wait for ever for a batch that was never asked for
  (`data_dispatcher.py:99` and `:118`): the dispatcher tests the cache after it has
  emitted a request, with a bound that counts the answer as still under way.
- `stale_request`: the dispatcher of a failed task survives the disconnect and takes
  a batch from the next session (`server.py:117`, `ws.py:14`).

## Proofs

`NramXactProofs` proves for all constants that satisfy the assumptions of
`NramPolicy` and `NramXact`, so for any number of backends, rows, transactions,
any policy and any failures:

- `InvariantHolds`: `Spec => []IInv`;
- `TypeCorrect`: `Spec => []TypeOK`;
- `ValidationIsSerial`: `Spec => []SerialReads`;
- `OnlyCollisionsDeadlock`: `Spec => []DeadlockNeedsCollision`;
- `ReadsAreValidated`: `Spec => []NoDirtyRead`.

The argument for `SerialReads`.  A transaction's position is taken when its
write set is locked.  A key is *pending* from then until its writer has put it.
`LockInv` says that a pending key is locked exclusively by its writer alone, so
nobody can hold the share lock that validation takes.  `StoreInv` says that the
visible version of a row is the installed one with the largest position, and
that a pending write has a position after all installed ones.  Hence, when a
validating transaction holds the share lock and finds the version it has read,
that version is the last one before its own position, and any write that comes
later will have a later position: it was not pending, so its writer has not
locked it.  `ReadInv` carries this to the commit.  `SetInv` and `OwnInv` say
where the read versions came from: they were installed when read, because the
private mark hides what is not.  `XidInv` keeps transactions apart.  None of
these parts is inductive alone.  The proof has a lemma per group of actions with
the same effect on the core variables (`FetchInv`, `WriteInv`, `LockPhaseInv`,
`ValidateInv`, `WriteSetLockedInv`, `InstallInv`, `LeaveInv`, ...).

`DeadlockNeedsCollision` says that commits wait for each other in a cycle only if two
of them write different rows with the same tag.  It holds for every `TagSpace`.  The
argument (`BlockerIsAhead`): a backend that holds a lock for which another waits holds
it for a key of its own write set with that tag; if no two rows collide, that is the
awaited key itself, and since the blocker locks in key order, the key *it* waits for is
larger.  On a cycle there would be no smallest awaited key (`LeastNat`).  For tags
as wide as keys the hypothesis is never met and no cycle exists; for the 32 bits of the
code it can be met, the run reaches it, and `CommitEnds` then rests on the deadlock
detector.

`NramTwoPLProofs` proves, for policies all of whose entries, the later ones
included, take tuple locks and wait for them (`LockingPolicy`; the built-in policy
`2pl` is one), at every isolation level and for all failures:

- `LockingInvariant`: `Spec => [](IInv /\ TwoPLInv)`;
- `LockingLosesNoUpdate`: `Spec => []NoLostUpdate`;
- `LockingReadsRepeat`: `Spec => []LockedReadsStable`.

Without the hypothesis `NoLostUpdate` fails, as the run `lost_update` shows.
`LockingInv` says that the policy in force locks, `HeldInv` that a transaction
holds a tuple lock on every row it has read and the exclusive one on every row it
will write, from the statement to the end of the transaction, and that an
exclusive lock excludes all others; `SeenInv` follows the row from which an UPDATE's
plan computes its new values, which no validation covers.
Then the version in the store can change under a reader only by the reader's own
put.

`KVChannelProofs` proves for every size of the ring, of the header and of the
messages, and any number of readers and writers:

- `ChannelInvariant`: `Spec => []IInv`;
- `ChannelTyped`: `Spec => []TypeOK`;
- `NoWakeupLost`: `Spec => []NoMissedMessage`;
- `ChannelRefinesFifo`: `Spec => IsFifo`.

`RingInv` is the heart of it: there are offsets, one per message in `queue`, such
that the messages lie one after the other from `head` and fill the used part, byte
for byte.  A push writes behind them, into bytes no message uses, because a
position is reached from `head` over one distance only (`AtInjective`) and `Space`
leaves one byte free; a pop reads the header and the entity of the first one,
across the end of the buffer or not (`AtTwice`).  The remainders of the code are
reduced to one comparison by `ModOnce`.  `NoMissedMessage` needs the ring too: a
reader sleeps when less than a header is there, and that means nothing is.

`RocksServiceProofs` proves for any number of clients, keys, calls and any sizes:

- `ServiceInvariant`: `Spec => []IInv`;
- `ServiceTyped`: `Spec => []TypeOK`;
- `OnlyCancelsBlock`: `Spec => []OnlyCancelsLeaveAnswers`;
- `OnlyCrowdsFill`: `Spec => []OnlyCrowdsSleep`;
- `ServiceRefinesStore`: `Spec => IsSessionStore`.

`LinkInv` links the queues to the history: a chain of stores leads from RocksDB over
the requests in the channel to `rows` (`Chain`), and what a client is owed is first
what its channel holds, in that order, and then what is ready or will be the answer
of a request (`Delivery`).  That the service sends the *next* answer owed follows
from `OrderInv`: calls are numbered as they are sent, the result queue holds one
answer at most, and all requests behind it are younger.  `CountInv` bounds what is
owed by the cancelled calls and the one under way; `OutstandingCount` shows that
this counts the messages themselves.  These parts are `CoreInv`; `PushInv` adds that
a client inside a push waits for no answer and that a get among these requests will
find its row.  `OnlyCrowdsSleep` then needs that a full channel is a crowd:
`RequestsBounded` maps the requests in the channel one to one to cancelled calls and
to clients other than the one that sleeps.  In the refinement a call is `Send`, once
there is room for it, a return is `Receive`, a cancel is `Forget`, and all steps of
the service are stutters.

`TaskSessionProofs` proves for any number of sessions, overlapping or not, any
number of batches, any sizes and any failures:

- `FlowControlHolds`: `Spec => []FlowControl`;
- `SessionInvariant`: `Spec => []TypeInv`;
- `SessionTyped`: `Spec => []TypeOK`.

`FlowControl` (no more requests than batches, and at most one ahead of the cache)
is not inductive: what a request may add depends on where the dispatcher's thread
is.  `FlowInv` adds that a dispatcher which waits has left room for one more
request (the `- 1` of `time_to_stop`), and that a set event stands for a batch
whose successor has not been asked for.  The receive loop and the dispatcher's
thread each have a lemma; all other steps leave the four variables alone.

`TypeOK` of the sessions is not inductive either.  A batch event carries the id the
backend was given, so `SessionIds` says that a backend past its setup has one and
that a builder which runs has a session.  The ids of the message queues are bounded
by twice the number of connections only if every backend disconnects once:
`QueuesMade` counts them by the connections accepted and those that hung up.

`TaskHealthProofs` proves, for any number of sessions and batches and any sizes, if
tasks run one at a time (`MaxOpen <= 1`):

- `HealthyPhases`: `Spec => []HealthInv`;
- `HealthyEventsAreOwn`: `Spec => []HealthyOwnEvents`;
- `WaitedBatchComes`: `Spec => []BatchComes`, if the table holds the batches of the
  task (`NBatches <= TableBatches`).

All three speak of states in which no task has failed.  `PhaseInv` gives every
session a phase (idle, connecting, setting up, starting, working, closing, done) and
says in each where its messages are: at most one is under way, with the
acknowledgement of the task in front of the first request.  It is proved with one
lemma per action; `LocalStep` reduces each to the one session that runs.  The
queue that all senders share is harmless then, because it is the queue of that
session (`Served`), and a dispatcher that on_disconnect leaves running has no request
left, by `FlowInv`: a session closes after `NBatches` requests.  Both hypotheses are
needed.  With two sessions a new connection replaces the queue of the first, and
`OwnEvents` fails.  With a short table the websocket thread waits for ever inside
`handle_request_data`.

`TaskStreamProofs` proves, if also no task is started after one has failed
(`~OpenAfterFailure`):

- `BatchesStayInOrder`: `Spec => []StreamInv`;
- `TasksRefineStream`: `Spec => IsBatchStream`.

The batches of the abstract stream are those in the cache, on the websocket and in
the queue of the backend, one after the other (`InTransit`); the lemmas
`TransitFed`, `TransitSent`, `TransitCached` and `TransitUsed` say what each move
does to that sequence.  `StreamInv` says, as long as no task has failed, that these
batches follow one another from the last one used (`Ordered`): so the builder takes
the next one, and a result, which comes after `NBatches` batches, means that the last
one was number `NBatches`.  After a failure it says that only the failed session goes
on, that it keeps its id and sends nothing but its own batches until its backend hangs
up (`FailInv`); the phases no longer hold there.  The restriction is the one of the run:
`stale_request` shows the batch that a task started after a failure loses.

Every invariant and every refinement that a run checks is proved.  Model-checked
only: everything with fairness, which is out of the prover's reach (`CommitEnds`,
`RetriedUnderTraffic`, `StoppedCallsEnd`, `CallsReturn`, `ServedTasksEnd`).

## Not modelled

Subtransactions and nested statements; rescan; the tid generator and the
serialisation; `run_rocks` with its thread pool (no caller starts it); lock
timeouts as times; the wait queue's order; phantoms (the code does not protect
ranges); crashes of the server; `KVChannelPop` of raw bytes (tests only);
`kv_close` (no client sends it).

Of the task sessions: a lost connection (neither side handles it: the backend's
main thread polls on), a second epoch (the fetch loop then reads the table of a
MOVE, which has none; the engine takes its own number of epochs from its
configuration), the models and their storage, the encoding of batches, memory
(`ws->result` is read after `ws` is freed).

All other extensions, and PostgreSQL itself: the reasons are in `PROJECT.json`.

## Plan

1. Done: policy, transactions, channel, client and service, task sessions, and the
   theorems above.
2. The tid generator and the key encoding: reuse of tids across backends.
3. The lock wait queue ordered by rank, composed with `NramXact`; command stack and
   savepoints in `NramXact`.
4. The IPC of nr_store with its worker pool.
