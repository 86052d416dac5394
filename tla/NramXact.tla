------------------------------ MODULE NramXact ------------------------------
(***************************************************************************)
(* Transactions of the NRAM table access method (nr_am): statements that   *)
(* read and write rows of a RocksDB store through per-transaction read and *)
(* write sets (nram.c), tuple locks when the policy asks for them, and the *)
(* commit callback that locks the write set, validates the read set and    *)
(* installs the writes (nram_xact/xact.c).                                 *)
(*                                                                         *)
(* The store is the RocksDB service as its clients see it: a put or a get  *)
(* of one key is atomic, a range scan reads a snapshot.  The lock manager, *)
(* the executor and the commit of the transaction itself are PostgreSQL.   *)
(***************************************************************************)
EXTENDS NramPolicy, FiniteSets

CONSTANTS
    Backends,       \* the backend processes
    Keys,           \* the tids of the rows of a table, ordered as nram_opt_cmp does
    TagSpace,       \* the number of advisory lock tags: 2^32 in the code
    InitialKeys,    \* the rows that exist when the first transaction begins
    Isolations,     \* the isolation levels in use, of {"RC", "SER"}
    Commands,       \* the statements in use, of {"SELECT", "UPDATE", "INSERT"}
    AccessPaths,    \* the plans in use, of {"index", "scan", "tid"}
    MaxXid,         \* bound: the number of transactions
    MaxStatements,  \* bound: the number of statements of a transaction
    MaxLoads,       \* bound: the number of policy entries loaded
    Failures,       \* the failures in use, of {"abort", "late_abort", "service_stop"}
    NoValue         \* stands for a NULL pointer

Xids    == 1 .. MaxXid
Xids0   == 0 .. MaxXid      \* 0 is the transaction that loaded InitialKeys

\* NRAMValueData: the writer's id, the NRAMF_PRIVATE flag, and for the row's
\* data the set of updates it is built on: every UPDATE computes the column it
\* assigns from the row that its plan has fetched, as in SET n = n + 1, so the
\* set tells whether an update was lost.
Version == [xid: Xids0, priv: BOOLEAN, seen: SUBSET Xids0]

\* The row an UPDATE works on: what its plan has fetched, and whether the
\* executor has fetched the row to be replaced again.
Planned == [key: Keys, ver: Version, refetched: BOOLEAN]

\* SET_LOCKTAG_ADVISORY keeps 32 of the 48 bits of a tid.  Tids of one backend
\* that are 2^16 apart in its counter share a lock.
Tags == 0 .. TagSpace - 1

Tag(k) == k % TagSpace

ASSUME XactAssumption ==
    /\ Keys \subseteq Nat /\ Keys # {}
    /\ TagSpace \in Nat \ {0}
    /\ InitialKeys \subseteq Keys
    /\ Isolations \subseteq {"RC", "SER"}
    /\ Commands \subseteq {"SELECT", "UPDATE", "INSERT"}
    /\ AccessPaths \subseteq {"index", "scan", "tid"}
    /\ MaxXid \in Nat /\ MaxLoads \in Nat /\ MaxStatements \in Nat
    /\ Failures \subseteq {"abort", "late_abort", "service_stop"}
    /\ NoValue \notin Version /\ NoValue \notin Xids0
    /\ NoValue \notin Planned
    /\ NoValue \notin FeatureId

VARIABLES
    store,      \* the RocksDB contents
    serving,    \* is the Rocks service alive
    nextXid,    \* the next transaction id
    loads,      \* the number of policy entries loaded so far
    phase,      \* where each backend is, see Phases
    xid,        \* NRAMXactState.xact_id
    iso,        \* the isolation level
    cmd,        \* NRAMXactState.cur_cmdtype
    op,         \* feature->cur_op
    nAccess,    \* feature->n_access
    action,     \* NRAMXactState.action: the entry of agent it points to
    nowait,     \* MyProc->rank > 9.8, kept from one transaction to the next
    readSet,    \* NRAMXactState.read_set
    writeSet,   \* NRAMXactState.write_set
    scan,       \* the results of the range scan not yet returned
    slot,       \* the row an UPDATE has fetched and not yet replaced
    tupleS,     \* the holders of a ShareLock on each tuple
    tupleX,     \* the holders of an ExclusiveLock on each tuple
    validS,     \* the holders of a ShareLock on each advisory lock
    validX,     \* the holders of an ExclusiveLock on each advisory lock
    todo,       \* the keys left in the loop of the commit callback
    \* The history, for stating properties; no action tests it.
    clock,      \* the number of transactions that have locked their write set
    pos,        \* the position of each of them in that order, or 0
    writes,     \* the keys each has installed or is about to install
    reads,      \* the writer of each version it must validate
    fate        \* how each transaction ended

sessionVars == <<phase, xid, iso, cmd, op, nAccess, action, nowait>>
setVars     == <<readSet, writeSet, scan, slot>>
lockVars    == <<tupleS, tupleX, validS, validX>>
histVars    == <<clock, pos, writes, reads, fate>>
vars == <<agent, store, serving, nextXid, loads, todo, sessionVars, setVars,
          lockVars, histVars>>

\* "active": between BEGIN and COMMIT.  The rest is nram_xact_callback on
\* XACT_EVENT_PRE_COMMIT: "lock" and "wait" in the loop over the write set,
\* "validate" and "peek" in the loop over the read set, "install" in the last
\* loop, "done" when the callback has returned and the commit record is not
\* yet written.
CommitPhases == {"lock", "wait", "validate", "peek", "install", "done"}
Phases       == {"idle", "active"} \union CommitPhases

NoKeys == [k \in Keys |-> NoValue]

Init ==
    /\ PolicyInit
    /\ store = [k \in Keys |-> IF k \in InitialKeys
                               THEN [xid |-> 0, priv |-> FALSE, seen |-> {0}]
                               ELSE NoValue]
    /\ serving = TRUE
    /\ nextXid = 1
    /\ loads = 0
    /\ phase = [b \in Backends |-> "idle"]
    /\ xid = [b \in Backends |-> 0]
    /\ iso = [b \in Backends |-> "RC"]
    /\ cmd = [b \in Backends |-> "none"]
    /\ op = [b \in Backends |-> READ_OPT]
    /\ nAccess = [b \in Backends |-> 0]
    /\ action = [b \in Backends |-> NoValue]
    /\ nowait = [b \in Backends |-> FALSE]
    /\ readSet = [b \in Backends |-> NoKeys]
    /\ writeSet = [b \in Backends |-> NoKeys]
    /\ scan = [b \in Backends |-> NoKeys]
    /\ slot = [b \in Backends |-> NoValue]
    /\ tupleS = [k \in Keys |-> {}]
    /\ tupleX = [k \in Keys |-> {}]
    /\ validS = [t \in Tags |-> {}]
    /\ validX = [t \in Tags |-> {}]
    /\ todo = [b \in Backends |-> {}]
    /\ clock = 0
    /\ pos = [x \in Xids0 |-> 0]
    /\ writes = [x \in Xids0 |-> IF x = 0 THEN InitialKeys ELSE {}]
    /\ reads = [x \in Xids0 |-> NoKeys]
    /\ fate = [x \in Xids0 |-> IF x = 0 THEN "committed" ELSE "none"]

-----------------------------------------------------------------------------
(* Helpers. *)

ReadKeys(b)  == {k \in Keys : readSet[b][k] # NoValue}
WriteKeys(b) == {k \in Keys : writeSet[b][k] # NoValue}

IsFirstUnsorted(k, S) == k \in S

\* k comes first when the keys of S are taken in nram_opt_cmp's order.
IsFirst(k, S) == k \in S /\ \A j \in S : k <= j

\* read_own_write, then read_own_read.
Own(b, k) == IF writeSet[b][k] # NoValue THEN writeSet[b][k] ELSE readSet[b][k]

VisibleAlways(b, v) == TRUE

\* nram_value_check_visibility.
Visible(b, v) == v.xid = xid[b] \/ ~v.priv

ForRead(b)   == cmd[b] = "SELECT"
ForModify(b) == cmd[b] \in {"UPDATE", "INSERT"}

\* state->action->detect_all: action points into the shared table, so a policy
\* loaded meanwhile takes effect at the next test.
DetectAll(b) == agent[action[b]].detect_all

\* Would the lock manager grant the tuple lock at once?  (The relation locks
\* that are taken with it never conflict with each other.)
Grantable(b, k, mode) ==
    /\ tupleX[k] \subseteq {b}
    /\ mode = "X" => tupleS[k] \subseteq {b}

\* LockTuple.  A conflicting request waits; with a rank above 9.8 LockAcquire
\* gives up instead, and LockTuple drops the result that says so.
LockTuple(b, k, mode) ==
    \/ /\ Grantable(b, k, mode)
       /\ tupleS' = IF mode = "S" THEN [tupleS EXCEPT ![k] = @ \union {b}] ELSE tupleS
       /\ tupleX' = IF mode = "X" THEN [tupleX EXCEPT ![k] = @ \union {b}] ELSE tupleX
    \/ /\ ~Grantable(b, k, mode)
       /\ nowait[b]
       /\ UNCHANGED <<tupleS, tupleX>>

NoTupleLock == UNCHANGED <<tupleS, tupleX>>

\* The executor has fetched the row again and is about to replace it.
Replacing(b) == slot[b] # NoValue /\ slot[b].refetched

\* Leave the transaction: clear_nram_xact, and LockReleaseAll in PostgreSQL.
EndXact(b) ==
    /\ phase' = [phase EXCEPT ![b] = "idle"]
    /\ xid' = [xid EXCEPT ![b] = 0]
    /\ iso' = [iso EXCEPT ![b] = "RC"]
    /\ cmd' = [cmd EXCEPT ![b] = "none"]
    /\ op' = [op EXCEPT ![b] = READ_OPT]
    /\ nAccess' = [nAccess EXCEPT ![b] = 0]
    /\ action' = [action EXCEPT ![b] = NoValue]
    /\ readSet' = [readSet EXCEPT ![b] = NoKeys]
    /\ writeSet' = [writeSet EXCEPT ![b] = NoKeys]
    /\ scan' = [scan EXCEPT ![b] = NoKeys]
    /\ slot' = [slot EXCEPT ![b] = NoValue]
    /\ todo' = [todo EXCEPT ![b] = {}]
    /\ tupleS' = [k \in Keys |-> tupleS[k] \ {b}]
    /\ tupleX' = [k \in Keys |-> tupleX[k] \ {b}]
    /\ validS' = [t \in Tags |-> validS[t] \ {b}]
    /\ validX' = [t \in Tags |-> validX[t] \ {b}]
    /\ UNCHANGED nowait

\* XACT_EVENT_ABORT.  Nothing that was put into RocksDB is undone.
AbortXact(b) ==
    /\ EndXact(b)
    /\ writes' = [writes EXCEPT ![xid[b]] =
                     IF phase[b] \in {"install", "done"} THEN @ \ todo[b] ELSE {}]
    /\ fate' = [fate EXCEPT ![xid[b]] = "aborted"]
    /\ UNCHANGED <<agent, store, serving, nextXid, loads, clock, pos, reads>>

-----------------------------------------------------------------------------
(* Statements. *)

\* BEGIN, and refresh_nram_xact at the first access.
Begin(b, i) ==
    /\ phase[b] = "idle"
    /\ nextXid <= MaxXid
    /\ phase' = [phase EXCEPT ![b] = "active"]
    /\ xid' = [xid EXCEPT ![b] = nextXid]
    /\ iso' = [iso EXCEPT ![b] = i]
    /\ nextXid' = nextXid + 1
    /\ fate' = [fate EXCEPT ![nextXid] = "running"]
    /\ UNCHANGED <<agent, store, serving, loads, cmd, op, nAccess, action, nowait,
                   todo, setVars, lockVars, clock, pos, writes, reads>>

\* nram_ExecutorStart and before_access.
ExecutorStart(b, c) ==
    LET first == action[b] = NoValue
        op1   == IF ~first /\ c \in {"UPDATE", "INSERT"} THEN UPDATE_OPT ELSE op[b]
        n1    == IF first THEN 0 ELSE nAccess[b] + 1
    IN  /\ phase[b] = "active"
        /\ cmd[b] = "none"
        /\ n1 < MaxStatements
        /\ cmd' = [cmd EXCEPT ![b] = c]
        /\ op' = [op EXCEPT ![b] = op1]
        /\ nAccess' = [nAccess EXCEPT ![b] = n1]
        /\ action' = [action EXCEPT ![b] = EncodeFeature(op1, n1)]
        /\ nowait' = [nowait EXCEPT ![b] = agent[EncodeFeature(op1, n1)].nowait]
        /\ UNCHANGED <<agent, store, serving, nextXid, loads, phase, xid, iso,
                       todo, setVars, lockVars, histVars>>

\* nram_ExecutorEnd.
ExecutorEnd(b) ==
    /\ phase[b] = "active"
    /\ cmd[b] # "none"
    /\ ~Replacing(b)
    /\ cmd' = [cmd EXCEPT ![b] = "none"]
    /\ scan' = [scan EXCEPT ![b] = NoKeys]
    /\ slot' = [slot EXCEPT ![b] = NoValue]
    /\ UNCHANGED <<agent, store, serving, nextXid, loads, phase, xid, iso, op,
                   nAccess, action, nowait, readSet, writeSet, todo, lockVars,
                   histVars>>

\* What a plan does with the version v of row k it has fetched: an UPDATE may
\* go on to replace the row, and if `record' holds the version enters the read
\* set (add_read_set).
Fetched(b, k, v, record) ==
    /\ slot' = IF cmd[b] = "UPDATE"
               THEN [slot EXCEPT ![b] = [key |-> k, ver |-> v, refetched |-> FALSE]]
               ELSE slot
    /\ readSet' = IF record THEN [readSet EXCEPT ![b][k] = v] ELSE readSet

FetchFrame == UNCHANGED <<agent, store, serving, nextXid, loads, todo, sessionVars,
                          writeSet, validS, validX, histVars>>

CanFetch(b, path) ==
    /\ path \in AccessPaths
    /\ phase[b] = "active"
    /\ cmd[b] \in {"SELECT", "UPDATE"}
    /\ ~Replacing(b)

\* nram_index_fetch_tuple that leaves the lock of an UPDATE to the later steps.
IndexFetchTupleUnlocked(b, k) ==
    /\ CanFetch(b, "index")
    /\ store[k] # NoValue
    /\ \/ /\ Own(b, k) # NoValue
          /\ Fetched(b, k, Own(b, k), FALSE)
          /\ NoTupleLock
       \/ /\ Own(b, k) = NoValue
          /\ serving
          /\ IF DetectAll(b) /\ ForRead(b) THEN LockTuple(b, k, "S") ELSE NoTupleLock
          /\ IF Visible(b, store[k]) THEN Fetched(b, k, store[k], ForRead(b))
                                     ELSE UNCHANGED <<slot, readSet>>
    /\ UNCHANGED scan
    /\ FetchFrame

\* nram_index_fetch_tuple, for a row the index points to.
IndexFetchTuple(b, k) ==
    /\ CanFetch(b, "index")
    /\ store[k] # NoValue
    /\ \/ /\ Own(b, k) # NoValue
          /\ Fetched(b, k, Own(b, k), FALSE)
          /\ NoTupleLock
       \/ /\ Own(b, k) = NoValue
          /\ serving
          /\ IF DetectAll(b) THEN LockTuple(b, k, IF ForModify(b) THEN "X" ELSE "S")
                             ELSE NoTupleLock
          /\ IF Visible(b, store[k]) THEN Fetched(b, k, store[k], ForRead(b))
                                     ELSE UNCHANGED <<slot, readSet>>
    /\ UNCHANGED scan
    /\ FetchFrame

\* nram_fetch_row_version, called by a plan that selects rows by their tid: the
\* tuple is locked before the sets are consulted, and the version is recorded
\* whatever the statement.
FetchRowVersion(b, k) ==
    /\ CanFetch(b, "tid")
    /\ store[k] # NoValue
    /\ IF DetectAll(b) THEN LockTuple(b, k, IF ForModify(b) THEN "X" ELSE "S")
                       ELSE NoTupleLock
    /\ \/ /\ Own(b, k) # NoValue
          /\ Fetched(b, k, Own(b, k), FALSE)
       \/ /\ Own(b, k) = NoValue
          /\ serving
          /\ IF Visible(b, store[k]) THEN Fetched(b, k, store[k], TRUE)
                                     ELSE UNCHANGED <<slot, readSet>>
    /\ UNCHANGED scan
    /\ FetchFrame

\* nram_beginscan: the range of the table is read from a snapshot.
BeginScan(b) ==
    /\ CanFetch(b, "scan")
    /\ serving
    /\ scan[b] = NoKeys
    /\ scan' = [scan EXCEPT ![b] = store]
    /\ NoTupleLock
    /\ UNCHANGED <<slot, readSet>>
    /\ FetchFrame

\* nram_getnextslot without the reload.
GetNextSlotStale(b, k) ==
    /\ CanFetch(b, "scan")
    /\ IsFirst(k, {j \in Keys : scan[b][j] # NoValue})
    /\ IF Own(b, k) = NoValue /\ DetectAll(b) THEN LockTuple(b, k, "S") ELSE NoTupleLock
    /\ IF Own(b, k) # NoValue THEN Fetched(b, k, Own(b, k), FALSE)
                              ELSE Fetched(b, k, scan[b][k], ForRead(b))
    /\ scan' = [scan EXCEPT ![b][k] = NoValue]
    /\ FetchFrame

\* nram_getnextslot.  A locking statement reloads the row after it has locked it.
GetNextSlot(b, k) ==
    /\ CanFetch(b, "scan")
    /\ IsFirst(k, {j \in Keys : scan[b][j] # NoValue})
    /\ \/ /\ Own(b, k) # NoValue
          /\ Fetched(b, k, Own(b, k), FALSE)
          /\ NoTupleLock
       \/ /\ Own(b, k) = NoValue
          /\ Visible(b, scan[b][k])
          /\ \/ /\ DetectAll(b)
                /\ serving
                /\ LockTuple(b, k, "S")
                /\ Fetched(b, k, store[k], ForRead(b))
             \/ /\ ~DetectAll(b)
                /\ NoTupleLock
                /\ Fetched(b, k, scan[b][k], ForRead(b))
       \/ /\ Own(b, k) = NoValue
          /\ ~Visible(b, scan[b][k])
          /\ NoTupleLock
          /\ UNCHANGED <<slot, readSet>>
    /\ scan' = [scan EXCEPT ![b][k] = NoValue]
    /\ FetchFrame

\* The row an UPDATE is about to replace has been fetched by its plan only.
CanRefetch(b) ==
    /\ phase[b] = "active"
    /\ slot[b] # NoValue
    /\ ~slot[b].refetched

\* ExecModifyTable fetches the most recent version of the row that an UPDATE
\* replaces, through nram_fetch_row_version: it locks and records it as above.
\* The columns that are not assigned come from this version; the assigned one
\* was computed by the plan.
RefetchRow(b) ==
    /\ CanRefetch(b)
    /\ LET k == slot[b].key IN
        /\ IF DetectAll(b) THEN LockTuple(b, k, "X") ELSE NoTupleLock
        /\ \/ /\ Own(b, k) # NoValue
              /\ UNCHANGED readSet
           \/ /\ Own(b, k) = NoValue
              /\ serving
              /\ store[k] # NoValue
              /\ Visible(b, store[k])
              /\ readSet' = [readSet EXCEPT ![b][k] = store[k]]
    /\ slot' = [slot EXCEPT ![b].refetched = TRUE]
    /\ UNCHANGED scan
    /\ FetchFrame

\* The same when it finds no row: "failed to fetch tuple being updated".
RefetchFailed(b) ==
    /\ CanRefetch(b)
    /\ LET k == slot[b].key IN
        /\ DetectAll(b) => Grantable(b, k, "X") \/ nowait[b]
        /\ Own(b, k) = NoValue
        /\ ~(serving /\ store[k] # NoValue /\ Visible(b, store[k]))
    /\ AbortXact(b)

\* nram_tuple_update: the new row goes to the write set.
TupleUpdate(b) ==
    /\ phase[b] = "active"
    /\ Replacing(b)
    /\ LET k == slot[b].key IN
        /\ IF writeSet[b][k] = NoValue /\ DetectAll(b) THEN LockTuple(b, k, "X")
                                                       ELSE NoTupleLock
        /\ writeSet' = [writeSet EXCEPT ![b][k] =
                           [xid  |-> xid[b], priv |-> FALSE,
                            seen |-> slot[b].ver.seen \union {xid[b]}]]
    /\ slot' = [slot EXCEPT ![b] = NoValue]
    /\ UNCHANGED <<agent, store, serving, nextXid, loads, todo, sessionVars,
                   readSet, scan, validS, validX, histVars>>

\* nram_insert without "tvalue->flags &= ~NRAMF_PRIVATE".
InsertStillPrivate(b, k) ==
    /\ phase[b] = "active"
    /\ cmd[b] = "INSERT"
    /\ serving
    /\ store[k] = NoValue
    /\ IF DetectAll(b) THEN LockTuple(b, k, "X") ELSE NoTupleLock
    /\ store' = [store EXCEPT ![k] = [xid |-> xid[b], priv |-> TRUE, seen |-> {xid[b]}]]
    /\ writeSet' = [writeSet EXCEPT ![b][k] =
                       [xid |-> xid[b], priv |-> TRUE, seen |-> {xid[b]}]]
    /\ UNCHANGED <<agent, serving, nextXid, loads, todo, sessionVars, readSet,
                   scan, slot, validS, validX, histVars>>

\* nram_insert, nram_multi_insert: the row is put into the store marked private,
\* under a key nram_generate_tid has not handed out before.
Insert(b, k) ==
    /\ phase[b] = "active"
    /\ cmd[b] = "INSERT"
    /\ serving
    /\ store[k] = NoValue
    /\ IF DetectAll(b) THEN LockTuple(b, k, "X") ELSE NoTupleLock
    /\ store' = [store EXCEPT ![k] = [xid |-> xid[b], priv |-> TRUE, seen |-> {xid[b]}]]
    /\ writeSet' = [writeSet EXCEPT ![b][k] =
                       [xid |-> xid[b], priv |-> FALSE, seen |-> {xid[b]}]]
    /\ UNCHANGED <<agent, serving, nextXid, loads, todo, sessionVars, readSet,
                   scan, slot, validS, validX, histVars>>

-----------------------------------------------------------------------------
(* nram_xact_callback on XACT_EVENT_PRE_COMMIT. *)

CommitFrame == UNCHANGED <<agent, serving, nextXid, loads, xid, iso, cmd, op,
                           nAccess, action, nowait, setVars, tupleS, tupleX>>

PreCommit(b) ==
    /\ phase[b] = "active"
    /\ cmd[b] = "none"
    /\ phase' = [phase EXCEPT ![b] = "lock"]
    /\ todo' = [todo EXCEPT ![b] = WriteKeys(b)]
    /\ UNCHANGED <<store, validS, validX, histVars>>
    /\ CommitFrame

\* Another backend holds the advisory lock t, or waits for it in a mode that
\* conflicts with both of ours.
HeldByOther(b, t) == ~(validX[t] \subseteq {b} /\ validS[t] \subseteq {b})
Awaited(b, t) == \E c \in Backends \ {b}, k \in Keys :
                    phase[c] = "wait" /\ IsFirst(k, todo[c]) /\ Tag(k) = t

\* LockAcquire must join the wait queue.  It need not for a lock that it holds
\* already, which it counts once more.
MustWait(b, t) == b \notin validX[t] /\ (HeldByOther(b, t) \/ Awaited(b, t))

\* nram_validation_lock with ExclusiveLock, granted at once.
ValidationLock(b, k) ==
    /\ phase[b] = "lock"
    /\ IsFirst(k, todo[b])
    /\ ~MustWait(b, Tag(k))
    /\ validX' = [validX EXCEPT ![Tag(k)] = @ \union {b}]
    /\ todo' = [todo EXCEPT ![b] = @ \ {k}]
    /\ UNCHANGED <<store, phase, validS, histVars>>
    /\ CommitFrame

\* The same, when the request must join the wait queue.
ValidationWait(b, k) ==
    /\ phase[b] = "lock"
    /\ IsFirst(k, todo[b])
    /\ MustWait(b, Tag(k))
    /\ ~nowait[b]
    /\ phase' = [phase EXCEPT ![b] = "wait"]
    /\ UNCHANGED <<store, todo, validS, validX, histVars>>
    /\ CommitFrame

\* The lock manager grants the awaited lock.
ValidationGrant(b, k) ==
    /\ phase[b] = "wait"
    /\ IsFirst(k, todo[b])
    /\ ~HeldByOther(b, Tag(k))
    /\ validX' = [validX EXCEPT ![Tag(k)] = @ \union {b}]
    /\ todo' = [todo EXCEPT ![b] = @ \ {k}]
    /\ phase' = [phase EXCEPT ![b] = "lock"]
    /\ UNCHANGED <<store, validS, histVars>>
    /\ CommitFrame

\* The same request refused because of the rank: an ERROR.
ValidationRefused(b, k) ==
    /\ phase[b] = "lock"
    /\ IsFirst(k, todo[b])
    /\ MustWait(b, Tag(k))
    /\ nowait[b]
    /\ AbortXact(b)

\* d holds the advisory lock that c waits for.
Blocks(d, c) ==
    /\ d # c
    /\ phase[c] = "wait"
    /\ \E k \in Keys : IsFirst(k, todo[c]) /\ d \in validX[Tag(k)] \union validS[Tag(k)]

\* b is on a cycle of waiting backends: in a set whose members each wait for one
\* of them and are each waited for by one of them.
Deadlocked(b) ==
    \E S \in SUBSET Backends :
        /\ b \in S
        /\ \A c \in S : (\E d \in S : Blocks(d, c)) /\ (\E d \in S : Blocks(c, d))

\* The same with DeadlockTimeout set to "infinite wait" along with LockTimeout.
DeadlockAbortNever(b) ==
    /\ FALSE
    /\ AbortXact(b)

\* The lock timeout is off in nram_validation_lock, the deadlock detector is
\* not: it ends the wait of one of the backends with an ERROR.
DeadlockAbort(b) ==
    /\ Deadlocked(b)
    /\ AbortXact(b)

\* The write set is locked.  Only a SERIALIZABLE transaction validates reads.
WriteSetLocked(b) ==
    /\ phase[b] = "lock"
    /\ todo[b] = {}
    /\ phase' = [phase EXCEPT ![b] = "validate"]
    /\ todo' = [todo EXCEPT ![b] = IF iso[b] = "SER" THEN ReadKeys(b) ELSE {}]
    /\ clock' = clock + 1
    /\ pos' = [pos EXCEPT ![xid[b]] = clock + 1]
    /\ writes' = [writes EXCEPT ![xid[b]] = WriteKeys(b)]
    /\ reads' = [reads EXCEPT ![xid[b]] =
                    [k \in Keys |-> IF iso[b] = "SER" /\ readSet[b][k] # NoValue
                                    THEN readSet[b][k].xid ELSE NoValue]]
    /\ UNCHANGED <<store, validS, validX, fate>>
    /\ CommitFrame

\* Validation without the peek lock, as in validate_read_set.
PeekLockSkipped(b, k) ==
    /\ phase[b] = "validate"
    /\ k \in todo[b]
    /\ validS' = [validS EXCEPT ![Tag(k)] = @ \union {b}]
    /\ phase' = [phase EXCEPT ![b] = "peek"]
    /\ UNCHANGED <<store, todo, validX, histVars>>
    /\ CommitFrame

\* nram_try_validation_lock with ShareLock, granted.
PeekLock(b, k) ==
    /\ phase[b] = "validate"
    /\ k \in todo[b]
    /\ validX[Tag(k)] \subseteq {b}
    /\ ~Awaited(b, Tag(k))
    /\ validS' = [validS EXCEPT ![Tag(k)] = @ \union {b}]
    /\ phase' = [phase EXCEPT ![b] = "peek"]
    /\ UNCHANGED <<store, todo, validX, histVars>>
    /\ CommitFrame

\* The same, not available: a pending write, so the transaction is aborted.
PeekRefused(b, k) ==
    /\ phase[b] = "validate"
    /\ k \in todo[b]
    /\ ~(validX[Tag(k)] \subseteq {b}) \/ Awaited(b, Tag(k))
    /\ AbortXact(b)

\* The loop is at a key whose lock it has taken to peek.
Peeks(b, k) == phase[b] = "peek" /\ k \in todo[b] /\ b \in validS[Tag(k)]

\* Validation that does not compare the versions.
ReadValidUncompared(b, k) ==
    /\ Peeks(b, k)
    /\ serving
    /\ validS' = [validS EXCEPT ![Tag(k)] = @ \ {b}]
    /\ todo' = [todo EXCEPT ![b] = @ \ {k}]
    /\ phase' = [phase EXCEPT ![b] = "validate"]
    /\ UNCHANGED <<store, validX, histVars>>
    /\ CommitFrame

\* The current version is the one that was read: release the share lock.
ReadValid(b, k) ==
    /\ Peeks(b, k)
    /\ serving
    /\ store[k].xid = readSet[b][k].xid
    /\ validS' = [validS EXCEPT ![Tag(k)] = @ \ {b}]
    /\ todo' = [todo EXCEPT ![b] = @ \ {k}]
    /\ phase' = [phase EXCEPT ![b] = "validate"]
    /\ UNCHANGED <<store, validX, histVars>>
    /\ CommitFrame

\* It is not, or the service is gone and the read returns nothing.
ReadInvalid(b, k) ==
    /\ Peeks(b, k)
    /\ ~serving \/ store[k].xid # readSet[b][k].xid
    /\ AbortXact(b)

\* validated = true.
Validated(b) ==
    /\ phase[b] = "validate"
    /\ todo[b] = {}
    /\ phase' = [phase EXCEPT ![b] = "install"]
    /\ todo' = [todo EXCEPT ![b] = WriteKeys(b)]
    /\ UNCHANGED <<store, validS, validX, histVars>>
    /\ CommitFrame

\* RocksClientPut, then nram_validation_release, key by key.  The result of the
\* put is dropped: with the service gone the write is lost and the loop goes on.
\* A lock that was taken for several keys goes with the last of them.
Install(b, k) ==
    /\ phase[b] = "install"
    /\ IsFirst(k, todo[b])
    /\ store' = IF serving THEN [store EXCEPT ![k] = writeSet[b][k]] ELSE store
    /\ writes' = IF serving THEN writes ELSE [writes EXCEPT ![xid[b]] = @ \ {k}]
    /\ validX' = IF \E j \in todo[b] \ {k} : Tag(j) = Tag(k)
                 THEN validX
                 ELSE [validX EXCEPT ![Tag(k)] = @ \ {b}]
    /\ todo' = [todo EXCEPT ![b] = @ \ {k}]
    /\ UNCHANGED <<phase, validS, clock, pos, reads, fate>>
    /\ CommitFrame

Installed(b) ==
    /\ phase[b] = "install"
    /\ todo[b] = {}
    /\ phase' = [phase EXCEPT ![b] = "done"]
    /\ UNCHANGED <<store, todo, validS, validX, histVars>>
    /\ CommitFrame

\* CommitTransaction writes the commit record; XACT_EVENT_COMMIT clears the state.
Commit(b) ==
    /\ phase[b] = "done"
    /\ EndXact(b)
    /\ fate' = [fate EXCEPT ![xid[b]] = "committed"]
    /\ UNCHANGED <<agent, store, serving, nextXid, loads, clock, pos, writes, reads>>

-----------------------------------------------------------------------------
(* The environment. *)

\* ROLLBACK, an error, a cancel request, a lock timeout or a deadlock.
Abort(b) ==
    /\ "abort" \in Failures
    /\ phase[b] \in Phases \ {"idle", "install", "done"}
    /\ AbortXact(b)

\* The same after validation: a cancel request served between two puts, or a
\* later step of CommitTransaction that fails.
LateAbort(b) ==
    /\ "late_abort" \in Failures
    /\ phase[b] \in {"install", "done"}
    /\ AbortXact(b)

\* A cancel request served while a put waits for its answer: the request is in
\* the service's queue, ahead of any later one, and will be carried out.
CancelledPut(b, k) ==
    /\ "late_abort" \in Failures
    /\ phase[b] = "install"
    /\ IsFirst(k, todo[b])
    /\ serving
    /\ store' = [store EXCEPT ![k] = writeSet[b][k]]
    /\ EndXact(b)
    /\ writes' = [writes EXCEPT ![xid[b]] = @ \ (todo[b] \ {k})]
    /\ fate' = [fate EXCEPT ![xid[b]] = "aborted"]
    /\ UNCHANGED <<agent, serving, nextXid, loads, clock, pos, reads>>

\* terminate_rocks: the service ends and is never restarted.
ServiceStop ==
    /\ "service_stop" \in Failures
    /\ serving
    /\ serving' = FALSE
    /\ UNCHANGED <<agent, store, nextXid, loads, todo, sessionVars, setVars,
                   lockVars, histVars>>

LoadPolicy(i, a) ==
    /\ loads < MaxLoads
    /\ loads' = loads + 1
    /\ LoadEntry(i, a)
    /\ UNCHANGED <<store, serving, nextXid, todo, sessionVars, setVars, lockVars,
                   histVars>>

-----------------------------------------------------------------------------
Statement(b) ==
    \/ \E i \in Isolations : Begin(b, i)
    \/ \E c \in Commands : ExecutorStart(b, c)
    \/ ExecutorEnd(b)
    \/ \E k \in Keys : IndexFetchTuple(b, k)
    \/ \E k \in Keys : FetchRowVersion(b, k)
    \/ BeginScan(b)
    \/ \E k \in Keys : GetNextSlot(b, k)
    \/ RefetchRow(b)
    \/ RefetchFailed(b)
    \/ TupleUpdate(b)
    \/ \E k \in Keys : Insert(b, k)
    \/ PreCommit(b)

CommitStep(b) ==
    \/ \E k \in Keys : ValidationLock(b, k)
    \/ \E k \in Keys : ValidationWait(b, k)
    \/ \E k \in Keys : ValidationGrant(b, k)
    \/ \E k \in Keys : ValidationRefused(b, k)
    \/ DeadlockAbort(b)
    \/ WriteSetLocked(b)
    \/ \E k \in Keys : PeekLock(b, k)
    \/ \E k \in Keys : PeekRefused(b, k)
    \/ \E k \in Keys : ReadValid(b, k)
    \/ \E k \in Keys : ReadInvalid(b, k)
    \/ Validated(b)
    \/ \E k \in Keys : Install(b, k)
    \/ Installed(b)
    \/ Commit(b)

Environment ==
    \/ \E b \in Backends : Abort(b) \/ LateAbort(b)
    \/ \E b \in Backends, k \in Keys : CancelledPut(b, k)
    \/ ServiceStop
    \/ \E i \in FeatureId, a \in PolicyActions : LoadPolicy(i, a)

Next ==
    \/ \E b \in Backends : Statement(b) \/ CommitStep(b)
    \/ Environment

Spec == Init /\ [][Next]_vars

\* A backend in the commit callback runs on; the lock manager wakes waiters and
\* looks for deadlocks.
FairSpec == Spec /\ \A b \in Backends :
                        WF_vars(phase[b] \in CommitPhases /\ CommitStep(b))

-----------------------------------------------------------------------------
(* Properties. *)

VersionOrNull == Version \union {NoValue}
RowMap        == [Keys -> VersionOrNull]
WriteMap      == [Keys -> {v \in Version : ~v.priv} \union {NoValue}]

SharedType ==
    /\ agent \in [FeatureId -> CCAction]
    /\ store \in RowMap
    /\ serving \in BOOLEAN
    /\ nextXid \in 1 .. MaxXid + 1
    /\ loads \in 0 .. MaxLoads

SessionType ==
    /\ phase \in [Backends -> Phases]
    /\ xid \in [Backends -> Xids0]
    /\ iso \in [Backends -> {"RC", "SER"}]
    /\ cmd \in [Backends -> {"none", "SELECT", "UPDATE", "INSERT"}]
    /\ op \in [Backends -> {READ_OPT, UPDATE_OPT}]
    /\ nAccess \in [Backends -> Nat]
    /\ action \in [Backends -> FeatureId \union {NoValue}]
    /\ nowait \in [Backends -> BOOLEAN]
    /\ todo \in [Backends -> SUBSET Keys]

SetType ==
    /\ readSet \in [Backends -> RowMap]
    /\ writeSet \in [Backends -> WriteMap]
    /\ scan \in [Backends -> RowMap]
    /\ slot \in [Backends -> Planned \union {NoValue}]

LockType ==
    /\ tupleS \in [Keys -> SUBSET Backends]
    /\ tupleX \in [Keys -> SUBSET Backends]
    /\ validS \in [Tags -> SUBSET Backends]
    /\ validX \in [Tags -> SUBSET Backends]

HistType ==
    /\ clock \in Nat
    /\ pos \in [Xids0 -> Nat]
    /\ writes \in [Xids0 -> SUBSET Keys]
    /\ reads \in [Xids0 -> [Keys -> Xids0 \union {NoValue}]]
    /\ fate \in [Xids0 -> {"none", "running", "committed", "aborted"}]

\* The type invariant.  A write set holds versions without the private mark:
\* nram_insert clears it before add_write_set.
TypeOK == SharedType /\ SessionType /\ SetType /\ LockType /\ HistType

\* x read y's version of k, and among the transactions that wrote k and come
\* before x in the order of pos, y is the last.
ReadsLatest(x, k, y) ==
    /\ k \in writes[y]
    /\ pos[y] < pos[x]
    /\ \A z \in Xids0 : k \in writes[z] /\ pos[z] < pos[x] => pos[z] <= pos[y]

\* What the validation in nram_xact_callback is for: the committed SERIALIZABLE
\* transactions read as if they had run one after the other, in the order in
\* which they completed their locking of the write set.  This is about the
\* reads the access method records.  Of an UPDATE that is the version fetched
\* by ExecModifyTable, not the earlier one its plan was computed from: see
\* NoLostUpdate.
SerialReads ==
    \A x \in Xids0, k \in Keys :
        fate[x] = "committed" /\ reads[x][k] # NoValue
            => ReadsLatest(x, k, reads[x][k])

\* The write set is locked in key order (list_sort), so backends in the commit
\* callback wait for each other in a cycle only where the truncated tag of
\* nram_validation_lock makes two of them lock different rows as one.
DeadlockNeedsCollision ==
    \A b \in Backends : Deadlocked(b) =>
        \E c, d \in Backends : \E j \in WriteKeys(c), k \in WriteKeys(d) :
            c # d /\ j # k /\ Tag(j) = Tag(k)

\* The transaction y has not passed validation.
Unvalidated(y) ==
    \E c \in Backends : xid[c] = y /\ phase[c] \in Phases \ {"idle", "install", "done"}

\* A statement never returns a version of a peer that is not past its
\* validation, and never one left behind by a peer that failed before it: the
\* private mark of an inserted row hides it (nram_value_check_visibility) and
\* an update stays in the write set.
NoDirtyRead ==
    \A b \in Backends, k \in Keys :
        LET v == readSet[b][k] IN
        v # NoValue => ~Unvalidated(v.xid) /\ k \in writes[v.xid]

\* No committed update is lost: a row is always computed from every committed
\* update of it.  An UPDATE has two reads, that of its plan and that of
\* ExecModifyTable, and only the second is validated.
NoLostUpdate ==
    \A x \in Xids0, k \in Keys :
        fate[x] = "committed" /\ k \in writes[x] => x \in store[k].seen

\* Under the built-in policy "2pl" what a transaction has read stays as it was
\* until it ends or installs its own update, whatever the isolation level: the
\* tuple lock is taken before the row is read (nram_getnextslot reads the row
\* again after it) and kept to the end.
LockedReadsStable ==
    \A b \in Backends, k \in Keys :
        readSet[b][k] # NoValue => store[k].xid \in {readSet[b][k].xid, xid[b]}

\* A statement sees only what a committed transaction wrote, or what a
\* transaction that is about to commit has installed.
ReadsOnlyCommitted ==
    \A b \in Backends, k \in Keys :
        readSet[b][k] # NoValue => fate[readSet[b][k].xid] # "aborted"

\* A committed row can be read: what a transaction wrote is in the store
\* when it has committed, or has been replaced since.
CommittedInstalled ==
    \A b \in Backends : phase[b] = "done" => WriteKeys(b) \subseteq writes[xid[b]]

\* A transaction that enters the commit callback leaves it, committed or
\* aborted: no set of backends waits for each other's advisory locks for ever.
\* Where tags collide it is the deadlock detector that sees to it.
CommitEnds ==
    \A b \in Backends : phase[b] \in CommitPhases ~> phase[b] = "idle"
=============================================================================
