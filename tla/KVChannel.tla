------------------------------ MODULE KVChannel ------------------------------
(***************************************************************************)
(* The shared-memory channel of ipc/msg.c: a ring buffer of bytes guarded  *)
(* by an LWLock, with one condition variable for readers and writers and a *)
(* flag is_running that is tested without the lock.  A message is a header *)
(* of fixed length and an entity whose length the header tells.            *)
(*                                                                         *)
(* A byte is modelled as the message it belongs to and its place in it, so *)
(* the model tells when a reader gets bytes that are not those of one      *)
(* message.  The section between LWLockAcquire and LWLockRelease is one    *)
(* step; the test of is_running before it is a step of its own.            *)
(***************************************************************************)
EXTENDS Naturals, Sequences

CONSTANTS
    Writers,        \* the processes that call KVChannelPushMsg
    Readers,        \* the processes that call KVChannelPopMsg
    BufSize,        \* KV_CHANNEL_BUFSIZE
    HeaderSize,     \* sizeof(KVMsgHeader)
    Sizes,          \* the values of entitySize that each writer uses
    Waits,          \* the timeouts that each process uses
    NoMsg

Messages == UNION {[from: {p}, n: 0 .. 1, size: Sizes[p]] : p \in Writers}
Procs    == Writers \union Readers

\* KVChannelPushMsg refuses a message of more than MSG_SIZE bytes, which is
\* less than KV_CHANNEL_BUFSIZE.
ASSUME ChannelAssumption ==
    /\ HeaderSize \in Nat \ {0} /\ BufSize \in Nat \ {0}
    /\ Sizes \in [Writers -> (SUBSET Nat) \ {{}}]
    /\ \A p \in Writers : \A s \in Sizes[p] : HeaderSize + s < BufSize
    /\ Writers \intersect Readers = {}
    /\ Waits \in [Procs -> SUBSET {"no", "timed", "forever"}]
    /\ NoMsg \notin Messages

VARIABLES
    head, tail, buffer, running,    \* KVChannelShared
    waiters,                        \* the processes on the condition variable's list
    pc,                             \* where each process is
    msg,                            \* the argument of each writer's last push
    wait,                           \* timeout_ms of each process's last call
    out,                            \* the message each reader received last
    stop,                           \* how far TerminateChannel has come
    queue                           \* history: the messages pushed and not yet popped

vars == <<head, tail, buffer, running, waiters, pc, msg, wait, out, stop, queue>>

Byte   == (Messages \union {NoMsg}) \X (0 .. BufSize)
NoByte == <<NoMsg, 0>>

Init ==
    /\ head = 0 /\ tail = 0
    /\ buffer = [i \in 0 .. BufSize - 1 |-> NoByte]
    /\ running = TRUE
    /\ waiters = {}
    /\ pc = [p \in Procs |-> "idle"]
    /\ msg = [p \in Writers |-> [from |-> p, n |-> 0, size |-> CHOOSE s \in Sizes[p] : TRUE]]
    /\ wait = [p \in Procs |-> "no"]
    /\ out = [p \in Readers |-> NoMsg]
    /\ stop = "no"
    /\ queue = <<>>

-----------------------------------------------------------------------------
(* The ring. *)

Used  == (tail + BufSize - head) % BufSize

SpaceAll == BufSize - Used

\* One byte stays free, so that a full ring differs from an empty one.
Space == BufSize - Used - 1

Length(m) == HeaderSize + m.size
Bytes(m)  == [i \in 1 .. Length(m) |-> <<m, i>>]

\* The i-th byte from position pos: memcpy in one part, or in two when the end
\* of the buffer lies between.
At(pos, i) == IF pos + i < BufSize THEN pos + i ELSE pos + i - BufSize

AdvanceUnwrapped(pos, len) == pos + len

Advance(pos, len) == (pos + len) % BufSize

Read(pos, len) == [i \in 1 .. len |-> buffer[At(pos, i - 1)]]

\* The message whose header was read.
Header(bytes) == bytes[1][1]

Ready(p) == IF p \in Writers THEN Length(msg[p]) <= Space ELSE HeaderSize <= Used

-----------------------------------------------------------------------------
(* KVChannelPushMsg and KVChannelPopMsg. *)

CallPush(p, s, w) ==
    /\ pc[p] = "idle"
    /\ msg' = [msg EXCEPT ![p] = [from |-> p, n |-> 1 - @.n, size |-> s]]
    /\ wait' = [wait EXCEPT ![p] = w]
    /\ pc' = [pc EXCEPT ![p] = "test"]
    /\ UNCHANGED <<head, tail, buffer, running, waiters, out, stop, queue>>

CallPop(p, w) ==
    /\ pc[p] = "idle"
    /\ wait' = [wait EXCEPT ![p] = w]
    /\ pc' = [pc EXCEPT ![p] = "test"]
    /\ UNCHANGED <<head, tail, buffer, running, waiters, msg, out, stop, queue>>

\* The call ends.
Return(p) ==
    /\ pc' = [pc EXCEPT ![p] = "idle"]
    /\ wait' = [wait EXCEPT ![p] = "no"]

\* The condition of the while loop; a stopped channel ends the call.
Test(p) ==
    /\ pc[p] = "test"
    /\ IF running THEN pc' = [pc EXCEPT ![p] = "locked"] /\ UNCHANGED wait ELSE Return(p)
    /\ UNCHANGED <<head, tail, buffer, running, waiters, msg, out, stop, queue>>

\* KVChannelPush without ConditionVariableBroadcast.
PushSilent(p) ==
    /\ pc[p] = "locked"
    /\ Ready(p)
    /\ buffer' = [i \in 0 .. BufSize - 1 |->
                     IF \E j \in 1 .. Length(msg[p]) : i = At(tail, j - 1)
                     THEN <<msg[p], CHOOSE j \in 1 .. Length(msg[p]) : i = At(tail, j - 1)>>
                     ELSE buffer[i]]
    /\ tail' = Advance(tail, Length(msg[p]))
    /\ queue' = Append(queue, msg[p])
    /\ Return(p)
    /\ UNCHANGED <<head, running, waiters, msg, out, stop>>

\* KVChannelPush: copy the message, move the tail, wake everyone.
Push(p) ==
    /\ pc[p] = "locked"
    /\ Ready(p)
    /\ buffer' = [i \in 0 .. BufSize - 1 |->
                     IF \E j \in 1 .. Length(msg[p]) : i = At(tail, j - 1)
                     THEN <<msg[p], CHOOSE j \in 1 .. Length(msg[p]) : i = At(tail, j - 1)>>
                     ELSE buffer[i]]
    /\ tail' = Advance(tail, Length(msg[p]))
    /\ queue' = Append(queue, msg[p])
    /\ waiters' = {}
    /\ Return(p)
    /\ UNCHANGED <<head, running, msg, out, stop>>

\* KVChannelPopMsg: the header, then the entity it announces.  Nobody is woken,
\* although there is room now.
PopMsg(p) ==
    LET header == Read(head, HeaderSize)
        m      == Header(header)
        entity == Read(At(head, HeaderSize), m.size)
    IN  /\ pc[p] = "locked"
        /\ Ready(p)
        /\ out' = [out EXCEPT ![p] = IF header \o entity = Bytes(m) THEN m ELSE NoMsg]
        /\ head' = Advance(head, Length(m))
        /\ queue' = Tail(queue)
        /\ Return(p)
        /\ UNCHANGED <<tail, buffer, running, waiters, msg, stop>>

\* No room, or no message, and no time left: the call fails.
GiveUp(p) ==
    /\ pc[p] = "locked"
    /\ ~Ready(p)
    /\ wait[p] = "no"
    /\ Return(p)
    /\ UNCHANGED <<head, tail, buffer, running, waiters, msg, out, stop, queue>>

\* ConditionVariablePrepareToSleep after the lock is released.
SleepTooLate(p) ==
    /\ pc[p] = "locked"
    /\ wait[p] # "no"
    /\ waiters' = waiters \union {p}
    /\ pc' = [pc EXCEPT ![p] = "asleep"]
    /\ UNCHANGED <<head, tail, buffer, running, msg, wait, out, stop, queue>>

\* ConditionVariablePrepareToSleep under the lock, then the sleep.
Sleep(p) ==
    /\ pc[p] = "locked"
    /\ ~Ready(p)
    /\ wait[p] # "no"
    /\ waiters' = waiters \union {p}
    /\ pc' = [pc EXCEPT ![p] = "asleep"]
    /\ UNCHANGED <<head, tail, buffer, running, msg, wait, out, stop, queue>>

\* A broadcast has taken p off the list: try again.
Wake(p) ==
    /\ pc[p] = "asleep"
    /\ p \notin waiters
    /\ pc' = [pc EXCEPT ![p] = "test"]
    /\ UNCHANGED <<head, tail, buffer, running, waiters, msg, wait, out, stop, queue>>

\* ConditionVariableTimedSleep times out: one more round, without a wait.
TimeOut(p) ==
    /\ pc[p] = "asleep"
    /\ wait[p] = "timed"
    /\ waiters' = waiters \ {p}
    /\ wait' = [wait EXCEPT ![p] = "no"]
    /\ pc' = [pc EXCEPT ![p] = "test"]
    /\ UNCHANGED <<head, tail, buffer, running, msg, out, stop, queue>>

\* A cancel request is served in the sleep.
Cancel(p) ==
    /\ pc[p] = "asleep"
    /\ waiters' = waiters \ {p}
    /\ Return(p)
    /\ UNCHANGED <<head, tail, buffer, running, msg, out, stop, queue>>

-----------------------------------------------------------------------------
(* TerminateChannel, called without the lock. *)

StopFlag ==
    /\ stop = "no"
    /\ running' = FALSE
    /\ stop' = "flag"
    /\ UNCHANGED <<head, tail, buffer, waiters, pc, msg, wait, out, queue>>

StopUnheard ==
    /\ stop = "flag"
    /\ stop' = "done"
    /\ UNCHANGED <<head, tail, buffer, running, waiters, pc, msg, wait, out, queue>>

StopBroadcast ==
    /\ stop = "flag"
    /\ waiters' = {}
    /\ stop' = "done"
    /\ UNCHANGED <<head, tail, buffer, running, pc, msg, wait, out, queue>>

-----------------------------------------------------------------------------
Call(p) ==
    \/ p \in Writers /\ \E s \in Sizes[p], w \in Waits[p] : CallPush(p, s, w)
    \/ p \in Readers /\ \E w \in Waits[p] : CallPop(p, w)

Step(p) ==
    \/ Test(p)
    \/ p \in Writers /\ Push(p)
    \/ p \in Readers /\ PopMsg(p)
    \/ GiveUp(p)
    \/ Sleep(p)
    \/ Wake(p)
    \/ TimeOut(p)

Next ==
    \/ \E p \in Procs : Call(p) \/ Step(p) \/ Cancel(p)
    \/ StopFlag
    \/ StopBroadcast

Spec == Init /\ [][Next]_vars

\* A process that is inside a call runs on, and so does TerminateChannel.
FairSpec ==
    /\ Spec
    /\ \A p \in Procs : WF_vars(Step(p))
    /\ WF_vars(StopBroadcast)

-----------------------------------------------------------------------------
(* Properties. *)

TypeOK ==
    /\ head \in 0 .. BufSize - 1 /\ tail \in 0 .. BufSize - 1
    /\ buffer \in [0 .. BufSize - 1 -> Byte]
    /\ running \in BOOLEAN
    /\ waiters \subseteq Procs
    /\ pc \in [Procs -> {"idle", "test", "locked", "asleep"}]
    /\ msg \in [Writers -> Messages]
    /\ wait \in [Procs -> {"no", "timed", "forever"}]
    /\ out \in [Readers -> Messages \union {NoMsg}]
    /\ stop \in {"no", "flag", "done"}
    /\ queue \in Seq(Messages)

Fifo == INSTANCE MsgFifo

\* The ring is a queue of whole messages: whatever the sizes, the wrap-around
\* of the copies and the interleaving of calls, a reader gets exactly what one
\* writer pushed, in the order of the pushes, and no message twice.
IsFifo == Fifo!FifoSpec

\* The wake-up of a reader is never lost: one that stays on the condition
\* variable's list sees an empty channel, because it was put on the list under
\* the lock and every push empties the list.
NoMissedMessage ==
    \A p \in Readers : p \in waiters => Used = 0

\* A writer that found the channel full tries again as long as others get
\* their messages in.  (KVChannelPopMsg does not wake it.)
RetriedUnderTraffic ==
    \A p \in Writers :
        []<><<\E q \in Writers : Push(q)>>_vars => (pc[p] = "asleep" ~> pc[p] # "asleep")

\* TerminateChannel ends the calls that sleep when it sets the flag, and every call
\* with a timeout.  It broadcasts without the lock, so a call without a timeout
\* that is about to sleep is not among them.
StoppedCallsEnd ==
    \A p \in Procs :
        stop = "flag" /\ (pc[p] = "asleep" \/ wait[p] = "timed") ~> pc[p] = "idle"
=============================================================================
