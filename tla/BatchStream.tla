---------------------------- MODULE BatchStream ----------------------------
(***************************************************************************)
(* What the streaming of the tasks' data promises: the batches of a table  *)
(* reach the model builder each once and in order, and a stream is closed  *)
(* only after its last batch, or when the task has failed.                 *)
(***************************************************************************)
EXTENDS Integers, Sequences

CONSTANTS Streams, Total

VARIABLES
    pending,    \* the batches of each stream that are sent and not yet used
    sent,       \* the number of batches sent
    used,       \* the last batch used
    state       \* "open", "failed" or "closed"

StreamInit ==
    /\ pending = [s \in Streams |-> <<>>]
    /\ sent = [s \in Streams |-> 0]
    /\ used = [s \in Streams |-> 0]
    /\ state = [s \in Streams |-> "open"]

SendNext(s) ==
    /\ state[s] # "closed"
    /\ sent[s] < Total
    /\ sent' = [sent EXCEPT ![s] = @ + 1]
    /\ pending' = [pending EXCEPT ![s] = Append(@, sent[s] + 1)]
    /\ UNCHANGED <<used, state>>

UseNext(s) ==
    /\ state[s] = "open"
    /\ pending[s] # <<>>
    /\ used' = [used EXCEPT ![s] = Head(pending[s])]
    /\ pending' = [pending EXCEPT ![s] = Tail(@)]
    /\ UNCHANGED <<sent, state>>

Fail(s) ==
    /\ state[s] = "open"
    /\ state' = [state EXCEPT ![s] = "failed"]
    /\ UNCHANGED <<pending, sent, used>>

Close(s) ==
    /\ state[s] = "failed" \/ used[s] = Total
    /\ state' = [state EXCEPT ![s] = "closed"]
    /\ pending' = [pending EXCEPT ![s] = <<>>]
    /\ sent' = [sent EXCEPT ![s] = 0]
    /\ used' = [used EXCEPT ![s] = 0]

StreamNext == \E s \in Streams : SendNext(s) \/ UseNext(s) \/ Fail(s) \/ Close(s)

StreamSpec == StreamInit /\ [][StreamNext]_<<pending, sent, used, state>>
=============================================================================
