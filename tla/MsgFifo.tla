------------------------------- MODULE MsgFifo -------------------------------
(***************************************************************************)
(* What a message channel promises: whole messages, each delivered once to *)
(* one reader, in the order in which they were sent.                       *)
(***************************************************************************)
EXTENDS Sequences

CONSTANTS Readers, Messages, NoMsg

VARIABLES queue,    \* the messages sent and not yet delivered
          out       \* the message each reader received last

FifoInit ==
    /\ queue = <<>>
    /\ out = [r \in Readers |-> NoMsg]

Put(m) ==
    /\ queue' = Append(queue, m)
    /\ UNCHANGED out

Take(r) ==
    /\ queue # <<>>
    /\ out' = [out EXCEPT ![r] = Head(queue)]
    /\ queue' = Tail(queue)

FifoNext ==
    \/ \E m \in Messages : Put(m)
    \/ \E r \in Readers : Take(r)

FifoSpec == FifoInit /\ [][FifoNext]_<<queue, out>>
=============================================================================
