---------------------------- MODULE SessionStore ----------------------------
(***************************************************************************)
(* What the Rocks service promises its clients: one store, on which every  *)
(* request takes effect at the moment it is sent, and for every client a   *)
(* queue of the answers it is owed, in the order of its requests.  A call  *)
(* returns the oldest answer owed, which is its own one unless an earlier  *)
(* call of the same client was cancelled.                                  *)
(***************************************************************************)
EXTENDS RocksOps

VARIABLES rows,     \* the store
          open,     \* are requests accepted
          owed,     \* the answers each client will get
          call,     \* the call each client is in
          got,      \* the result of its last call
          calls     \* the number of calls so far

sessionStoreVars == <<rows, open, owed, call, got, calls>>

StoreInit ==
    /\ rows = Rows0
    /\ open = TRUE
    /\ owed = [c \in Clients |-> <<>>]
    /\ call = [c \in Clients |-> NoValue]
    /\ got = [c \in Clients |-> NoValue]
    /\ calls = 0

Send(c, r) ==
    /\ open
    /\ call[c] = NoValue
    /\ calls' = calls + 1
    /\ call' = [call EXCEPT ![c] = [req |-> r, n |-> calls + 1]]
    /\ rows' = ApplyTo(rows, r, calls + 1)
    /\ owed' = [owed EXCEPT ![c] = Append(@, Answer(rows, r, calls + 1))]
    /\ UNCHANGED <<open, got>>

Refuse(c, r) ==
    /\ ~open
    /\ call[c] = NoValue
    /\ calls' = calls + 1
    /\ got' = [got EXCEPT ![c] = Refused(r)]
    /\ UNCHANGED <<rows, open, owed, call>>

Receive(c) ==
    /\ call[c] # NoValue
    /\ owed[c] # <<>>
    /\ got' = [got EXCEPT ![c] = Result(call[c].req, Head(owed[c]))]
    /\ owed' = [owed EXCEPT ![c] = Tail(@)]
    /\ call' = [call EXCEPT ![c] = NoValue]
    /\ UNCHANGED <<rows, open, calls>>

Forget(c) ==
    /\ call[c] # NoValue
    /\ call' = [call EXCEPT ![c] = NoValue]
    /\ UNCHANGED <<rows, open, owed, got, calls>>

Close ==
    /\ open
    /\ open' = FALSE
    /\ UNCHANGED <<rows, owed, call, got, calls>>

StoreNext ==
    \/ \E c \in Clients, r \in Request : Send(c, r) \/ Refuse(c, r)
    \/ \E c \in Clients : Receive(c) \/ Forget(c)
    \/ Close

StoreSpec == StoreInit /\ [][StoreNext]_sessionStoreVars
=============================================================================
