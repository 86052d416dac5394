----------------------------- MODULE NramXactInv -----------------------------
(***************************************************************************)
(* The inductive invariant behind SerialReads, DeadlockNeedsCollision and  *)
(* NoDirtyRead of NramXact.                                                *)
(***************************************************************************)
EXTENDS NramXact

\* The keys a backend has locked and validated or is validating, and has not
\* yet installed.
Pending(b) ==
    {k \in Keys : \/ phase[b] \in {"validate", "peek"} /\ k \in WriteKeys(b)
                  \/ phase[b] = "install" /\ k \in todo[b]}

\* x has put its version of k into the store.
Inst(x, k) ==
    /\ k \in writes[x]
    /\ \A b \in Backends : xid[b] = x => k \notin Pending(b)

\* A row is never removed: what a scan has found can be read again.
RowsStay == \A b \in Backends, k \in Keys : scan[b][k] # NoValue => store[k] # NoValue

Public(v) == v # NoValue /\ ~v.priv

\* Every running transaction belongs to one backend and has an id that was
\* handed out; it gets its position when its write set is locked.
XidInv ==
    /\ \A b \in Backends : phase[b] # "idle" =>
            /\ xid[b] \in Xids /\ xid[b] < nextXid
            /\ fate[xid[b]] = "running"
    /\ \A b, c \in Backends :
            phase[b] # "idle" /\ phase[c] # "idle" /\ xid[b] = xid[c] => b = c
    /\ \A x \in Xids0 : x >= nextXid => pos[x] = 0 /\ writes[x] = {} /\ fate[x] = "none"
    /\ \A x \in Xids0 : pos[x] <= clock
    /\ \A b \in Backends : phase[b] \in {"active", "lock", "wait"} =>
            pos[xid[b]] = 0 /\ writes[xid[b]] = {}
    /\ \A b \in Backends : phase[b] \in {"validate", "peek"} =>
            pos[xid[b]] > 0 /\ writes[xid[b]] = WriteKeys(b)
    /\ \A b \in Backends : phase[b] = "install" => todo[b] \subseteq writes[xid[b]]

\* The advisory locks: for which keys they are held, in which order the keys
\* were taken, and that the lock of a pending key has its writer as only holder.
LockInv ==
    /\ \A b \in Backends, t \in Tags : b \in validX[t] =>
            /\ phase[b] \notin {"idle", "active"}
            /\ phase[b] \in {"lock", "wait"} =>
                    \E k \in WriteKeys(b) \ todo[b] : Tag(k) = t
    /\ \A b \in Backends : phase[b] \in {"lock", "wait"} =>
            /\ todo[b] \subseteq WriteKeys(b)
            /\ \A k \in WriteKeys(b) \ todo[b] :
                    b \in validX[Tag(k)] /\ \A j \in todo[b] : k < j
    /\ \A b \in Backends : \A k \in Pending(b) : b \in validX[Tag(k)] /\ k \in WriteKeys(b)
    /\ \A b, c \in Backends, t \in Tags :
            b \in validX[t] /\ c \in validX[t] \union validS[t] => b = c
    /\ \A b \in Backends, t \in Tags : b \in validS[t] => phase[b] = "peek"
    /\ \A b \in Backends, s, t \in Tags : b \in validS[s] /\ b \in validS[t] => s = t

\* The visible version of a row is the last one installed, and one that is
\* pending is later than all that are installed.
StoreInv ==
    /\ \A k \in Keys : store[k] # NoValue => store[k].xid < nextXid
    /\ \A k \in Keys : Public(store[k]) => Inst(store[k].xid, k)
    /\ \A k \in Keys, z \in Xids0 : Inst(z, k) =>
            Public(store[k]) /\ pos[z] <= pos[store[k].xid]
    /\ \A k \in Keys, z \in Xids0, b \in Backends :
            Inst(z, k) /\ k \in Pending(b) => pos[z] < pos[xid[b]]

\* What a transaction has read was installed when it read it; the rows its
\* own inserts have left in the store are in its write set.
SetInv ==
    /\ \A b \in Backends, k \in Keys : readSet[b][k] # NoValue => Inst(readSet[b][k].xid, k)
    /\ \A b \in Backends, k \in Keys : Public(scan[b][k]) => Inst(scan[b][k].xid, k)
    /\ \A b \in Backends, k \in Keys : scan[b][k] # NoValue => scan[b][k].xid < nextXid
    /\ \A b \in Backends, k \in Keys : phase[b] = "active" /\ writeSet[b][k] = NoValue =>
            /\ store[k] # NoValue /\ store[k].priv => store[k].xid # xid[b]
            /\ scan[b][k] # NoValue /\ scan[b][k].priv => scan[b][k].xid # xid[b]

\* A write set belongs to the running transaction; its last loop is complete
\* when the callback returns.
OwnInv ==
    /\ \A b \in Backends, k \in Keys : writeSet[b][k] # NoValue =>
            phase[b] # "idle" /\ writeSet[b][k].xid = xid[b]
    /\ \A b \in Backends : phase[b] = "done" => todo[b] = {}

\* What x has read of k is installed, and the right version.
Good(x, k) == Inst(reads[x][k], k) /\ ReadsLatest(x, k, reads[x][k])

\* Reads are recorded at the transaction's position, and right once checked.
ReadInv ==
    /\ \A b \in Backends, k \in Keys :
            phase[b] \in {"validate", "peek"} /\ reads[xid[b]][k] # NoValue =>
                /\ readSet[b][k] # NoValue
                /\ reads[xid[b]][k] = readSet[b][k].xid
                /\ pos[readSet[b][k].xid] < pos[xid[b]]
    /\ \A b \in Backends, k \in Keys :
            /\ \/ phase[b] \in {"install", "done"}
               \/ phase[b] \in {"validate", "peek"} /\ k \notin todo[b]
            /\ reads[xid[b]][k] # NoValue
            => Good(xid[b], k)
    /\ \A x \in Xids0, k \in Keys :
            fate[x] = "committed" /\ reads[x][k] # NoValue => Good(x, k)

\* The variables that the invariant is about, apart from what statements fetch.
coreVars == <<phase, xid, todo, writeSet, store, nextXid, validS, validX, histVars>>

IInv == TypeOK /\ RowsStay /\ XidInv /\ LockInv /\ StoreInv /\ SetInv /\ OwnInv
        /\ ReadInv
-----------------------------------------------------------------------------
(* The stronger invariant under a policy that locks and waits. *)

\* Every entry of the policy table, now and later, locks the tuples a statement
\* touches and waits for them: the built-in policy "2pl" of load_agent_function.
LockingPolicy ==
    /\ \A i \in FeatureId : InitialPolicy[i].detect_all /\ ~InitialPolicy[i].nowait
    /\ \A a \in PolicyActions : a.detect_all /\ ~a.nowait

\* No statement runs without locking, and what it has fetched for an update
\* does not outlive it.
LockingInv ==
    /\ \A i \in FeatureId : agent[i].detect_all /\ ~agent[i].nowait
    /\ \A b \in Backends : ~nowait[b]
    /\ \A b \in Backends : cmd[b] # "none" => action[b] \in FeatureId
    /\ \A b \in Backends : slot[b] # NoValue => phase[b] = "active" /\ cmd[b] # "none"
    /\ \A b \in Backends, k \in Keys : readSet[b][k] # NoValue => phase[b] # "idle"

Holders(k) == tupleS[k] \union tupleX[k]

\* What a transaction has read, fetched or written it holds locked.
HeldInv ==
    /\ \A b, c \in Backends, k \in Keys : b \in tupleX[k] /\ c \in Holders(k) => b = c
    /\ \A b \in Backends, k \in Keys : readSet[b][k] # NoValue => b \in Holders(k)
    /\ \A b \in Backends, k \in Keys : writeSet[b][k] # NoValue => b \in tupleX[k]
    /\ \A b \in Backends : slot[b] # NoValue => b \in Holders(slot[b].key)

\* Every version that is or may become a row is built on all that are installed.
SeenInv ==
    /\ \A k \in Keys, z \in Xids0 : Inst(z, k) => z \in store[k].seen
    /\ \A b \in Backends, k \in Keys : writeSet[b][k] # NoValue =>
            xid[b] \in writeSet[b][k].seen
    /\ \A b \in Backends, k \in Keys, z \in Xids0 : Inst(z, k) =>
            /\ writeSet[b][k] # NoValue => z \in writeSet[b][k].seen
            /\ phase[b] = "active" /\ readSet[b][k] # NoValue => z \in readSet[b][k].seen
            /\ slot[b] # NoValue /\ slot[b].key = k => z \in slot[b].ver.seen

TwoPLInv == LockingInv /\ HeldInv /\ SeenInv /\ LockedReadsStable
=============================================================================
