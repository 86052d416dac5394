-------------------------- MODULE NramTwoPLProofs --------------------------
(***************************************************************************)
(* What the tuple locks of NramXact are worth: under a policy that locks   *)
(* and waits (LockingPolicy) no update is lost and a read is repeatable,   *)
(* for every number of backends, keys and transactions, every isolation    *)
(* level, plan and failure.                                                *)
(***************************************************************************)
EXTENDS NramXactProofs

-----------------------------------------------------------------------------
(* The statements lock. *)

\* The initial states satisfy LockingInv.
LEMMA LockingInit == ASSUME LockingPolicy, Init PROVE LockingInv
  BY DEF LockingPolicy, LockingInv, Init, PolicyInit, NoKeys

\* Every step keeps a locking policy in force and statements bound to it.
LEMMA LockingStep ==
    ASSUME LockingPolicy, TypeOK, LockingInv, [Next]_vars
    PROVE  LockingInv'
<1> USE DEF TypeOK
<1>1. ASSUME NEW b \in Backends, EndXact(b), UNCHANGED agent PROVE LockingInv'
  BY <1>1 DEF EndXact, LockingInv, NoKeys, SessionType, SetType
<1>2. ASSUME NEW b \in Backends, NEW i \in Isolations, Begin(b, i) PROVE LockingInv'
  BY <1>2 DEF Begin, LockingInv, SessionType, setVars
<1>3. ASSUME NEW b \in Backends, NEW c \in Commands, ExecutorStart(b, c) PROVE LockingInv'
  <2>1. op[b] \in {READ_OPT, UPDATE_OPT} /\ nAccess[b] \in Nat
    BY DEF SessionType
  <2>2. \A o \in {READ_OPT, UPDATE_OPT}, n \in Nat : EncodeFeature(o, n) \in FeatureId
    BY NAccessCapAssumption DEF EncodeFeature, FeatureId, Min2
  <2>3. PICK f \in FeatureId : /\ action' = [action EXCEPT ![b] = f]
                               /\ nowait' = [nowait EXCEPT ![b] = agent[f].nowait]
    <3> DEFINE o1 == IF action[b] # NoValue /\ c \in {"UPDATE", "INSERT"} THEN UPDATE_OPT
                                                                          ELSE op[b]
               n1 == IF action[b] = NoValue THEN 0 ELSE nAccess[b] + 1
    <3>1. o1 \in {READ_OPT, UPDATE_OPT} /\ n1 \in Nat
      BY <2>1
    <3>2. /\ action' = [action EXCEPT ![b] = EncodeFeature(o1, n1)]
          /\ nowait' = [nowait EXCEPT ![b] = agent[EncodeFeature(o1, n1)].nowait]
      BY <1>3 DEF ExecutorStart
    <3> HIDE DEF o1, n1
    <3> QED
      BY <2>2, <3>1, <3>2
  <2>4. c # "none"
    BY XactAssumption
  <2> QED
    BY <1>3, <2>3, <2>4 DEF ExecutorStart, LockingInv, SessionType, setVars
<1>4. ASSUME NEW b \in Backends, ExecutorEnd(b) PROVE LockingInv'
  BY <1>4 DEF ExecutorEnd, LockingInv, SessionType, SetType
<1>5. ASSUME NEW b \in Backends, NEW k \in Keys,
             \/ IndexFetchTuple(b, k) \/ FetchRowVersion(b, k)
             \/ BeginScan(b) \/ GetNextSlot(b, k)
      PROVE  LockingInv'
  <2>1. /\ phase[b] = "active" /\ cmd[b] # "none"
        /\ UNCHANGED <<agent, phase, cmd, action, nowait>>
    BY <1>5 DEF IndexFetchTuple, FetchRowVersion, BeginScan, GetNextSlot, CanFetch,
                FetchFrame, sessionVars
  <2>2. /\ \A c \in Backends : c # b => slot'[c] = slot[c]
        /\ \A c \in Backends : c # b => readSet'[c] = readSet[c]
    BY <1>5 DEF IndexFetchTuple, FetchRowVersion, BeginScan, GetNextSlot, Fetched, SetType
  <2> QED
    BY <2>1, <2>2 DEF LockingInv
<1>13. ASSUME NEW b \in Backends, RefetchRow(b) \/ RefetchFailed(b) PROVE LockingInv'
  <2>1. CASE RefetchRow(b)
    <3>1. /\ phase[b] = "active" /\ slot[b] # NoValue
          /\ UNCHANGED <<agent, phase, cmd, action, nowait>>
          /\ \A c \in Backends : c # b => slot'[c] = slot[c] /\ readSet'[c] = readSet[c]
      BY <2>1 DEF RefetchRow, CanRefetch, FetchFrame, sessionVars, SetType
    <3> QED
      BY <3>1 DEF LockingInv
  <2>2. CASE RefetchFailed(b)
    BY <1>1, <2>2 DEF RefetchFailed, AbortXact
  <2> QED
    BY <1>13, <2>1, <2>2
<1>6. ASSUME NEW b \in Backends, NEW k \in Keys, TupleUpdate(b) \/ Insert(b, k)
      PROVE  LockingInv'
  <2>1. \A c \in Backends : slot'[c] # NoValue => slot'[c] = slot[c]
    BY <1>6 DEF TupleUpdate, Insert, SetType
  <2> QED
    BY <1>6, <2>1 DEF TupleUpdate, Insert, LockingInv, sessionVars
<1>7. ASSUME NEW b \in Backends, CommitFrame,
             phase[b] # "idle", phase[b] = "active" => cmd[b] = "none",
             \A c \in Backends : c # b => phase'[c] = phase[c],
             phase'[b] # "idle"
      PROVE  LockingInv'
  BY <1>7 DEF CommitFrame, LockingInv, setVars
<1>8. ASSUME NEW b \in Backends, PreCommit(b) PROVE LockingInv'
  BY <1>7, <1>8 DEF PreCommit, SessionType
<1>9. ASSUME NEW b \in Backends, CommitStep(b) PROVE LockingInv'
  <2>1. ASSUME NEW k \in Keys,
               ValidationRefused(b, k) \/ PeekRefused(b, k) \/ ReadInvalid(b, k)
        PROVE  LockingInv'
    BY <1>1, <2>1 DEF ValidationRefused, PeekRefused, ReadInvalid, AbortXact
  <2>6. CASE DeadlockAbort(b)
    BY <1>1, <2>6 DEF DeadlockAbort, AbortXact
  <2>2. CASE Commit(b)
    BY <1>1, <2>2 DEF Commit
  <2>3. ASSUME NEW k \in Keys,
               ValidationLock(b, k) \/ ValidationWait(b, k) \/ ValidationGrant(b, k)
        PROVE  LockingInv'
    BY <1>7, <2>3 DEF ValidationLock, ValidationWait, ValidationGrant, SessionType
  <2>4. ASSUME NEW k \in Keys, PeekLock(b, k) \/ ReadValid(b, k) \/ Install(b, k)
        PROVE  LockingInv'
    BY <1>7, <2>4 DEF PeekLock, ReadValid, Peeks, Install, SessionType
  <2>5. CASE WriteSetLocked(b) \/ Validated(b) \/ Installed(b)
    BY <1>7, <2>5 DEF WriteSetLocked, Validated, Installed, SessionType
  <2> QED
    BY <1>9, <2>1, <2>2, <2>3, <2>4, <2>5, <2>6 DEF CommitStep
<1>10. CASE Environment
  <2>1. ASSUME NEW b \in Backends, Abort(b) \/ LateAbort(b) PROVE LockingInv'
    BY <1>1, <2>1 DEF Abort, LateAbort, AbortXact
  <2>2. ASSUME NEW b \in Backends, NEW k \in Keys, CancelledPut(b, k) PROVE LockingInv'
    BY <1>1, <2>2 DEF CancelledPut
  <2>3. CASE ServiceStop
    BY <2>3 DEF ServiceStop, LockingInv, sessionVars, setVars
  <2>4. ASSUME NEW i \in FeatureId, NEW a \in PolicyActions, LoadPolicy(i, a)
        PROVE  LockingInv'
    BY <2>4 DEF LoadPolicy, LoadEntry, LockingPolicy, LockingInv, SharedType, sessionVars,
                setVars
  <2> QED
    BY <1>10, <2>1, <2>2, <2>3, <2>4 DEF Environment
<1>11. CASE UNCHANGED vars
  BY <1>11 DEF vars, LockingInv, sessionVars, setVars
<1>12. ASSUME NEW b \in Backends, Statement(b) PROVE LockingInv'
  BY <1>2, <1>3, <1>4, <1>5, <1>6, <1>8, <1>12, <1>13, XactAssumption DEF Statement
<1> QED
  BY <1>9, <1>10, <1>11, <1>12 DEF Next
-----------------------------------------------------------------------------
(* Steps that take no lock and put nothing into the store. *)

\* A step that leaves the rows, the locks and the sets alone, and installs
\* nothing: beginning, starting and ending statements, the callback's loops.
LEMMA CalmStep ==
    ASSUME TypeOK, TwoPLInv, LockingInv',
           UNCHANGED <<store, tupleS, tupleX, readSet, writeSet>>,
           \A c \in Backends : slot'[c] \in {slot[c], NoValue},
           \A c \in Backends : phase'[c] = "active" => phase[c] \in {"idle", "active"},
           \A c \in Backends : phase[c] # "idle" => xid'[c] = xid[c],
           \A c \in Backends, k \in Keys : writeSet[c][k] # NoValue => phase[c] # "idle",
           \A z \in Xids0, k \in Keys : Inst(z, k)' => Inst(z, k)
    PROVE  TwoPLInv'
<1> USE DEF TwoPLInv
<1>1. \A c \in Backends, k \in Keys : readSet[c][k] # NoValue => phase[c] # "idle"
  BY DEF LockingInv
<1>2. HeldInv'
  BY DEF HeldInv, Holders
<1>3. SeenInv'
  BY <1>1 DEF SeenInv
<1>4. LockedReadsStable'
  BY <1>1 DEF LockedReadsStable
<1> QED
  BY <1>2, <1>3, <1>4

\* Beginning a transaction, starting and ending a statement, and what the
\* environment does to the policy and to the service.
LEMMA QuietTwoPL ==
    ASSUME IInv, TwoPLInv, LockingInv',
           \/ \E b \in Backends, i \in Isolations : Begin(b, i)
           \/ \E b \in Backends, c \in Commands : ExecutorStart(b, c)
           \/ \E b \in Backends : ExecutorEnd(b)
           \/ ServiceStop
           \/ \E i \in FeatureId, a \in PolicyActions : LoadPolicy(i, a)
           \/ UNCHANGED vars
    PROVE  TwoPLInv'
<1> USE DEF IInv
<1>1. /\ UNCHANGED <<store, tupleS, tupleX, readSet, writeSet, writes, todo>>
      /\ \A c \in Backends : slot'[c] \in {slot[c], NoValue}
  BY DEF Begin, ExecutorStart, ExecutorEnd, ServiceStop, LoadPolicy, vars, sessionVars,
         setVars, lockVars, histVars, TypeOK, SetType
<1>2. /\ \A c \in Backends : phase'[c] # phase[c] => phase[c] = "idle" /\ phase'[c] = "active"
      /\ \A c \in Backends : phase[c] # "idle" => xid'[c] = xid[c]
  BY DEF Begin, ExecutorStart, ExecutorEnd, ServiceStop, LoadPolicy, vars, sessionVars,
         TypeOK, SessionType
<1>3. \A c \in Backends : Pending(c)' = Pending(c)
  BY <1>1, <1>2 DEF Pending, WriteKeys
<1>4. \A c \in Backends : Pending(c) # {} => xid'[c] = xid[c]
  BY <1>2 DEF Pending
<1>5. \A z \in Xids0, k \in Keys : Inst(z, k)' <=> Inst(z, k)
  BY <1>1, <1>3, <1>4, InstSame
<1>6. \A c \in Backends, k \in Keys : writeSet[c][k] # NoValue => phase[c] # "idle"
  BY DEF OwnInv
<1> QED
  BY <1>1, <1>2, <1>5, <1>6, CalmStep

\* The loops of the commit callback up to the installation.
LEMMA CallbackTwoPL ==
    ASSUME IInv, TwoPLInv, LockingInv', NEW b \in Backends, NEW k \in Keys,
           \/ PreCommit(b)
           \/ ValidationLock(b, k) \/ ValidationWait(b, k) \/ ValidationGrant(b, k)
           \/ WriteSetLocked(b)
           \/ PeekLock(b, k) \/ ReadValid(b, k) \/ Validated(b) \/ Installed(b)
    PROVE  TwoPLInv'
<1> USE DEF IInv
<1>1. /\ CommitFrame /\ UNCHANGED store
      /\ \A c \in Backends : c # b => phase'[c] = phase[c] /\ todo'[c] = todo[c]
      /\ phase'[b] # "active"
  BY DEF PreCommit, ValidationLock, ValidationWait, ValidationGrant, WriteSetLocked, PeekLock,
         ReadValid, Validated, Installed, TypeOK, SessionType
<1>2. UNCHANGED <<xid, tupleS, tupleX, readSet, writeSet, slot>>
  BY <1>1 DEF CommitFrame, setVars
<1>3. \A c \in Backends : c # b => Pending(c)' = Pending(c)
  BY <1>1, <1>2 DEF Pending, WriteKeys
<1>4. \A z \in Xids0, j \in Keys : Inst(z, j)' => Inst(z, j)
  <2>1. CASE WriteSetLocked(b)
    <3>1. /\ phase'[b] = "validate" /\ xid[b] \in Xids0
          /\ writes' = [writes EXCEPT ![xid[b]] = WriteKeys(b)]
      BY <2>1 DEF WriteSetLocked, TypeOK, SessionType
    <3>2. Pending(b)' = WriteKeys(b) /\ Pending(b) = {}
      BY <1>2, <2>1, <3>1 DEF Pending, WriteKeys, WriteSetLocked
    <3>3. \A z \in Xids0 : writes'[z] = IF z = xid[b] THEN WriteKeys(b) ELSE writes[z]
      BY <3>1 DEF TypeOK, HistType
    <3> QED
      BY <1>2, <1>3, <3>2, <3>3 DEF Inst
  <2>2. CASE ~WriteSetLocked(b)
    <3>1. writes' = writes
      BY <2>2 DEF PreCommit, ValidationLock, ValidationWait, ValidationGrant, PeekLock,
                  ReadValid, Validated, Installed, histVars
    <3>2. Pending(b)' = Pending(b)
      <4>1. CASE PreCommit(b) \/ ValidationLock(b, k) \/ ValidationWait(b, k)
                 \/ ValidationGrant(b, k)
        BY <4>1 DEF PreCommit, ValidationLock, ValidationWait, ValidationGrant, Pending,
                    TypeOK, SessionType
      <4>2. CASE PeekLock(b, k) \/ ReadValid(b, k)
        BY <1>2, <4>2 DEF PeekLock, ReadValid, Peeks, Pending, WriteKeys, TypeOK, SessionType
      <4>3. CASE Validated(b) \/ Installed(b)
        BY <1>2, <4>3 DEF Validated, Installed, Pending, WriteKeys, TypeOK, SessionType
      <4> QED
        BY <2>2, <4>1, <4>2, <4>3
    <3> QED
      BY <1>2, <1>3, <3>1, <3>2 DEF Inst
  <2> QED
    BY <2>1, <2>2
<1>5. \A c \in Backends, j \in Keys : writeSet[c][j] # NoValue => phase[c] # "idle"
  BY DEF OwnInv
<1>6. \A c \in Backends : phase'[c] = "active" => phase[c] \in {"idle", "active"}
  BY <1>1
<1> QED
  BY <1>1, <1>2, <1>4, <1>5, <1>6, CalmStep

-----------------------------------------------------------------------------
(* Leaving a transaction. *)

\* The locks of a transaction go with its sets.
LEMMA LeaveTwoPL ==
    ASSUME IInv, TwoPLInv, LockingInv', NEW b \in Backends, EndXact(b),
           \A j \in Keys, z \in Xids0 : Inst(z, j)' => z \in store'[j].seen,
           \A c \in Backends, j \in Keys, z \in Xids0 : c # b /\ Inst(z, j)' =>
               /\ writeSet[c][j] # NoValue => z \in writeSet[c][j].seen
               /\ phase[c] = "active" /\ readSet[c][j] # NoValue => z \in readSet[c][j].seen
               /\ slot[c] # NoValue /\ slot[c].key = j => z \in slot[c].ver.seen,
           \A c \in Backends, j \in Keys : c # b /\ readSet[c][j] # NoValue =>
               store'[j].xid \in {readSet[c][j].xid, xid[c]}
    PROVE  TwoPLInv'
<1> USE DEF IInv, TwoPLInv
<1>1. /\ \A j \in Keys : readSet'[b][j] = NoValue /\ writeSet'[b][j] = NoValue
      /\ slot'[b] = NoValue
      /\ \A c \in Backends : c # b =>
            /\ phase'[c] = phase[c] /\ xid'[c] = xid[c] /\ slot'[c] = slot[c]
            /\ readSet'[c] = readSet[c] /\ writeSet'[c] = writeSet[c]
  BY DEF EndXact, NoKeys, TypeOK, SessionType, SetType
<1>2. \A c \in Backends, j \in Keys :
        /\ c \in tupleX'[j] <=> (c # b /\ c \in tupleX[j])
        /\ c \in tupleS'[j] <=> (c # b /\ c \in tupleS[j])
  BY DEF EndXact, TypeOK, LockType
<1>3. HeldInv'
  <2>1. \A c \in Backends : slot[c] # NoValue => slot[c].key \in Keys
    BY DEF TypeOK, SetType, Planned
  <2> QED
    BY <1>1, <1>2, <2>1 DEF HeldInv, Holders
<1>4. SeenInv'
  BY <1>1 DEF SeenInv
<1>5. LockedReadsStable'
  BY <1>1 DEF LockedReadsStable
<1> QED
  BY <1>3, <1>4, <1>5

\* An abort or a commit installs nothing and leaves the rows alone.
LEMMA EndTwoPL ==
    ASSUME IInv, TwoPLInv, LockingInv', NEW b \in Backends, phase[b] # "idle",
           AbortXact(b) \/ Commit(b)
    PROVE  TwoPLInv'
<1> USE DEF IInv
<1>1. /\ EndXact(b) /\ UNCHANGED store
      /\ \A c \in Backends : c # b =>
            phase'[c] = phase[c] /\ xid'[c] = xid[c] /\ todo'[c] = todo[c]
            /\ writeSet'[c] = writeSet[c]
  BY DEF AbortXact, Commit, EndXact, TypeOK, SessionType, SetType
<1>2. \A c \in Backends : c # b => Pending(c)' = Pending(c)
  BY <1>1 DEF Pending, WriteKeys
<1>3. \A z \in Xids0 : /\ writes'[z] \subseteq writes[z]
                       /\ z = xid[b] => \A j \in Pending(b) : j \notin writes'[z]
  <2>1. xid[b] \in Xids0
    BY DEF TypeOK, SessionType
  <2>2. CASE AbortXact(b)
    <3>1. \A z \in Xids0 : writes'[z] =
            IF z = xid[b] THEN IF phase[b] \in {"install", "done"} THEN writes[z] \ todo[b] ELSE {}
                          ELSE writes[z]
      BY <2>1, <2>2 DEF AbortXact, TypeOK, HistType
    <3> QED
      BY <3>1 DEF Pending
  <2>3. CASE Commit(b)
    BY <2>3 DEF Commit, Pending
  <2> QED
    BY <2>2, <2>3
<1>4. \A z \in Xids0, j \in Keys : Inst(z, j)' => Inst(z, j)
  BY <1>1, <1>2, <1>3 DEF Inst
<1> QED
  BY <1>1, <1>4, LeaveTwoPL DEF TwoPLInv, SeenInv, LockedReadsStable
-----------------------------------------------------------------------------
(* Puts. *)

\* The row that a commit installs was locked exclusively, so nobody else holds
\* a version of it, and it is built on every update installed before.
LEMMA PutTwoPL ==
    ASSUME IInv, TwoPLInv, NEW b \in Backends, NEW k \in Keys, k \in Pending(b),
           phase[b] = "install", store' = [store EXCEPT ![k] = writeSet[b][k]],
           \A z \in Xids0, j \in Keys : Inst(z, j)' => Inst(z, j) \/ (z = xid[b] /\ j = k)
    PROVE  /\ \A j \in Keys, z \in Xids0 : Inst(z, j)' => z \in store'[j].seen
           /\ \A c \in Backends, j \in Keys, z \in Xids0 : Inst(z, j)' =>
               /\ writeSet[c][j] # NoValue => z \in writeSet[c][j].seen
               /\ phase[c] = "active" /\ readSet[c][j] # NoValue => z \in readSet[c][j].seen
               /\ slot[c] # NoValue /\ slot[c].key = j => z \in slot[c].ver.seen
           /\ \A c \in Backends, j \in Keys : readSet[c][j] # NoValue =>
               store'[j].xid \in {readSet[c][j].xid, xid[c]}
<1> USE DEF IInv, TwoPLInv
<1>1. writeSet[b][k] # NoValue /\ writeSet[b][k].xid = xid[b] /\ b \in tupleX[k]
  BY DEF LockInv, WriteKeys, OwnInv, HeldInv
<1>2. /\ \A j \in Keys : j # k => store'[j] = store[j]
      /\ store'[k] = writeSet[b][k]
  BY DEF TypeOK, SharedType, RowMap
<1>3. \A c \in Backends : c \in Holders(k) => c = b
  BY <1>1 DEF HeldInv
<1>4. \A c \in Backends :
        /\ writeSet[c][k] # NoValue => c = b
        /\ readSet[c][k] # NoValue => c = b
        /\ slot[c] # NoValue => slot[c].key # k
  BY <1>3 DEF HeldInv, Holders, LockingInv
<1>5. \A j \in Keys, z \in Xids0 : Inst(z, j)' => z \in store'[j].seen
  BY <1>1, <1>2 DEF SeenInv
<1>6. \A c \in Backends, j \in Keys, z \in Xids0 : Inst(z, j)' =>
        /\ writeSet[c][j] # NoValue => z \in writeSet[c][j].seen
        /\ phase[c] = "active" /\ readSet[c][j] # NoValue => z \in readSet[c][j].seen
        /\ slot[c] # NoValue /\ slot[c].key = j => z \in slot[c].ver.seen
  BY <1>4 DEF SeenInv
<1>7. \A c \in Backends, j \in Keys : readSet[c][j] # NoValue =>
        store'[j].xid \in {readSet[c][j].xid, xid[c]}
  BY <1>1, <1>2, <1>4 DEF LockedReadsStable
<1> QED
  BY <1>5, <1>6, <1>7

\* The last loop of the commit callback puts one row of the write set.
LEMMA InstallTwoPL ==
    ASSUME IInv, TwoPLInv, LockingInv', NEW b \in Backends, NEW k \in Keys, Install(b, k)
    PROVE  TwoPLInv'
<1> USE DEF IInv
<1>1. /\ phase[b] = "install" /\ k \in todo[b] /\ CommitFrame /\ UNCHANGED phase
      /\ todo'[b] = todo[b] \ {k} /\ \A c \in Backends : c # b => todo'[c] = todo[c]
  BY DEF Install, IsFirst, TypeOK, SessionType
<1>2. UNCHANGED <<xid, tupleS, tupleX, readSet, writeSet, slot>>
  BY <1>1 DEF CommitFrame, setVars
<1>3. /\ \A c \in Backends : c # b => Pending(c)' = Pending(c)
      /\ Pending(b)' = Pending(b) \ {k} /\ k \in Pending(b)
  BY <1>1, <1>2 DEF Pending, WriteKeys
<1>4. CASE serving
  <2>1. store' = [store EXCEPT ![k] = writeSet[b][k]] /\ writes' = writes
    BY <1>4 DEF Install
  <2>2. \A z \in Xids0, j \in Keys : Inst(z, j)' => Inst(z, j) \/ (z = xid[b] /\ j = k)
    BY <1>2, <1>3, <2>1 DEF Inst
  <2>3. /\ \A j \in Keys, z \in Xids0 : Inst(z, j)' => z \in store'[j].seen
        /\ \A c \in Backends, j \in Keys, z \in Xids0 : Inst(z, j)' =>
            /\ writeSet[c][j] # NoValue => z \in writeSet[c][j].seen
            /\ phase[c] = "active" /\ readSet[c][j] # NoValue => z \in readSet[c][j].seen
            /\ slot[c] # NoValue /\ slot[c].key = j => z \in slot[c].ver.seen
        /\ \A c \in Backends, j \in Keys : readSet[c][j] # NoValue =>
            store'[j].xid \in {readSet[c][j].xid, xid[c]}
    BY <1>1, <1>3, <2>1, <2>2, PutTwoPL
  <2>4. HeldInv'
    BY <1>2 DEF TwoPLInv, HeldInv, Holders
  <2>5. SeenInv' /\ LockedReadsStable'
    BY <1>1, <1>2, <2>3 DEF TwoPLInv, SeenInv, LockedReadsStable
  <2> QED
    BY <2>4, <2>5 DEF TwoPLInv
<1>5. CASE ~serving
  <2>1. store' = store /\ writes' = [writes EXCEPT ![xid[b]] = @ \ {k}]
    BY <1>5 DEF Install
  <2>2. xid[b] \in Xids0
    BY DEF TypeOK, SessionType
  <2>3. \A z \in Xids0 : writes'[z] = IF z = xid[b] THEN writes[z] \ {k} ELSE writes[z]
    BY <2>1, <2>2 DEF TypeOK, HistType
  <2>4. \A z \in Xids0, j \in Keys : Inst(z, j)' => Inst(z, j)
    BY <1>2, <1>3, <2>3 DEF Inst
  <2>5. \A c \in Backends, j \in Keys : writeSet[c][j] # NoValue => phase[c] # "idle"
    BY DEF OwnInv
  <2> QED
    BY <1>1, <1>2, <2>1, <2>4, <2>5, CalmStep
<1> QED
  BY <1>4, <1>5

\* A cancelled put is carried out although its transaction has aborted.
LEMMA CancelledPutTwoPL ==
    ASSUME IInv, TwoPLInv, LockingInv', NEW b \in Backends, NEW k \in Keys,
           CancelledPut(b, k)
    PROVE  TwoPLInv'
<1> USE DEF IInv
<1>1. /\ EndXact(b) /\ phase[b] = "install" /\ k \in todo[b] /\ k \in Pending(b)
      /\ store' = [store EXCEPT ![k] = writeSet[b][k]]
  BY DEF CancelledPut, IsFirst, Pending
<1>2. \A c \in Backends : c # b =>
        phase'[c] = phase[c] /\ xid'[c] = xid[c] /\ todo'[c] = todo[c]
        /\ writeSet'[c] = writeSet[c]
  BY <1>1 DEF EndXact, TypeOK, SessionType, SetType
<1>3. \A c \in Backends : c # b => Pending(c)' = Pending(c)
  BY <1>2 DEF Pending, WriteKeys
<1>4. xid[b] \in Xids0
  BY DEF TypeOK, SessionType
<1>5. \A z \in Xids0 : writes'[z] = IF z = xid[b] THEN writes[z] \ (todo[b] \ {k})
                                                 ELSE writes[z]
  BY <1>4 DEF CancelledPut, TypeOK, HistType
<1>6. \A j \in Pending(b) : j \in todo[b]
  BY <1>1 DEF Pending
<1>7. \A z \in Xids0, j \in Keys : Inst(z, j)' => Inst(z, j) \/ (z = xid[b] /\ j = k)
  <2> SUFFICES ASSUME NEW z \in Xids0, NEW j \in Keys, Inst(z, j)', ~(z = xid[b] /\ j = k)
               PROVE  Inst(z, j)
    OBVIOUS
  <2>1. j \in writes[z] /\ (z = xid[b] => j \notin Pending(b))
    BY <1>5, <1>6 DEF Inst
  <2>2. \A c \in Backends : c # b /\ xid[c] = z => j \notin Pending(c)
    BY <1>2, <1>3 DEF Inst
  <2> QED
    BY <2>1, <2>2 DEF Inst
<1> QED
  BY <1>1, <1>7, PutTwoPL, LeaveTwoPL

-----------------------------------------------------------------------------
(* Fetches and writes. *)

\* A tuple lock that is waited for is held when LockTuple returns, and no two
\* backends hold it in conflicting modes.
LEMMA LockTupleHeld ==
    ASSUME TypeOK, HeldInv, NEW b \in Backends, NEW k \in Keys, NEW mode \in {"S", "X"},
           ~nowait[b], LockTuple(b, k, mode)
    PROVE  /\ \A c, d \in Backends, j \in Keys : c \in tupleX'[j] /\ d \in Holders(j)' => c = d
           /\ \A c \in Backends, j \in Keys : c \in Holders(j) => c \in Holders(j)'
           /\ \A c \in Backends, j \in Keys : c \in tupleX[j] => c \in tupleX'[j]
           /\ b \in Holders(k)'
           /\ mode = "X" => b \in tupleX'[k]
<1>1. Grantable(b, k, mode)
  BY DEF LockTuple
<1>2. CASE mode = "S"
  BY <1>1, <1>2 DEF LockTuple, Grantable, HeldInv, Holders, TypeOK, LockType
<1>3. CASE mode = "X"
  BY <1>1, <1>3 DEF LockTuple, Grantable, HeldInv, Holders, TypeOK, LockType
<1> QED
  BY <1>2, <1>3
\* A version that is fetched is locked and built on all that is installed.
LEMMA FetchTwoPL ==
    ASSUME IInv, TwoPLInv, LockingInv', NEW b \in Backends, NEW k \in Keys,
           \/ IndexFetchTuple(b, k) \/ FetchRowVersion(b, k)
           \/ BeginScan(b) \/ GetNextSlot(b, k)
    PROVE  TwoPLInv'
<1> USE DEF IInv, TwoPLInv
<1> DEFINE Mode == IF ForModify(b) THEN "X" ELSE "S"
<1>1. /\ phase[b] = "active" /\ cmd[b] # "none"
      /\ UNCHANGED <<store, phase, xid, todo, writeSet, writes>>
  BY DEF IndexFetchTuple, FetchRowVersion, BeginScan, GetNextSlot, CanFetch, FetchFrame,
         sessionVars, histVars
<1>2. \A z \in Xids0, j \in Keys : Inst(z, j)' <=> Inst(z, j)
  BY <1>1 DEF Inst, Pending, WriteKeys
<1>3. DetectAll(b) /\ ~nowait[b]
  BY <1>1 DEF DetectAll, LockingInv
<1>4. Mode \in {"S", "X"}
  OBVIOUS
<1> HIDE DEF Mode
<1>5. NoTupleLock \/ LockTuple(b, k, Mode) \/ LockTuple(b, k, "S")
  BY DEF IndexFetchTuple, FetchRowVersion, BeginScan, GetNextSlot, Mode
<1>6. /\ \A c, d \in Backends, j \in Keys : c \in tupleX'[j] /\ d \in Holders(j)' => c = d
      /\ \A c \in Backends, j \in Keys : c \in Holders(j) => c \in Holders(j)'
      /\ \A c \in Backends, j \in Keys : c \in tupleX[j] => c \in tupleX'[j]
      /\ NoTupleLock \/ b \in Holders(k)'
  <2>1. CASE NoTupleLock
    BY <2>1 DEF NoTupleLock, HeldInv, Holders
  <2>2. CASE LockTuple(b, k, Mode)
    BY <1>3, <1>4, <2>2, LockTupleHeld
  <2>3. CASE LockTuple(b, k, "S")
    BY <1>3, <2>3, LockTupleHeld
  <2> QED
    BY <1>5, <2>1, <2>2, <2>3
<1>7. Own(b, k) # NoValue => b \in Holders(k) /\ \A z \in Xids0 : Inst(z, k) => z \in Own(b, k).seen
  BY <1>1 DEF Own, HeldInv, Holders, SeenInv
<1>8. \/ UNCHANGED <<slot, readSet>>
      \/ /\ Own(b, k) # NoValue
         /\ Fetched(b, k, Own(b, k), FALSE)
      \/ /\ b \in Holders(k)'
         /\ \E r \in BOOLEAN : Fetched(b, k, store[k], r)
  <2>1. CASE IndexFetchTuple(b, k)
    BY <1>3, <1>4, <2>1, LockTupleHeld DEF IndexFetchTuple, ForRead, Mode
  <2>2. CASE FetchRowVersion(b, k)
    BY <1>3, <1>4, <2>2, LockTupleHeld DEF FetchRowVersion, Mode
  <2>3. CASE BeginScan(b)
    BY <2>3 DEF BeginScan
  <2>4. CASE GetNextSlot(b, k)
    BY <1>3, <2>4, LockTupleHeld DEF GetNextSlot, ForRead
  <2> QED
    BY <2>1, <2>2, <2>3, <2>4
<1>9. PICK v \in VersionOrNull, r \in BOOLEAN :
        /\ UNCHANGED <<slot, readSet>> \/ Fetched(b, k, v, r)
        /\ UNCHANGED <<slot, readSet>> \/ b \in Holders(k)'
        /\ UNCHANGED <<slot, readSet>> \/ \A z \in Xids0 : Inst(z, k) => z \in v.seen
        /\ UNCHANGED <<slot, readSet>> \/ r = FALSE \/ v = store[k]
  <2>0. Own(b, k) \in VersionOrNull /\ store[k] \in VersionOrNull
    BY DEF Own, TypeOK, SharedType, SetType, RowMap, WriteMap, VersionOrNull
  <2>1. CASE UNCHANGED <<slot, readSet>>
    BY <2>0, <2>1
  <2>2. CASE Own(b, k) # NoValue /\ Fetched(b, k, Own(b, k), FALSE)
    BY <1>6, <1>7, <2>0, <2>2
  <2>3. CASE b \in Holders(k)' /\ \E r \in BOOLEAN : Fetched(b, k, store[k], r)
    BY <2>0, <2>3 DEF SeenInv
  <2> QED
    BY <1>8, <2>1, <2>2, <2>3
<1>10. /\ \A c \in Backends : c # b => slot'[c] = slot[c] /\ readSet'[c] = readSet[c]
       /\ \A j \in Keys : j # k => readSet'[b][j] = readSet[b][j]
       /\ slot'[b] # slot[b] => slot'[b].key = k /\ slot'[b].ver = v
       /\ readSet'[b][k] # readSet[b][k] => readSet'[b][k] = v /\ v = store[k]
  <2>1. readSet \in [Backends -> [Keys -> VersionOrNull]]
    BY DEF TypeOK, SetType, RowMap
  <2>2. /\ \/ slot' = slot
           \/ slot' = [slot EXCEPT ![b] = [key |-> k, ver |-> v, refetched |-> FALSE]]
        /\ readSet' = readSet \/ (readSet' = [readSet EXCEPT ![b][k] = v] /\ v = store[k])
    BY <1>9 DEF Fetched
  <2>3. \A c \in Backends : c # b => readSet'[c] = readSet[c]
    BY <2>1, <2>2
  <2> QED
    BY <2>1, <2>2, <2>3, Except2 DEF TypeOK, SetType
<1>11. HeldInv'
  <2>1. \A c \in Backends : slot[c] # NoValue => slot[c].key \in Keys
    BY DEF TypeOK, SetType, Planned
  <2>2. \A c \in Backends, j \in Keys : readSet'[c][j] # NoValue => c \in Holders(j)'
    BY <1>6, <1>9, <1>10 DEF HeldInv
  <2>3. \A c \in Backends : slot'[c] # NoValue => c \in Holders(slot[c].key)'
    <3> SUFFICES ASSUME NEW c \in Backends, slot'[c] # NoValue
                 PROVE  c \in Holders(slot[c].key)'
      OBVIOUS
    <3>1. CASE slot'[c] = slot[c]
      BY <1>6, <2>1, <3>1 DEF HeldInv, Holders
    <3>2. CASE slot'[c] # slot[c]
      BY <1>9, <1>10, <3>2 DEF Holders
    <3> QED
      BY <3>1, <3>2
  <2> QED
    BY <1>1, <1>6, <2>2, <2>3 DEF HeldInv
<1>12. SeenInv'
  BY <1>1, <1>2, <1>9, <1>10 DEF SeenInv
<1>13. LockedReadsStable'
  BY <1>1, <1>10 DEF LockedReadsStable
<1> QED
  BY <1>11, <1>12, <1>13

\* The second fetch of an UPDATE finds the row as its plan has found it.
LEMMA RefetchTwoPL ==
    ASSUME IInv, TwoPLInv, LockingInv', NEW b \in Backends, RefetchRow(b)
    PROVE  TwoPLInv'
<1> USE DEF IInv, TwoPLInv
<1>0. PICK k \in Keys : k = slot[b].key
  BY DEF RefetchRow, CanRefetch, TypeOK, SetType, Planned
<1>1. /\ phase[b] = "active" /\ slot[b] # NoValue /\ slot[b] \in Planned
      /\ UNCHANGED <<store, phase, xid, todo, writeSet, writes>>
  BY DEF RefetchRow, CanRefetch, FetchFrame, sessionVars, histVars, TypeOK, SetType, Planned
<1>2. \A z \in Xids0, j \in Keys : Inst(z, j)' <=> Inst(z, j)
  BY <1>1 DEF Inst, Pending, WriteKeys
<1>3. cmd[b] # "none" /\ DetectAll(b) /\ ~nowait[b]
  BY <1>1 DEF DetectAll, LockingInv
<1>4. /\ \A c, d \in Backends, j \in Keys : c \in tupleX'[j] /\ d \in Holders(j)' => c = d
      /\ \A c \in Backends, j \in Keys : c \in Holders(j) => c \in Holders(j)'
      /\ \A c \in Backends, j \in Keys : c \in tupleX[j] => c \in tupleX'[j]
      /\ b \in Holders(k)'
  <2>1. LockTuple(b, k, "X")
    BY <1>0, <1>3 DEF RefetchRow
  <2> QED
    BY <1>3, <2>1, LockTupleHeld
<1>5. \/ readSet' = readSet
      \/ readSet' = [readSet EXCEPT ![b][k] = store[k]] /\ store[k] # NoValue
  BY <1>0 DEF RefetchRow
<1>6. \A c \in Backends, j \in Keys : readSet'[c][j] # readSet[c][j] =>
        c = b /\ j = k /\ readSet'[c][j] = store[k]
  <2>1. readSet \in [Backends -> [Keys -> VersionOrNull]]
    BY DEF TypeOK, SetType, RowMap
  <2> QED
    BY <1>1, <1>5, <2>1, Except2
<1>7. \A c \in Backends : slot'[c] # NoValue =>
        slot[c] # NoValue /\ slot'[c].key = slot[c].key /\ slot'[c].ver = slot[c].ver
  <2>1. slot' = [slot EXCEPT ![b].refetched = TRUE]
    BY DEF RefetchRow
  <2>2. /\ \A c \in Backends : c # b => slot'[c] = slot[c]
        /\ slot'[b].key = slot[b].key /\ slot'[b].ver = slot[b].ver
    BY <1>1, <2>1 DEF TypeOK, SetType, Planned
  <2> QED
    BY <1>1, <2>2
<1>8. HeldInv'
  <2>1. \A c \in Backends : slot[c] # NoValue => slot[c].key \in Keys
    BY DEF TypeOK, SetType, Planned
  <2>2. \A c \in Backends, j \in Keys : readSet'[c][j] # NoValue => c \in Holders(j)'
    <3> SUFFICES ASSUME NEW c \in Backends, NEW j \in Keys, readSet'[c][j] # NoValue
                 PROVE  c \in Holders(j)'
      OBVIOUS
    <3>1. CASE readSet'[c][j] = readSet[c][j]
      BY <1>4, <3>1 DEF HeldInv
    <3>2. CASE readSet'[c][j] # readSet[c][j]
      BY <1>4, <1>6, <3>2
    <3> QED
      BY <3>1, <3>2
  <2>3. \A c \in Backends : slot'[c] # NoValue => c \in Holders(slot[c].key)'
    BY <1>4, <1>7, <2>1 DEF HeldInv, Holders
  <2> QED
    BY <1>1, <1>4, <2>2, <2>3 DEF HeldInv
<1>9. SeenInv'
  BY <1>1, <1>2, <1>6, <1>7 DEF SeenInv
<1>10. LockedReadsStable'
  BY <1>1, <1>6 DEF LockedReadsStable
<1> QED
  BY <1>8, <1>9, <1>10

\* An update and an insert lock the row exclusively before they enter the write
\* set; a row that is inserted is no update of an installed one.
LEMMA WriteTwoPL ==
    ASSUME IInv, TwoPLInv, LockingInv', NEW b \in Backends, NEW k \in Keys,
           TupleUpdate(b) \/ Insert(b, k)
    PROVE  TwoPLInv'
<1> USE DEF IInv, TwoPLInv
<1>1. /\ phase[b] = "active" /\ UNCHANGED <<phase, xid, todo, readSet, writes>>
      /\ cmd[b] # "none" /\ xid[b] \in Xids0
  BY DEF TupleUpdate, Replacing, Insert, LockingInv, sessionVars, histVars, TypeOK, SessionType
<1>2. DetectAll(b) /\ ~nowait[b]
  BY <1>1 DEF DetectAll, LockingInv
<1>3. PICK j \in Keys, v \in Version :
        /\ writeSet' = [writeSet EXCEPT ![b][j] = v]
        /\ xid[b] \in v.seen
        /\ LockTuple(b, j, "X") \/ (NoTupleLock /\ b \in tupleX[j])
        /\ \A z \in Xids0 : Inst(z, j) => z \in v.seen
        /\ \A c \in Backends : slot'[c] \in {slot[c], NoValue}
        /\ \A i \in Keys : store'[i] # store[i] => store[i] = NoValue
  <2>1. CASE TupleUpdate(b)
    <3> DEFINE j == slot[b].key
               v == [xid |-> xid[b], priv |-> FALSE, seen |-> slot[b].ver.seen \union {xid[b]}]
    <3>1. j \in Keys /\ v \in Version /\ slot[b] # NoValue
      BY <1>1, <2>1 DEF TupleUpdate, Replacing, TypeOK, SetType, Planned, Version
    <3>2. \A z \in Xids0 : Inst(z, j) => z \in v.seen
      BY <3>1 DEF SeenInv
    <3>3. LockTuple(b, j, "X") \/ (NoTupleLock /\ b \in tupleX[j])
      BY <1>2, <2>1, <3>1 DEF TupleUpdate, HeldInv
    <3>4. writeSet' = [writeSet EXCEPT ![b][j] = v] /\ xid[b] \in v.seen
      BY <2>1 DEF TupleUpdate
    <3>5. store' = store /\ \A c \in Backends : slot'[c] \in {slot[c], NoValue}
      BY <2>1 DEF TupleUpdate, TypeOK, SetType
    <3> HIDE DEF j, v
    <3> QED
      BY <3>1, <3>2, <3>3, <3>4, <3>5
  <2>2. CASE Insert(b, k)
    <3> DEFINE v == [xid |-> xid[b], priv |-> FALSE, seen |-> {xid[b]}]
    <3>1. v \in Version /\ xid[b] \in v.seen
      BY <1>1 DEF Version
    <3>2. \A z \in Xids0 : ~Inst(z, k)
      BY <2>2 DEF Insert, StoreInv, Public
    <3>3. LockTuple(b, k, "X") /\ slot' = slot /\ writeSet' = [writeSet EXCEPT ![b][k] = v]
      BY <1>2, <2>2 DEF Insert
    <3>4. \A i \in Keys : store'[i] # store[i] => store[i] = NoValue
      BY <2>2 DEF Insert, TypeOK, SharedType, RowMap
    <3> HIDE DEF v
    <3> QED
      BY <3>1, <3>2, <3>3, <3>4
  <2> QED
    BY <2>1, <2>2
<1>4. writeSet \in [Backends -> [Keys -> {u \in Version : ~u.priv} \union {NoValue}]]
  BY DEF TypeOK, SetType, WriteMap
<1>5. \A c \in Backends, i \in Keys :
        writeSet'[c][i] = IF c = b /\ i = j THEN v ELSE writeSet[c][i]
  BY <1>3, <1>4, Except2
<1>6. \A z \in Xids0, i \in Keys : Inst(z, i)' <=> Inst(z, i)
  <2>1. \A c \in Backends : Pending(c)' = Pending(c)
    <3>1. \A c \in Backends : c # b => WriteKeys(c)' = WriteKeys(c)
      BY <1>5 DEF WriteKeys
    <3> QED
      BY <1>1, <3>1 DEF Pending
  <2> QED
    BY <1>1, <2>1, InstSame
<1>7. /\ \A c, d \in Backends, i \in Keys : c \in tupleX'[i] /\ d \in Holders(i)' => c = d
      /\ \A c \in Backends, i \in Keys : c \in Holders(i) => c \in Holders(i)'
      /\ \A c \in Backends, i \in Keys : c \in tupleX[i] => c \in tupleX'[i]
      /\ b \in tupleX'[j]
  <2>1. CASE LockTuple(b, j, "X")
    BY <1>2, <2>1, LockTupleHeld
  <2>2. CASE NoTupleLock /\ b \in tupleX[j]
    BY <2>2 DEF NoTupleLock, HeldInv, Holders
  <2> QED
    BY <1>3, <2>1, <2>2
<1>8. HeldInv'
  <2>1. \A c \in Backends : slot'[c] # NoValue => slot'[c] = slot[c] /\ slot[c].key \in Keys
    BY <1>3 DEF TypeOK, SetType, Planned
  <2>2. \A c \in Backends : slot'[c] # NoValue => c \in Holders(slot[c].key)'
    BY <1>7, <2>1 DEF HeldInv, Holders
  <2> QED
    BY <1>1, <1>5, <1>7, <2>2 DEF HeldInv
<1>9. \A i \in Keys : store[i] = NoValue => \A z \in Xids0 : ~Inst(z, i)
  BY DEF StoreInv, Public
<1>10. SeenInv'
  BY <1>1, <1>3, <1>5, <1>6, <1>9 DEF SeenInv
<1>11. \A c \in Backends, i \in Keys : readSet[c][i] # NoValue => store[i] # NoValue
  BY VersionXid DEF SetInv, StoreInv, Public
<1>12. LockedReadsStable'
  BY <1>1, <1>3, <1>11 DEF LockedReadsStable
<1> QED
  BY <1>8, <1>10, <1>12

-----------------------------------------------------------------------------
(* The theorems. *)

\* The initial states satisfy the invariant.
LEMMA TwoPLInit == ASSUME LockingPolicy, Init PROVE TwoPLInv
<1>1. LockingInv
  BY LockingInit
<1>2. HeldInv
  BY DEF Init, HeldInv, NoKeys
<1>3. \A k \in Keys, z \in Xids0 : Inst(z, k) => z = 0 /\ k \in InitialKeys
  BY DEF Init, Inst
<1>4. SeenInv
  BY <1>3 DEF Init, SeenInv, NoKeys
<1>5. LockedReadsStable
  BY DEF Init, LockedReadsStable, NoKeys
<1> QED
  BY <1>1, <1>2, <1>4, <1>5 DEF TwoPLInv

\* Every step keeps it.
LEMMA TwoPLNext == ASSUME LockingPolicy, IInv, TwoPLInv, [Next]_vars PROVE TwoPLInv'
<1>1. LockingInv'
  BY LockingStep DEF IInv, TwoPLInv
<1>2. ASSUME NEW b \in Backends, Statement(b) PROVE TwoPLInv'
  <2>1. CASE (\E i \in Isolations : Begin(b, i)) \/ (\E c \in Commands : ExecutorStart(b, c))
             \/ ExecutorEnd(b)
    BY <1>1, <2>1, QuietTwoPL
  <2>2. ASSUME NEW k \in Keys, \/ IndexFetchTuple(b, k) \/ FetchRowVersion(b, k)
                               \/ BeginScan(b) \/ GetNextSlot(b, k)
        PROVE  TwoPLInv'
    BY <1>1, <2>2, FetchTwoPL
  <2>3. ASSUME NEW k \in Keys, TupleUpdate(b) \/ Insert(b, k) PROVE TwoPLInv'
    BY <1>1, <2>3, WriteTwoPL
  <2>4. ASSUME NEW k \in Keys, PreCommit(b) PROVE TwoPLInv'
    BY <1>1, <2>4, CallbackTwoPL
  <2>5. CASE RefetchRow(b)
    BY <1>1, <2>5, RefetchTwoPL
  <2>6. CASE RefetchFailed(b)
    <3>1. phase[b] # "idle" /\ AbortXact(b)
      BY <2>6 DEF RefetchFailed, CanRefetch
    <3> QED
      BY <1>1, <3>1, EndTwoPL
  <2> QED
    BY <1>2, <2>1, <2>2, <2>3, <2>4, <2>5, <2>6, XactAssumption DEF Statement
<1>3. ASSUME NEW b \in Backends, CommitStep(b) PROVE TwoPLInv'
  <2>1. ASSUME NEW k \in Keys,
               \/ ValidationLock(b, k) \/ ValidationWait(b, k) \/ ValidationGrant(b, k)
               \/ WriteSetLocked(b)
               \/ PeekLock(b, k) \/ ReadValid(b, k) \/ Validated(b) \/ Installed(b)
        PROVE  TwoPLInv'
    BY <1>1, <2>1, CallbackTwoPL
  <2>2. ASSUME NEW k \in Keys,
               ValidationRefused(b, k) \/ PeekRefused(b, k) \/ ReadInvalid(b, k)
        PROVE  TwoPLInv'
    <3>1. phase[b] # "idle" /\ AbortXact(b)
      BY <2>2 DEF ValidationRefused, PeekRefused, ReadInvalid, Peeks
    <3> QED
      BY <1>1, <3>1, EndTwoPL
  <2>3. ASSUME NEW k \in Keys, Install(b, k) PROVE TwoPLInv'
    BY <1>1, <2>3, InstallTwoPL
  <2>4. CASE Commit(b)
    <3>1. phase[b] # "idle"
      BY <2>4 DEF Commit
    <3> QED
      BY <1>1, <2>4, <3>1, EndTwoPL
  <2>5. CASE DeadlockAbort(b)
    <3>1. phase[b] # "idle" /\ AbortXact(b)
      BY <2>5 DEF DeadlockAbort, Deadlocked, Blocks
    <3> QED
      BY <1>1, <3>1, EndTwoPL
  <2> QED
    BY <1>3, <2>1, <2>2, <2>3, <2>4, <2>5, XactAssumption DEF CommitStep
<1>4. CASE Environment
  <2>1. ASSUME NEW b \in Backends, Abort(b) \/ LateAbort(b) PROVE TwoPLInv'
    <3>1. phase[b] # "idle" /\ AbortXact(b)
      BY <2>1 DEF Abort, LateAbort
    <3> QED
      BY <1>1, <3>1, EndTwoPL
  <2>2. ASSUME NEW b \in Backends, NEW k \in Keys, CancelledPut(b, k) PROVE TwoPLInv'
    BY <1>1, <2>2, CancelledPutTwoPL
  <2>3. ASSUME ServiceStop \/ \E i \in FeatureId, a \in PolicyActions : LoadPolicy(i, a)
        PROVE  TwoPLInv'
    BY <1>1, <2>3, QuietTwoPL
  <2> QED
    BY <1>4, <2>1, <2>2, <2>3 DEF Environment
<1>5. CASE UNCHANGED vars
  BY <1>1, <1>5, QuietTwoPL
<1> QED
  BY <1>2, <1>3, <1>4, <1>5 DEF Next

\* Under a policy that locks and waits the invariant holds in every reachable
\* state of the transactions (nram.c, nram_xact/xact.c).
THEOREM LockingInvariant == ASSUME LockingPolicy PROVE Spec => [](IInv /\ TwoPLInv)
<1>1. Init => IInv /\ TwoPLInv
  BY InitInv, TwoPLInit
<1>2. IInv /\ TwoPLInv /\ [Next]_vars => IInv' /\ TwoPLInv'
  BY NextInv, TwoPLNext
<1> QED
  BY <1>1, <1>2, PTL DEF Spec

\* No committed update is lost: nram_tuple_update computes the new row from a
\* version that was fetched under a tuple lock kept to the end, so it is built
\* on every update installed before it.
THEOREM LockingLosesNoUpdate == ASSUME LockingPolicy PROVE Spec => []NoLostUpdate
<1>1. IInv /\ TwoPLInv => NoLostUpdate
  <2> SUFFICES ASSUME IInv, TwoPLInv, NEW x \in Xids0, NEW k \in Keys,
                      fate[x] = "committed", k \in writes[x]
               PROVE  x \in store[k].seen
    BY DEF NoLostUpdate
  <2>1. \A b \in Backends : xid[b] = x => k \notin Pending(b)
    BY DEF IInv, XidInv, Pending
  <2> QED
    BY <2>1 DEF TwoPLInv, SeenInv, Inst
<1> QED
  BY <1>1, LockingInvariant, PTL

\* What a transaction has read stays as it was until it ends or installs its own
\* update, whatever the isolation level: nram_getnextslot and the fetch
\* callbacks read the row after they have locked it.
THEOREM LockingReadsRepeat == ASSUME LockingPolicy PROVE Spec => []LockedReadsStable
<1>1. TwoPLInv => LockedReadsStable
  BY DEF TwoPLInv
<1> QED
  BY <1>1, LockingInvariant, PTL
=============================================================================
