--------------------------- MODULE NramXactProofs ---------------------------
(***************************************************************************)
(* Proofs about NramXact, for every number of backends, keys, transactions *)
(* and policies.                                                           *)
(***************************************************************************)
EXTENDS NramXactInv, WellFoundedInduction, TLAPS

-----------------------------------------------------------------------------
(* Type correctness. *)

\* An empty read set, write set or scan is well typed.
LEMMA NoKeysType == NoKeys \in RowMap /\ NoKeys \in WriteMap
  BY DEF NoKeys, RowMap, WriteMap, VersionOrNull

\* Every key has an advisory lock tag.
LEMMA TagType == \A k \in Keys : Tag(k) \in Tags
  BY XactAssumption DEF Tag, Tags

\* The initial states are well typed.
LEMMA TypeInit == Init => TypeOK
<1> SUFFICES ASSUME Init PROVE TypeOK
  OBVIOUS
<1>1. SharedType
  <2>1. store \in RowMap
    BY XactAssumption DEF Init, RowMap, VersionOrNull, Version, Xids0
  <2> QED
    BY <2>1, XactAssumption, PolicyAssumption DEF Init, SharedType, PolicyInit
<1>2. SessionType
  BY XactAssumption DEF Init, SessionType, Phases, Xids0
<1>3. SetType
  BY NoKeysType DEF Init, SetType
<1>4. LockType
  BY DEF Init, LockType
<1>5. HistType
  BY XactAssumption DEF Init, HistType, NoKeys, Xids0
<1> QED
  BY <1>1, <1>2, <1>3, <1>4, <1>5 DEF TypeOK

\* Leaving a transaction keeps the types of all that it resets.
LEMMA EndXactType ==
    ASSUME TypeOK, NEW b \in Backends, EndXact(b)
    PROVE  SessionType' /\ SetType' /\ LockType'
<1>1. SessionType'
  BY XactAssumption DEF EndXact, TypeOK, SessionType, Phases, Xids0
<1>2. SetType'
  BY NoKeysType DEF EndXact, TypeOK, SetType
<1>3. LockType'
  BY DEF EndXact, TypeOK, LockType
<1> QED
  BY <1>1, <1>2, <1>3

\* An abort (XACT_EVENT_ABORT) keeps the types.
LEMMA AbortXactType ==
    ASSUME TypeOK, NEW b \in Backends, AbortXact(b)
    PROVE  TypeOK'
<1>1. SessionType' /\ SetType' /\ LockType'
  BY EndXactType DEF AbortXact
<1>2. SharedType'
  BY DEF AbortXact, TypeOK, SharedType
<1>3. HistType'
  BY DEF AbortXact, TypeOK, HistType, SessionType
<1> QED
  BY <1>1, <1>2, <1>3 DEF TypeOK

\* A tuple lock is granted to a backend or not at all.
LEMMA LockTupleType ==
    ASSUME LockType, NEW b \in Backends, NEW k \in Keys, NEW mode,
           LockTuple(b, k, mode) \/ NoTupleLock, UNCHANGED <<validS, validX>>
    PROVE  LockType'
  BY DEF LockTuple, NoTupleLock, LockType

\* A fetch delivers and records a version of the row.
LEMMA FetchedType ==
    ASSUME SetType, NEW b \in Backends, NEW k \in Keys, NEW v \in Version, NEW record,
           Fetched(b, k, v, record)
    PROVE  /\ readSet' \in [Backends -> RowMap]
           /\ slot' \in [Backends -> Planned \union {NoValue}]
<1>1. readSet' \in [Backends -> RowMap]
  <2>1. CASE record
    <3>1. [readSet[b] EXCEPT ![k] = v] \in RowMap
      BY DEF SetType, RowMap, VersionOrNull
    <3> QED
      BY <2>1, <3>1 DEF Fetched, SetType
  <2>2. CASE ~record
    BY <2>2 DEF Fetched, SetType
  <2> QED
    BY <2>1, <2>2
<1>2. slot' \in [Backends -> Planned \union {NoValue}]
  <2>1. [key |-> k, ver |-> v, refetched |-> FALSE] \in Planned
    BY DEF Planned
  <2> QED
    BY <2>1 DEF Fetched, SetType
<1> QED
  BY <1>1, <1>2

\* A step of a statement (nram.c) keeps the types.
LEMMA StatementType ==
    ASSUME TypeOK, RowsStay, NEW b \in Backends, Statement(b)
    PROVE  TypeOK'
<1> USE DEF TypeOK
<1>1. ASSUME NEW i \in Isolations, Begin(b, i) PROVE TypeOK'
  <2>1. SharedType'
    BY <1>1, XactAssumption DEF Begin, SharedType
  <2>2. SessionType'
    BY <1>1, XactAssumption DEF Begin, SessionType, SharedType, Phases, Xids0
  <2>3. SetType' /\ LockType'
    BY <1>1 DEF Begin, SetType, LockType, setVars, lockVars
  <2>4. HistType'
    BY <1>1, XactAssumption DEF Begin, HistType, Xids0
  <2> QED
    BY <2>1, <2>2, <2>3, <2>4
<1>2. ASSUME NEW c \in Commands, ExecutorStart(b, c) PROVE TypeOK'
  <2>1. SharedType' /\ SetType' /\ LockType' /\ HistType'
    BY <1>2 DEF ExecutorStart, SharedType, SetType, LockType, HistType, setVars, lockVars,
                histVars
  <2>2. SessionType'
    <3>1. op' \in [Backends -> {READ_OPT, UPDATE_OPT}] /\ nAccess' \in [Backends -> Nat]
      BY <1>2 DEF ExecutorStart, SessionType
    <3>2. action' \in [Backends -> FeatureId \union {NoValue}]
      BY <1>2, NAccessCapAssumption
      DEF ExecutorStart, SessionType, EncodeFeature, FeatureId, Min2
    <3>3. nowait' \in [Backends -> BOOLEAN]
      BY <1>2, NAccessCapAssumption
      DEF ExecutorStart, SessionType, SharedType, EncodeFeature, FeatureId, Min2, CCAction
    <3> QED
      BY <1>2, <3>1, <3>2, <3>3, XactAssumption DEF ExecutorStart, SessionType
  <2> QED
    BY <2>1, <2>2
<1>3. CASE ExecutorEnd(b)
  <2>1. SharedType' /\ LockType' /\ HistType' /\ SessionType'
    BY <1>3 DEF ExecutorEnd, SharedType, SessionType, LockType, HistType, lockVars, histVars
  <2>2. SetType'
    BY <1>3, NoKeysType DEF ExecutorEnd, SetType
  <2> QED
    BY <2>1, <2>2
<1>4. ASSUME FetchFrame PROVE SharedType' /\ SessionType' /\ HistType'
  BY <1>4 DEF FetchFrame, SharedType, SessionType, HistType, sessionVars, histVars
<1>5. ASSUME NEW k \in Keys, store[k] # NoValue PROVE store[k] \in Version
  BY <1>5 DEF SharedType, RowMap, VersionOrNull
<1>6. ASSUME NEW k \in Keys, Own(b, k) # NoValue PROVE Own(b, k) \in Version
  BY <1>6 DEF Own, SetType, WriteMap, RowMap, VersionOrNull
<1>7. ASSUME NEW k \in Keys, IndexFetchTuple(b, k) PROVE TypeOK'
  <2>1. LockType'
    BY <1>7, LockTupleType DEF IndexFetchTuple, FetchFrame
  <2>2. SetType'
    <3>1. CASE UNCHANGED <<slot, readSet>>
      BY <1>7, <3>1 DEF IndexFetchTuple, FetchFrame, SetType
    <3>2. CASE ~UNCHANGED <<slot, readSet>>
      BY <1>5, <1>6, <1>7, <3>2, FetchedType DEF IndexFetchTuple, FetchFrame, SetType
    <3> QED
      BY <3>1, <3>2
  <2> QED
    BY <1>4, <1>7, <2>1, <2>2 DEF IndexFetchTuple
<1>8. ASSUME NEW k \in Keys, FetchRowVersion(b, k) PROVE TypeOK'
  <2>1. LockType'
    BY <1>8, LockTupleType DEF FetchRowVersion, FetchFrame
  <2>2. SetType'
    <3>1. CASE UNCHANGED <<slot, readSet>>
      BY <1>8, <3>1 DEF FetchRowVersion, FetchFrame, SetType
    <3>2. CASE ~UNCHANGED <<slot, readSet>>
      BY <1>5, <1>6, <1>8, <3>2, FetchedType DEF FetchRowVersion, FetchFrame, SetType
    <3> QED
      BY <3>1, <3>2
  <2> QED
    BY <1>4, <1>8, <2>1, <2>2 DEF FetchRowVersion
<1>9. CASE BeginScan(b)
  <2>1. LockType' /\ SetType'
    BY <1>9 DEF BeginScan, NoTupleLock, FetchFrame, LockType, SetType, SharedType
  <2> QED
    BY <1>4, <1>9, <2>1 DEF BeginScan
<1>10. ASSUME NEW k \in Keys, GetNextSlot(b, k) PROVE TypeOK'
  <2>1. LockType'
    BY <1>10, LockTupleType DEF GetNextSlot, FetchFrame
  <2>2. scan[b][k] \in Version /\ store[k] \in Version
    BY <1>5, <1>10 DEF GetNextSlot, IsFirst, RowsStay, SetType, RowMap, VersionOrNull
  <2>3. scan' \in [Backends -> RowMap]
    <3>1. [scan[b] EXCEPT ![k] = NoValue] \in RowMap
      BY DEF SetType, RowMap, VersionOrNull
    <3> QED
      BY <1>10, <3>1 DEF GetNextSlot, SetType
  <2>4. readSet' \in [Backends -> RowMap]
        /\ slot' \in [Backends -> Planned \union {NoValue}]
    <3>1. CASE UNCHANGED <<slot, readSet>>
      BY <3>1 DEF SetType
    <3>2. CASE ~UNCHANGED <<slot, readSet>>
      <4>1. PICK v \in Version, record \in BOOLEAN : Fetched(b, k, v, record)
        BY <1>6, <1>10, <2>2, <3>2 DEF GetNextSlot, ForRead
      <4> QED
        BY <4>1, FetchedType
    <3> QED
      BY <3>1, <3>2
  <2> QED
    BY <1>4, <1>10, <2>1, <2>3, <2>4 DEF GetNextSlot, FetchFrame, SetType
<1>11. CASE RefetchRow(b)
  <2>1. slot[b] \in Planned /\ slot[b].key \in Keys
    BY <1>11 DEF RefetchRow, CanRefetch, SetType, Planned
  <2>2. LockType'
    BY <1>11, <2>1, LockTupleType DEF RefetchRow, FetchFrame
  <2>3. readSet' \in [Backends -> RowMap]
    <3>1. CASE readSet' = readSet
      BY <3>1 DEF SetType
    <3>2. CASE readSet' # readSet
      <4>1. readSet' = [readSet EXCEPT ![b][slot[b].key] = store[slot[b].key]]
        BY <1>11, <3>2 DEF RefetchRow
      <4>2. store[slot[b].key] \in VersionOrNull
        BY <2>1 DEF SharedType, RowMap
      <4>3. [readSet[b] EXCEPT ![slot[b].key] = store[slot[b].key]] \in RowMap
        BY <4>2 DEF SetType, RowMap
      <4> QED
        BY <4>1, <4>3 DEF SetType
    <3> QED
      BY <3>1, <3>2
  <2>4. slot' \in [Backends -> Planned \union {NoValue}]
    <3>1. [slot[b] EXCEPT !.refetched = TRUE] \in Planned
      BY <2>1 DEF Planned
    <3> QED
      BY <1>11, <3>1 DEF RefetchRow, SetType
  <2> QED
    BY <1>4, <1>11, <2>2, <2>3, <2>4 DEF RefetchRow, FetchFrame, SetType
<1>12. CASE RefetchFailed(b)
  BY <1>12, AbortXactType DEF RefetchFailed
<1>13. CASE TupleUpdate(b)
  <2>1. SharedType' /\ SessionType' /\ HistType'
    BY <1>13 DEF TupleUpdate, SharedType, SessionType, HistType, sessionVars, histVars
  <2>2. slot[b].key \in Keys /\ slot[b].ver \in Version
    BY <1>13 DEF TupleUpdate, Replacing, SetType, Planned
  <2>3. LockType'
    BY <1>13, <2>2, LockTupleType DEF TupleUpdate
  <2>4. SetType'
    <3> DEFINE v == [xid  |-> xid[b], priv |-> FALSE, seen |-> slot[b].ver.seen \union {xid[b]}]
    <3>1. v \in Version /\ ~v.priv
      BY <2>2 DEF Version, SessionType
    <3>2. [writeSet[b] EXCEPT ![slot[b].key] = v] \in WriteMap
      BY <2>2, <3>1 DEF SetType, WriteMap
    <3> QED
      BY <1>13, <3>2 DEF TupleUpdate, SetType
  <2> QED
    BY <2>1, <2>3, <2>4
<1>14. ASSUME NEW k \in Keys, Insert(b, k) PROVE TypeOK'
  <2> DEFINE v == [xid |-> xid[b], priv |-> FALSE, seen |-> {xid[b]}]
             p == [xid |-> xid[b], priv |-> TRUE, seen |-> {xid[b]}]
  <2>1. v \in Version /\ ~v.priv /\ p \in Version
    BY DEF Version, SessionType
  <2>2. SessionType' /\ HistType'
    BY <1>14 DEF Insert, SessionType, HistType, sessionVars, histVars
  <2>3. SharedType'
    BY <1>14, <2>1 DEF Insert, SharedType, RowMap, VersionOrNull
  <2>4. LockType'
    BY <1>14, LockTupleType DEF Insert
  <2>5. SetType'
    <3>1. [writeSet[b] EXCEPT ![k] = v] \in WriteMap
      BY <2>1 DEF SetType, WriteMap
    <3> QED
      BY <1>14, <3>1 DEF Insert, SetType
  <2> QED
    BY <2>2, <2>3, <2>4, <2>5
<1>15. CASE PreCommit(b)
  BY <1>15 DEF PreCommit, CommitFrame, WriteKeys, SharedType, SessionType, SetType, LockType,
               HistType, setVars, histVars, Phases, CommitPhases
<1> QED
  BY <1>1, <1>2, <1>3, <1>7, <1>8, <1>9, <1>10, <1>11, <1>12, <1>13, <1>14, <1>15 DEF Statement

\* A step of the commit callback (nram_xact_callback) keeps the types.
LEMMA CommitStepType ==
    ASSUME TypeOK, NEW b \in Backends, CommitStep(b)
    PROVE  TypeOK'
<1> USE DEF TypeOK
<1>1. ASSUME CommitFrame PROVE SetType'
  BY <1>1 DEF CommitFrame, SetType, setVars
<1>2. ASSUME NEW k \in Keys,
             ValidationLock(b, k) \/ ValidationWait(b, k) \/ ValidationGrant(b, k)
      PROVE  TypeOK'
  <2>1. LockType'
    BY <1>2, TagType DEF ValidationLock, ValidationWait, ValidationGrant, CommitFrame, LockType
  <2>2. SessionType'
    BY <1>2 DEF ValidationLock, ValidationWait, ValidationGrant, CommitFrame, SessionType,
                Phases, CommitPhases
  <2>3. SharedType' /\ HistType'
    BY <1>2 DEF ValidationLock, ValidationWait, ValidationGrant, CommitFrame, SharedType,
                HistType, histVars
  <2> QED
    BY <1>1, <1>2, <2>1, <2>2, <2>3 DEF ValidationLock, ValidationWait, ValidationGrant
<1>3. ASSUME NEW k \in Keys,
             ValidationRefused(b, k) \/ PeekRefused(b, k) \/ ReadInvalid(b, k)
      PROVE  TypeOK'
  BY <1>3, AbortXactType DEF ValidationRefused, PeekRefused, ReadInvalid
<1>4. CASE DeadlockAbort(b)
  BY <1>4, AbortXactType DEF DeadlockAbort
<1>5. CASE WriteSetLocked(b)
  <2>1. SessionType'
    BY <1>5 DEF WriteSetLocked, CommitFrame, ReadKeys, SessionType, Phases, CommitPhases
  <2>2. HistType'
    <3>1. [k \in Keys |-> IF iso[b] = "SER" /\ readSet[b][k] # NoValue
                          THEN readSet[b][k].xid ELSE NoValue]
          \in [Keys -> Xids0 \union {NoValue}]
      BY DEF SetType, RowMap, VersionOrNull, Version
    <3>2. reads' \in [Xids0 -> [Keys -> Xids0 \union {NoValue}]]
      BY <1>5, <3>1 DEF WriteSetLocked, HistType
    <3>3. writes' \in [Xids0 -> SUBSET Keys] /\ WriteKeys(b) \subseteq Keys
      BY <1>5 DEF WriteSetLocked, WriteKeys, HistType
    <3> QED
      BY <1>5, <3>2, <3>3 DEF WriteSetLocked, HistType
  <2> QED
    BY <1>1, <1>5, <2>1, <2>2 DEF WriteSetLocked, CommitFrame, SharedType, LockType
<1>6. ASSUME NEW k \in Keys, PeekLock(b, k) \/ ReadValid(b, k) PROVE TypeOK'
  <2>1. LockType' /\ SessionType'
    BY <1>6, TagType DEF PeekLock, ReadValid, CommitFrame, LockType, SessionType, Phases,
                         CommitPhases
  <2>2. SharedType' /\ HistType'
    BY <1>6 DEF PeekLock, ReadValid, CommitFrame, SharedType, HistType, histVars
  <2> QED
    BY <1>1, <1>6, <2>1, <2>2 DEF PeekLock, ReadValid
<1>7. CASE Validated(b) \/ Installed(b)
  <2>1. LockType' /\ SessionType'
    BY <1>7 DEF Validated, Installed, CommitFrame, WriteKeys, LockType, SessionType, Phases,
                CommitPhases
  <2>2. SharedType' /\ HistType'
    BY <1>7 DEF Validated, Installed, CommitFrame, SharedType, HistType, histVars
  <2> QED
    BY <1>1, <1>7, <2>1, <2>2 DEF Validated, Installed
<1>8. ASSUME NEW k \in Keys, Install(b, k) PROVE TypeOK'
  <2>1. LockType' /\ SessionType'
    BY <1>8, TagType DEF Install, CommitFrame, LockType, SessionType
  <2>2. HistType'
    BY <1>8 DEF Install, HistType, SessionType
  <2>3. SharedType'
    BY <1>8 DEF Install, CommitFrame, SharedType, SetType, RowMap, WriteMap, VersionOrNull
  <2> QED
    BY <1>1, <1>8, <2>1, <2>2, <2>3 DEF Install
<1>9. CASE Commit(b)
  <2>1. SharedType' /\ HistType'
    BY <1>9 DEF Commit, SharedType, HistType, SessionType
  <2> QED
    BY <1>9, <2>1, EndXactType DEF Commit
<1> QED
  BY <1>2, <1>3, <1>4, <1>5, <1>6, <1>7, <1>8, <1>9 DEF CommitStep

\* A failure or the load of a policy entry keeps the types.
LEMMA EnvironmentType ==
    ASSUME TypeOK, Environment
    PROVE  TypeOK'
<1> USE DEF TypeOK
<1>1. ASSUME NEW b \in Backends, Abort(b) \/ LateAbort(b) PROVE TypeOK'
  BY <1>1, AbortXactType DEF Abort, LateAbort
<1>2. ASSUME NEW b \in Backends, NEW k \in Keys, CancelledPut(b, k) PROVE TypeOK'
  <2>1. SharedType'
    BY <1>2 DEF CancelledPut, SharedType, SetType, RowMap, WriteMap, VersionOrNull
  <2>2. HistType'
    BY <1>2 DEF CancelledPut, HistType, SessionType
  <2> QED
    BY <1>2, <2>1, <2>2, EndXactType DEF CancelledPut
<1>3. CASE ServiceStop
  BY <1>3 DEF ServiceStop, SharedType, SessionType, SetType, LockType, HistType, sessionVars,
              setVars, lockVars, histVars
<1>4. ASSUME NEW i \in FeatureId, NEW a \in PolicyActions, LoadPolicy(i, a) PROVE TypeOK'
  <2>1. SharedType'
    BY <1>4, XactAssumption, PolicyAssumption DEF LoadPolicy, LoadEntry, SharedType
  <2> QED
    BY <1>4, <2>1 DEF LoadPolicy, SessionType, SetType, LockType, HistType, sessionVars,
                      setVars, lockVars, histVars
<1> QED
  BY <1>1, <1>2, <1>3, <1>4 DEF Environment

-----------------------------------------------------------------------------
(* The inductive invariant. *)

\* Replacing one entry of a table of tables.
LEMMA Except2 ==
    ASSUME NEW A, NEW B, NEW V, NEW f \in [A -> [B -> V]], NEW a \in A, NEW b \in B, NEW v
    PROVE  \A c \in A, d \in B :
               [f EXCEPT ![a][b] = v][c][d] = IF c = a /\ d = b THEN v ELSE f[c][d]
  OBVIOUS

\* Transaction ids are numbers.
LEMMA XidsNat == Xids0 \subseteq Nat /\ Xids \subseteq Xids0
  BY XactAssumption DEF Xids, Xids0

\* So is the next of them.
LEMMA NextXidNat == ASSUME TypeOK PROVE nextXid \in Nat
  BY XactAssumption DEF TypeOK, SharedType

\* The versions in the store and in a session's sets name a transaction.
LEMMA VersionXid ==
    ASSUME TypeOK
    PROVE  /\ \A k \in Keys : store[k] # NoValue => store[k].xid \in Xids0
           /\ \A c \in Backends, k \in Keys : readSet[c][k] # NoValue => readSet[c][k].xid \in Xids0
           /\ \A c \in Backends, k \in Keys : scan[c][k] # NoValue => scan[c][k].xid \in Xids0
  BY DEF TypeOK, SharedType, SetType, RowMap, VersionOrNull, Version

\* Whether a version is installed depends on the core variables only.
LEMMA InstSame ==
    ASSUME writes' = writes,
           \A c \in Backends : Pending(c)' = Pending(c),
           \A c \in Backends : Pending(c) # {} => xid'[c] = xid[c]
    PROVE  \A x \in Xids0, k \in Keys : Inst(x, k)' <=> Inst(x, k)
  BY DEF Inst

\* A step of a statement that leaves the core alone: it may add installed
\* versions to the read set of an active transaction, and take over a snapshot.
LEMMA FetchStep ==
    ASSUME IInv, TypeOK', UNCHANGED coreVars,
           \A c \in Backends, k \in Keys : readSet'[c][k] # readSet[c][k] =>
                phase[c] = "active" /\ Inst(readSet'[c][k].xid, k),
           \A c \in Backends, k \in Keys : scan'[c][k] \in {scan[c][k], store[k], NoValue}
    PROVE  IInv'
<1> USE DEF IInv, coreVars, histVars
<1>1. \A x \in Xids0, k \in Keys : Inst(x, k)' <=> Inst(x, k)
  BY DEF Inst, Pending, WriteKeys
<1>2. RowsStay'
  BY DEF RowsStay
<1>3. XidInv'
  BY DEF XidInv, WriteKeys
<1>4. LockInv'
  BY DEF LockInv, Pending, WriteKeys
<1>5. StoreInv'
  BY DEF StoreInv, Inst, Pending, WriteKeys, Public
<1>6. SetInv'
  <2>1. \A c \in Backends, k \in Keys : readSet'[c][k] # NoValue => Inst(readSet'[c][k].xid, k)
    BY DEF SetInv
  <2>2. \A c \in Backends, k \in Keys : Public(scan'[c][k]) => Inst(scan'[c][k].xid, k)
    BY DEF SetInv, StoreInv, Public
  <2>3. \A c \in Backends, k \in Keys : scan'[c][k] # NoValue => scan'[c][k].xid < nextXid
    BY DEF SetInv, StoreInv
  <2>4. \A c \in Backends, k \in Keys : phase[c] = "active" /\ writeSet[c][k] = NoValue =>
            /\ store[k] # NoValue /\ store[k].priv => store[k].xid # xid[c]
            /\ scan'[c][k] # NoValue /\ scan'[c][k].priv => scan'[c][k].xid # xid[c]
    BY DEF SetInv
  <2>5. \A c \in Backends, k \in Keys : readSet'[c][k] # NoValue => readSet'[c][k].xid \in Xids0
    BY DEF TypeOK, SetType, RowMap, VersionOrNull, Version
  <2>6. \A c \in Backends, k \in Keys : scan'[c][k] # NoValue => scan'[c][k].xid \in Xids0
    BY DEF TypeOK, SetType, RowMap, VersionOrNull, Version
  <2> QED
    BY <1>1, <2>1, <2>2, <2>3, <2>4, <2>5, <2>6 DEF SetInv, Public
<1>7. ReadInv'
  <2>1. \A x \in Xids0, k \in Keys : reads[x][k] # NoValue => (Good(x, k)' <=> Good(x, k))
    BY <1>1 DEF Good, ReadsLatest, TypeOK, HistType
  <2> QED
    BY <2>1 DEF ReadInv, TypeOK, SessionType
<1>8. OwnInv'
  BY DEF OwnInv
<1> QED
  BY <1>2, <1>3, <1>4, <1>5, <1>6, <1>7, <1>8

\* Reading rows keeps the invariant: what is visible is installed.
LEMMA FetchInv ==
    ASSUME IInv, TypeOK', NEW b \in Backends, NEW k \in Keys,
           \/ IndexFetchTuple(b, k) \/ FetchRowVersion(b, k)
           \/ BeginScan(b) \/ GetNextSlot(b, k)
           \/ RefetchRow(b) /\ k = slot[b].key
    PROVE  IInv'
<1> USE DEF IInv
<1>1. UNCHANGED coreVars /\ phase[b] = "active"
  BY DEF IndexFetchTuple, FetchRowVersion, BeginScan, GetNextSlot, RefetchRow, FetchFrame,
         CanFetch, CanRefetch, coreVars, sessionVars
<1>2. \A c \in Backends, j \in Keys : scan'[c][j] \in {scan[c][j], store[j], NoValue}
  <2>1. scan \in [Backends -> [Keys -> VersionOrNull]]
    BY DEF TypeOK, SetType, RowMap
  <2>2. \/ scan' = scan
        \/ scan' = [scan EXCEPT ![b] = store]
        \/ scan' = [scan EXCEPT ![b][k] = NoValue]
    BY DEF IndexFetchTuple, FetchRowVersion, BeginScan, GetNextSlot, RefetchRow
  <2> QED
    BY <2>1, <2>2, Except2
<1>3. ASSUME store[k] # NoValue, Own(b, k) = NoValue, Visible(b, store[k])
      PROVE  Inst(store[k].xid, k)
  BY <1>1, <1>3 DEF Own, Visible, SetInv, StoreInv, Public
<1>4. ASSUME scan[b][k] # NoValue, Own(b, k) = NoValue, Visible(b, scan[b][k])
      PROVE  Inst(scan[b][k].xid, k) /\ Inst(store[k].xid, k)
  <2>1. Inst(scan[b][k].xid, k)
    BY <1>1, <1>4 DEF Own, Visible, SetInv, Public
  <2>2. scan[b][k].xid \in Xids0
    BY <1>4 DEF TypeOK, SetType, RowMap, VersionOrNull, Version
  <2> QED
    BY <2>1, <2>2 DEF StoreInv
<1>5. readSet' # readSet =>
        \E v : Inst(v.xid, k) /\ readSet' = [readSet EXCEPT ![b][k] = v]
  <2>1. CASE IndexFetchTuple(b, k)
    BY <1>3, <2>1 DEF IndexFetchTuple, Fetched
  <2>2. CASE FetchRowVersion(b, k)
    BY <1>3, <2>2 DEF FetchRowVersion, Fetched
  <2>3. CASE BeginScan(b)
    BY <2>3 DEF BeginScan
  <2>4. CASE GetNextSlot(b, k)
    <3>1. scan[b][k] # NoValue
      BY <2>4 DEF GetNextSlot, IsFirst
    <3> QED
      BY <1>4, <2>4, <3>1 DEF GetNextSlot, Fetched
  <2>5. CASE RefetchRow(b) /\ k = slot[b].key
    BY <1>3, <2>5 DEF RefetchRow
  <2> QED
    BY <2>1, <2>2, <2>3, <2>4, <2>5
<1>6. \A c \in Backends, j \in Keys : readSet'[c][j] # readSet[c][j] =>
        phase[c] = "active" /\ Inst(readSet'[c][j].xid, j)
  <2>1. readSet \in [Backends -> [Keys -> VersionOrNull]]
    BY DEF TypeOK, SetType, RowMap
  <2> QED
    BY <1>1, <1>5, <2>1, Except2
<1> QED
  BY <1>1, <1>2, <1>6, FetchStep

\* Starting and ending a statement, and what the environment does to the
\* policy and to the service, leave the invariant's variables alone.
LEMMA QuietInv ==
    ASSUME IInv, TypeOK',
           \/ \E b \in Backends, c \in Commands : ExecutorStart(b, c)
           \/ \E b \in Backends : ExecutorEnd(b)
           \/ ServiceStop
           \/ \E i \in FeatureId, a \in PolicyActions : LoadPolicy(i, a)
           \/ UNCHANGED vars
    PROVE  IInv'
<1>1. UNCHANGED coreVars /\ readSet' = readSet
  BY DEF ExecutorStart, ExecutorEnd, ServiceStop, LoadPolicy, vars, coreVars, sessionVars,
         setVars, lockVars
<1>2. \A c \in Backends, k \in Keys : scan'[c][k] \in {scan[c][k], NoValue}
  BY DEF IInv, TypeOK, SetType, NoKeys, ExecutorStart, ExecutorEnd, ServiceStop, LoadPolicy,
         vars, setVars
<1> QED
  BY <1>1, <1>2, FetchStep

\* A new transaction has an id that occurs nowhere.
LEMMA BeginInv ==
    ASSUME IInv, TypeOK', NEW b \in Backends, NEW i \in Isolations, Begin(b, i)
    PROVE  IInv'
<1> USE DEF IInv
<1>0. /\ nextXid \in Xids0 /\ nextXid < nextXid' /\ nextXid >= nextXid
      /\ \A x \in Xids0 : x < nextXid => x # nextXid /\ x < nextXid'
      /\ \A x \in Xids0 : x >= nextXid' => x # nextXid /\ x >= nextXid
  BY XidsNat, XactAssumption DEF Begin, TypeOK, SharedType, Xids0
<1>1. \A c \in Backends : c # b => phase'[c] = phase[c] /\ xid'[c] = xid[c]
  BY DEF Begin, TypeOK, SessionType
<1>2. /\ phase[b] = "idle" /\ phase'[b] = "active"
      /\ xid'[b] = nextXid /\ nextXid \in Xids
      /\ UNCHANGED <<todo, writeSet, readSet, scan, store, validS, validX, clock, pos,
                     writes, reads>>
  BY XactAssumption DEF Begin, TypeOK, SessionType, SharedType, setVars, lockVars, Xids
<1>3. \A c \in Backends : Pending(c)' = Pending(c)
  BY <1>1, <1>2 DEF Pending, WriteKeys
<1>4. Pending(b) = {}
  BY <1>2 DEF Pending
<1>5. \A x \in Xids0, k \in Keys : Inst(x, k)' <=> Inst(x, k)
  BY <1>1, <1>2, <1>3, <1>4, InstSame
<1>6. RowsStay'
  BY <1>2 DEF RowsStay
<1>7. XidInv'
  <2>1. \A x \in Xids0 : fate'[x] = IF x = nextXid THEN "running" ELSE fate[x]
    BY DEF Begin, TypeOK, HistType
  <2>2. \A c \in Backends : phase[c] # "idle" => xid[c] \in Xids0 /\ xid[c] < nextXid
    BY XidsNat DEF XidInv
  <2>3. \A c \in Backends : phase[c] # "idle" => xid[c] # nextXid /\ xid[c] < nextXid'
    BY <1>0, <2>2
  <2>4. pos[nextXid] = 0 /\ writes[nextXid] = {}
    BY <1>0 DEF XidInv
  <2>5. \A c \in Backends : phase'[c] # "idle" =>
            /\ xid'[c] \in Xids /\ xid'[c] < nextXid'
            /\ fate'[xid'[c]] = "running"
    <3> SUFFICES ASSUME NEW c \in Backends, phase'[c] # "idle"
                 PROVE  xid'[c] \in Xids /\ xid'[c] < nextXid' /\ fate'[xid'[c]] = "running"
      OBVIOUS
    <3>1. CASE c = b
      BY <1>0, <1>2, <2>1, <3>1
    <3>2. CASE c # b
      BY <1>1, <2>1, <2>2, <2>3, <3>2 DEF XidInv
    <3> QED
      BY <3>1, <3>2
  <2>6. \A c, d \in Backends :
            phase'[c] # "idle" /\ phase'[d] # "idle" /\ xid'[c] = xid'[d] => c = d
    BY <1>1, <1>2, <2>3 DEF XidInv
  <2>7. \A x \in Xids0 : x >= nextXid' => pos[x] = 0 /\ writes[x] = {} /\ fate'[x] = "none"
    BY <1>0, <2>1 DEF XidInv
  <2> QED
    BY <1>1, <1>2, <2>4, <2>5, <2>6, <2>7 DEF XidInv, WriteKeys
<1>8. LockInv'
  BY <1>1, <1>2, <1>3 DEF LockInv, WriteKeys
<1>9. StoreInv'
  BY <1>0, <1>1, <1>2, <1>3, <1>4, <1>5, VersionXid DEF StoreInv, Public
<1>10. SetInv'
  BY <1>0, <1>1, <1>2, <1>5, VersionXid DEF SetInv, StoreInv, Public
<1>11. ReadInv'
  <2>1. \A x \in Xids0, k \in Keys : reads[x][k] # NoValue => (Good(x, k)' <=> Good(x, k))
    BY <1>2, <1>5 DEF Good, ReadsLatest, TypeOK, HistType
  <2>2. \A x \in Xids0 : fate'[x] = "committed" => fate[x] = "committed"
    BY DEF Begin, TypeOK, HistType
  <2> QED
    BY <1>1, <1>2, <2>1, <2>2 DEF ReadInv, TypeOK, SessionType
<1>12. OwnInv'
  BY <1>1, <1>2 DEF OwnInv
<1> QED
  BY <1>6, <1>7, <1>8, <1>9, <1>10, <1>11, <1>12

\* A write goes to the write set of an active transaction; an insert also
\* leaves a private row in the store.
LEMMA WriteInv ==
    ASSUME IInv, TypeOK', NEW b \in Backends, NEW k \in Keys,
           TupleUpdate(b) \/ Insert(b, k)
    PROVE  IInv'
<1> USE DEF IInv
<1> DEFINE p == [xid |-> xid[b], priv |-> TRUE, seen |-> {xid[b]}]
<1>1. /\ phase[b] = "active"
      /\ UNCHANGED <<phase, xid, todo, nextXid, validS, validX, readSet, scan, clock, pos,
                     writes, reads, fate>>
  BY DEF TupleUpdate, Insert, sessionVars, histVars
<1>2. writeSet \in [Backends -> [Keys -> {v \in Version : ~v.priv} \union {NoValue}]]
  BY DEF TypeOK, SetType, WriteMap
<1>3. PICK j \in Keys, v \in Version :
        /\ writeSet' = [writeSet EXCEPT ![b][j] = v] /\ v.xid = xid[b]
        /\ \/ store' = store
           \/ j = k /\ store[k] = NoValue /\ store' = [store EXCEPT ![k] = p]
  <2>1. CASE TupleUpdate(b)
    <3>1. slot[b].key \in Keys /\ slot[b].ver \in Version
      BY <2>1 DEF TupleUpdate, Replacing, TypeOK, SetType, Planned
    <3>2. [xid  |-> xid[b], priv |-> FALSE, seen |-> slot[b].ver.seen \union {xid[b]}] \in Version
      BY <3>1 DEF Version, TypeOK, SessionType
    <3> QED
      BY <2>1, <3>1, <3>2 DEF TupleUpdate
  <2>2. CASE Insert(b, k)
    <3>1. [xid |-> xid[b], priv |-> FALSE, seen |-> {xid[b]}] \in Version
      BY DEF Version, TypeOK, SessionType
    <3> QED
      BY <2>2, <3>1 DEF Insert
  <2> QED
    BY <2>1, <2>2
<1>4. v # NoValue
  BY XactAssumption
<1>5. /\ \A c \in Backends : c # b => \A i \in Keys : writeSet'[c][i] = writeSet[c][i]
      /\ \A i \in Keys : writeSet'[b][i] = IF i = j THEN v ELSE writeSet[b][i]
  BY <1>2, <1>3, Except2
<1>7. p # NoValue /\ p.priv /\ p.xid = xid[b]
  <2>1. p \in Version
    BY DEF Version, TypeOK, SessionType
  <2> QED
    BY <2>1, XactAssumption
<1> HIDE DEF p
<1>6. \A i \in Keys : store'[i] = store[i] \/ (i = j /\ store'[i] = p /\ store[i] = NoValue)
  <2>1. store \in [Keys -> VersionOrNull]
    BY DEF TypeOK, SharedType, RowMap
  <2> QED
    BY <1>3, <2>1
<1>8. \A c \in Backends : Pending(c)' = Pending(c)
  BY <1>1, <1>5 DEF Pending, WriteKeys
<1>9. \A x \in Xids0, i \in Keys : Inst(x, i)' <=> Inst(x, i)
  BY <1>1, <1>8, InstSame
<1>10. RowsStay'
  BY <1>1, <1>6, <1>7 DEF RowsStay
<1>11. XidInv'
  BY <1>1, <1>5 DEF XidInv, WriteKeys
<1>12. LockInv'
  <2>1. \A c \in Backends, i \in Keys : i \in Pending(c) => c # b
    BY <1>1 DEF Pending
  <2> QED
    BY <1>1, <1>5, <1>8, <2>1 DEF LockInv, WriteKeys
<1>13. StoreInv'
  <2>1. \A i \in Keys : Public(store'[i]) => store'[i] = store[i]
    BY <1>6, <1>7 DEF Public
  <2>2. \A i \in Keys : Public(store[i]) => store'[i] = store[i]
    BY <1>6 DEF Public
  <2>3. \A i \in Keys : store'[i] # NoValue => store'[i].xid < nextXid
    BY <1>1, <1>6, <1>7 DEF StoreInv, XidInv
  <2> QED
    BY <1>1, <1>8, <1>9, <2>1, <2>2, <2>3, VersionXid DEF StoreInv, Public
<1>14. SetInv'
  <2>1. \A c \in Backends, i \in Keys : phase[c] = "active" /\ writeSet'[c][i] = NoValue =>
            (store'[i] # NoValue /\ store'[i].priv => store'[i].xid # xid[c])
    BY <1>1, <1>4, <1>5, <1>6, <1>7 DEF SetInv, XidInv
  <2>2. \A c \in Backends, i \in Keys : writeSet'[c][i] = NoValue => writeSet[c][i] = NoValue
    BY <1>4, <1>5
  <2> QED
    BY <1>1, <1>9, <2>1, <2>2, VersionXid DEF SetInv, Public
<1>15. ReadInv'
  <2>1. \A x \in Xids0, i \in Keys : reads[x][i] # NoValue => (Good(x, i)' <=> Good(x, i))
    BY <1>1, <1>9 DEF Good, ReadsLatest, TypeOK, HistType
  <2> QED
    BY <1>1, <2>1 DEF ReadInv, TypeOK, SessionType
<1>16. OwnInv'
  BY <1>1, <1>3, <1>5 DEF OwnInv
<1> QED
  BY <1>10, <1>11, <1>12, <1>13, <1>14, <1>15, <1>16

\* The parts that a step of the commit callback before the installation cannot
\* disturb: it neither changes the store nor what is pending.
LEMMA CallbackPart ==
    ASSUME IInv, TypeOK', NEW b \in Backends,
           UNCHANGED <<xid, writeSet, readSet, scan, store, nextXid, clock, pos, writes, reads,
                       fate>>,
           \A c \in Backends : c # b => phase'[c] = phase[c] /\ todo'[c] = todo[c],
           phase[b] # "idle", phase'[b] \notin {"idle", "active"},
           phase'[b] = "done" => todo'[b] = {},
           Pending(b)' = Pending(b)
    PROVE  /\ RowsStay' /\ StoreInv' /\ SetInv' /\ OwnInv'
           /\ \A c \in Backends : Pending(c)' = Pending(c)
           /\ \A x \in Xids0, k \in Keys : reads[x][k] # NoValue => (Good(x, k)' <=> Good(x, k))
<1> USE DEF IInv
<1>1. \A c \in Backends : Pending(c)' = Pending(c)
  BY DEF Pending, WriteKeys
<1>2. \A x \in Xids0, k \in Keys : Inst(x, k)' <=> Inst(x, k)
  BY <1>1, InstSame
<1>3. RowsStay'
  BY DEF RowsStay
<1>4. StoreInv'
  BY <1>1, <1>2, VersionXid DEF StoreInv, Public
<1>5. SetInv'
  BY <1>2, VersionXid DEF SetInv, Public
<1>6. \A x \in Xids0, k \in Keys : reads[x][k] # NoValue => (Good(x, k)' <=> Good(x, k))
  BY <1>2 DEF Good, ReadsLatest, TypeOK, HistType
<1>7. OwnInv'
  BY DEF OwnInv
<1> QED
  BY <1>1, <1>3, <1>4, <1>5, <1>6, <1>7

\* Locking the write set in key order.
LEMMA LockPhaseInv ==
    ASSUME IInv, TypeOK', NEW b \in Backends, NEW k \in Keys,
           \/ PreCommit(b) \/ ValidationLock(b, k)
           \/ ValidationWait(b, k) \/ ValidationGrant(b, k)
    PROVE  IInv'
<1> USE DEF IInv
<1> DEFINE locked == ValidationLock(b, k) \/ ValidationGrant(b, k)
<1>1. /\ UNCHANGED <<xid, writeSet, readSet, scan, store, nextXid, clock, pos, writes, reads,
                     fate, validS>>
      /\ phase[b] \in {"active", "lock", "wait"} /\ phase'[b] \in {"lock", "wait"}
  BY DEF PreCommit, ValidationLock, ValidationWait, ValidationGrant, CommitFrame, setVars,
         histVars, TypeOK, SessionType
<1>2. \A c \in Backends : c # b => phase'[c] = phase[c] /\ todo'[c] = todo[c]
  BY DEF PreCommit, ValidationLock, ValidationWait, ValidationGrant, TypeOK, SessionType
<1>3. Pending(b) = {} /\ Pending(b)' = {}
  BY <1>1 DEF Pending
<1>4. /\ RowsStay' /\ StoreInv' /\ SetInv' /\ OwnInv'
      /\ \A c \in Backends : Pending(c)' = Pending(c)
      /\ \A x \in Xids0, j \in Keys : reads[x][j] # NoValue => (Good(x, j)' <=> Good(x, j))
  BY <1>1, <1>2, <1>3, CallbackPart
<1>5. XidInv'
  BY <1>1, <1>2 DEF XidInv, WriteKeys
<1>6. ReadInv'
  BY <1>1, <1>2, <1>4 DEF ReadInv, TypeOK, SessionType
<1>7. LockInv'
  <2>1. CASE PreCommit(b)
    <3>1. /\ phase[b] = "active" /\ validX' = validX
          /\ todo'[b] = WriteKeys(b)
      BY <2>1 DEF PreCommit, TypeOK, SessionType
    <3> QED
      BY <1>1, <1>2, <1>4, <3>1 DEF LockInv, WriteKeys
  <2>2. CASE ValidationWait(b, k)
    <3>1. phase[b] = "lock" /\ UNCHANGED <<validX, todo>>
      BY <2>2 DEF ValidationWait
    <3> QED
      BY <1>1, <1>2, <1>4, <3>1 DEF LockInv, WriteKeys
  <2>3. CASE locked
    <3>1. /\ phase[b] \in {"lock", "wait"}
          /\ todo'[b] = todo[b] \ {k}
          /\ k \in todo[b] /\ \A j \in todo[b] : j \in Nat /\ k <= j
      BY <2>3, XactAssumption DEF ValidationLock, ValidationGrant, IsFirst, TypeOK, SessionType
    <3>2. /\ \A c \in Backends, t \in Tags :
                c \in validX'[t] <=> (c \in validX[t] \/ (c = b /\ t = Tag(k)))
          /\ \A c \in Backends : c \in validX[Tag(k)] \union validS[Tag(k)] => c = b
      <4>1. validX' = [validX EXCEPT ![Tag(k)] = @ \union {b}]
        BY <2>3 DEF ValidationLock, ValidationGrant
      <4>2. \A c \in Backends : c \in validX[Tag(k)] \union validS[Tag(k)] => c = b
        <5>1. CASE b \in validX[Tag(k)]
          BY <5>1, TagType DEF LockInv
        <5>2. CASE b \notin validX[Tag(k)]
          BY <2>3, <5>2 DEF ValidationLock, ValidationGrant, MustWait, HeldByOther
        <5> QED
          BY <5>1, <5>2
      <4> QED
        BY <4>1, <4>2, TagType DEF TypeOK, LockType
    <3>3. k \in WriteKeys(b) /\ k \in Nat /\ \A j \in todo'[b] : k < j
      BY <3>1, XactAssumption DEF LockInv
    <3>4. WriteKeys(b) \ todo'[b] = (WriteKeys(b) \ todo[b]) \union {k}
      BY <3>1, <3>3
    <3>5. \A c \in Backends, t \in Tags : c \in validX'[t] =>
            /\ phase'[c] \notin {"idle", "active"}
            /\ phase'[c] \in {"lock", "wait"} =>
                    \E j \in WriteKeys(c) \ todo'[c] : Tag(j) = t
      <4> SUFFICES ASSUME NEW c \in Backends, NEW t \in Tags, c \in validX'[t]
                   PROVE  /\ phase'[c] \notin {"idle", "active"}
                          /\ phase'[c] \in {"lock", "wait"} =>
                                \E j \in WriteKeys(c) \ todo'[c] : Tag(j) = t
        OBVIOUS
      <4>1. CASE c \in validX[t]
        BY <1>1, <1>2, <3>1, <3>4, <4>1 DEF LockInv
      <4>2. CASE c = b /\ t = Tag(k)
        BY <1>1, <3>4, <4>2
      <4> QED
        BY <3>2, <4>1, <4>2
    <3>6. \A c \in Backends : phase'[c] \in {"lock", "wait"} =>
            /\ todo'[c] \subseteq WriteKeys(c)
            /\ \A i \in WriteKeys(c) \ todo'[c] :
                    c \in validX'[Tag(i)] /\ \A j \in todo'[c] : i < j
      <4> SUFFICES ASSUME NEW c \in Backends, phase'[c] \in {"lock", "wait"}
                   PROVE  /\ todo'[c] \subseteq WriteKeys(c)
                          /\ \A i \in WriteKeys(c) \ todo'[c] :
                                c \in validX'[Tag(i)] /\ \A j \in todo'[c] : i < j
        OBVIOUS
      <4>1. WriteKeys(c) \subseteq Keys
        BY DEF WriteKeys
      <4>2. CASE c = b
        BY <3>1, <3>2, <3>3, <3>4, <4>1, <4>2, TagType DEF LockInv
      <4>3. CASE c # b
        BY <1>2, <3>2, <4>1, <4>3, TagType DEF LockInv
      <4> QED
        BY <4>2, <4>3
    <3>7. \A c, d \in Backends, t \in Tags :
            c \in validX'[t] /\ d \in validX'[t] \union validS[t] => c = d
      BY <3>2 DEF LockInv
    <3>8. \A c \in Backends : \A i \in Pending(c) : c \in validX'[Tag(i)] /\ i \in WriteKeys(c)
      BY <3>2, TagType DEF LockInv, Pending
    <3>9. \A c \in Backends, t \in Tags : c \in validS[t] => phase'[c] = "peek"
      BY <1>1, <1>2 DEF LockInv
    <3>10. \A c \in Backends : WriteKeys(c)' = WriteKeys(c)
      BY <1>1 DEF WriteKeys
    <3> QED
      BY <1>1, <1>4, <3>5, <3>6, <3>7, <3>8, <3>9, <3>10 DEF LockInv
  <2> QED
    BY <2>1, <2>2, <2>3
<1> QED
  BY <1>4, <1>5, <1>6, <1>7

\* Validation of the read set, key by key, and the change to the last loop.  A
\* version that is current while the share lock is held is the last one before
\* the transaction's position: a writer that comes earlier and has not
\* installed it would still hold its exclusive lock.
LEMMA ValidateInv ==
    ASSUME IInv, TypeOK', NEW b \in Backends, NEW k \in Keys,
           PeekLock(b, k) \/ ReadValid(b, k) \/ Validated(b) \/ Installed(b)
    PROVE  IInv'
<1> USE DEF IInv
<1>1. /\ UNCHANGED <<xid, writeSet, readSet, scan, store, nextXid, clock, pos, writes, reads,
                     fate, validX>>
      /\ phase'[b] \in {"validate", "peek", "install", "done"}
      /\ phase[b] \in {"validate", "peek", "install"}
  BY DEF PeekLock, ReadValid, Peeks, Validated, Installed, CommitFrame, setVars, histVars,
         TypeOK, SessionType
<1>2. \A c \in Backends : c # b => phase'[c] = phase[c] /\ todo'[c] = todo[c]
  BY DEF PeekLock, ReadValid, Peeks, Validated, Installed, TypeOK, SessionType
<1>3. \/ phase[b] \in {"validate", "peek"} /\ phase'[b] \in {"validate", "peek"}
      \/ phase[b] = "validate" /\ phase'[b] = "install" /\ todo'[b] = WriteKeys(b) /\ todo[b] = {}
      \/ phase[b] = "install" /\ phase'[b] = "done" /\ todo[b] = {} /\ todo'[b] = {}
  BY DEF PeekLock, ReadValid, Peeks, Validated, Installed, TypeOK, SessionType
<1>4. Pending(b)' = Pending(b)
  BY <1>1, <1>3 DEF Pending, WriteKeys
<1>5. /\ RowsStay' /\ StoreInv' /\ SetInv' /\ OwnInv'
      /\ \A c \in Backends : Pending(c)' = Pending(c)
      /\ \A x \in Xids0, j \in Keys : reads[x][j] # NoValue => (Good(x, j)' <=> Good(x, j))
  BY <1>1, <1>2, <1>3, <1>4, CallbackPart
<1>6. XidInv'
  BY <1>1, <1>2, <1>3 DEF XidInv, WriteKeys
<1>7. LockInv'
  <2>0. /\ PeekLock(b, k) => validS' = [validS EXCEPT ![Tag(k)] = @ \union {b}]
        /\ ReadValid(b, k) => validS' = [validS EXCEPT ![Tag(k)] = @ \ {b}]
        /\ Tag(k) \in Tags /\ validS \in [Tags -> SUBSET Backends]
    BY TagType DEF PeekLock, ReadValid, TypeOK, LockType
  <2>1. \A c \in Backends, t \in Tags : c \in validS'[t] => phase'[c] = "peek"
    <3>1. CASE PeekLock(b, k)
      <4>1. /\ phase'[b] = "peek"
            /\ \A c \in Backends, t \in Tags :
                  c \in validS'[t] => c \in validS[t] \/ c = b
        BY <2>0, <3>1 DEF PeekLock, TypeOK, SessionType
      <4> QED
        BY <1>2, <4>1 DEF LockInv
    <3>2. CASE ReadValid(b, k)
      <4>1. /\ b \in validS[Tag(k)]
            /\ \A c \in Backends, t \in Tags :
                  c \in validS'[t] => c \in validS[t] /\ ~(c = b /\ t = Tag(k))
        BY <2>0, <3>2 DEF ReadValid, Peeks
      <4> QED
        BY <1>2, <2>0, <4>1 DEF LockInv
    <3>3. CASE Validated(b) \/ Installed(b)
      <4>1. validS' = validS /\ phase[b] \in {"validate", "install"}
        BY <3>3 DEF Validated, Installed
      <4> QED
        BY <1>2, <4>1 DEF LockInv
    <3> QED
      BY <3>1, <3>2, <3>3
  <2>2. \/ \A c \in Backends, t \in Tags : c \in validS'[t] => c \in validS[t]
        \/ /\ \A c \in Backends, t \in Tags :
                  c \in validS'[t] => c \in validS[t] \/ (c = b /\ t = Tag(k))
           /\ validX[Tag(k)] \subseteq {b} /\ phase[b] = "validate"
    <3>1. CASE PeekLock(b, k)
      BY <2>0, <3>1 DEF PeekLock
    <3>2. CASE ReadValid(b, k)
      BY <2>0, <3>2
    <3>3. CASE Validated(b) \/ Installed(b)
      BY <3>3 DEF Validated, Installed
    <3> QED
      BY <3>1, <3>2, <3>3
  <2>3. \A c, d \in Backends, t \in Tags :
            c \in validX[t] /\ d \in validX[t] \union validS'[t] => c = d
    BY <2>2 DEF LockInv
  <2>4. \A c \in Backends, r, t \in Tags : c \in validS'[r] /\ c \in validS'[t] => r = t
    BY <2>2 DEF LockInv
  <2> QED
    BY <1>1, <1>2, <1>3, <1>5, <2>1, <2>3, <2>4 DEF LockInv, WriteKeys
<1>8. ReadInv'
  <2>1. \A c \in Backends : xid[c] \in Xids0
    BY DEF TypeOK, SessionType
  <2>2. ASSUME NEW j \in Keys, reads[xid[b]][j] # NoValue,
               phase'[b] \in {"install", "done"} \/ j \notin todo'[b]
        PROVE  Good(xid[b], j)
    <3>1. CASE phase[b] = "install" \/ j \notin todo[b]
      BY <1>1, <1>3, <2>2, <3>1 DEF ReadInv
    <3>2. CASE phase[b] # "install" /\ j \in todo[b]
      <4>1. ReadValid(b, k) /\ j = k
        BY <1>1, <1>3, <2>2, <3>2
        DEF PeekLock, ReadValid, Peeks, Validated, Installed, TypeOK, SessionType
      <4> DEFINE y == readSet[b][k].xid
      <4>2. /\ phase[b] = "peek" /\ b \in validS[Tag(k)]
            /\ readSet[b][k] # NoValue /\ reads[xid[b]][k] = y /\ pos[y] < pos[xid[b]]
            /\ store[k].xid = y
        BY <2>2, <4>1 DEF ReadValid, Peeks, ReadInv
      <4>3. y \in Xids0 /\ Inst(y, k)
        BY <4>2, VersionXid DEF SetInv
      <4>4. \A z \in Xids0 : Inst(z, k) => pos[z] <= pos[y]
        BY <4>2, <4>3 DEF StoreInv
      <4>5. ASSUME NEW z \in Xids0, k \in writes[z], pos[z] < pos[xid[b]]
            PROVE  Inst(z, k)
        <5>1. SUFFICES ASSUME NEW c \in Backends, xid[c] = z, k \in Pending(c) PROVE FALSE
          BY <4>5 DEF Inst
        <5>2. c = b
          BY <4>2, <5>1, TagType DEF LockInv
        <5>3. pos[xid[b]] \in Nat
          BY <2>1 DEF TypeOK, HistType
        <5> QED
          BY <4>5, <5>1, <5>2, <5>3
      <4>6. k \in writes[y]
        BY <4>3 DEF Inst
      <4> QED
        BY <4>1, <4>2, <4>3, <4>4, <4>5, <4>6 DEF Good, ReadsLatest
    <3> QED
      BY <3>1, <3>2
  <2>3. \A c \in Backends, j \in Keys :
            /\ \/ phase'[c] \in {"install", "done"}
               \/ phase'[c] \in {"validate", "peek"} /\ j \notin todo'[c]
            /\ reads[xid[c]][j] # NoValue
            => Good(xid[c], j)
    BY <1>2, <2>2 DEF ReadInv
  <2>4. \A c \in Backends, j \in Keys :
            phase'[c] \in {"validate", "peek"} /\ reads[xid[c]][j] # NoValue =>
                /\ readSet[c][j] # NoValue
                /\ reads[xid[c]][j] = readSet[c][j].xid
                /\ pos[readSet[c][j].xid] < pos[xid[c]]
    BY <1>2, <1>3 DEF ReadInv
  <2> QED
    BY <1>1, <1>5, <2>1, <2>3, <2>4 DEF ReadInv
<1> QED
  BY <1>5, <1>6, <1>7, <1>8

\* The write set is locked: the transaction gets the next position.  Its keys
\* are pending, all that is installed has an earlier position, and no read is
\* checked yet.
LEMMA WriteSetLockedInv ==
    ASSUME IInv, TypeOK', NEW b \in Backends, WriteSetLocked(b)
    PROVE  IInv'
<1> USE DEF IInv
<1> DEFINE x == xid[b]
<1>1. /\ UNCHANGED <<xid, writeSet, readSet, scan, store, nextXid, fate, validX, validS>>
      /\ phase[b] = "lock" /\ phase'[b] = "validate" /\ todo[b] = {}
      /\ x \in Xids0
      /\ \A k \in Keys : k \in todo'[b] <=> iso[b] = "SER" /\ readSet[b][k] # NoValue
  BY DEF WriteSetLocked, CommitFrame, ReadKeys, setVars, TypeOK, SessionType
<1>2. \A c \in Backends : c # b => phase'[c] = phase[c] /\ todo'[c] = todo[c]
  BY DEF WriteSetLocked, TypeOK, SessionType
<1>3. /\ \A z \in Xids0 : z # x =>
            pos'[z] = pos[z] /\ writes'[z] = writes[z] /\ reads'[z] = reads[z]
      /\ pos'[x] = clock + 1 /\ clock' = clock + 1 /\ writes'[x] = WriteKeys(b)
      /\ \A k \in Keys : reads'[x][k] = IF iso[b] = "SER" /\ readSet[b][k] # NoValue
                                        THEN readSet[b][k].xid ELSE NoValue
  BY <1>1 DEF WriteSetLocked, TypeOK, HistType
<1>4. /\ clock \in Nat /\ \A z \in Xids0 : pos[z] <= clock /\ pos[z] \in Nat
      /\ pos[x] = 0 /\ writes[x] = {} /\ x \in Xids /\ x < nextXid /\ fate[x] = "running"
  BY <1>1 DEF XidInv, TypeOK, HistType
<1>5. /\ pos'[x] > 0
      /\ \A z \in Xids0 : pos'[z] <= clock'
      /\ \A z \in Xids0 : z # x => pos[z] < pos'[x] /\ ~(pos'[x] < pos[z])
  <2>1. /\ clock + 1 > 0 /\ clock + 1 <= clock + 1
        /\ \A z \in Xids0 : pos[z] < clock + 1 /\ pos[z] <= clock + 1 /\ ~(clock + 1 < pos[z])
    BY <1>4
  <2> QED
    BY <1>3, <2>1
<1>6. /\ \A c \in Backends : c # b => Pending(c)' = Pending(c)
      /\ Pending(b)' = WriteKeys(b) /\ Pending(b) = {}
  BY <1>1, <1>2 DEF Pending, WriteKeys
<1>7. \A c \in Backends : phase[c] # "idle" /\ c # b => xid[c] # x /\ xid[c] \in Xids0
  BY <1>1 DEF XidInv, TypeOK, SessionType
<1>8. \A z \in Xids0, k \in Keys : Inst(z, k)' <=> Inst(z, k)
  BY <1>1, <1>3, <1>4, <1>6 DEF Inst
<1>9. \A k \in Keys : ~Inst(x, k)
  BY <1>4 DEF Inst
<1>10. RowsStay'
  BY <1>1 DEF RowsStay
<1>11. XidInv'
  <2>1. \A z \in Xids0 : z >= nextXid => z # x
    BY <1>4, XidsNat, XactAssumption DEF TypeOK, SharedType
  <2>2. \A c \in Backends : phase'[c] # "idle" <=> phase[c] # "idle"
    BY <1>1, <1>2
  <2>3. \A z \in Xids0 : z >= nextXid => pos'[z] = 0 /\ writes'[z] = {} /\ fate[z] = "none"
    BY <1>3, <2>1 DEF XidInv
  <2>4. \A c \in Backends : phase'[c] \in {"active", "lock", "wait"} =>
            pos'[xid[c]] = 0 /\ writes'[xid[c]] = {}
    BY <1>1, <1>2, <1>3, <1>7 DEF XidInv
  <2>5. \A c \in Backends : phase'[c] \in {"validate", "peek"} =>
            pos'[xid[c]] > 0 /\ writes'[xid[c]] = WriteKeys(c)
    BY <1>1, <1>2, <1>3, <1>5, <1>7 DEF XidInv
  <2>6. \A c \in Backends : phase'[c] = "install" => todo'[c] \subseteq writes'[xid[c]]
    BY <1>1, <1>2, <1>3, <1>7 DEF XidInv
  <2> QED
    BY <1>1, <1>5, <2>2, <2>3, <2>4, <2>5, <2>6 DEF XidInv, WriteKeys
<1>12. LockInv'
  BY <1>1, <1>2, <1>6 DEF LockInv, WriteKeys
<1>13. StoreInv'
  <2>1. \A k \in Keys : Public(store[k]) => store[k].xid # x
    BY <1>9 DEF StoreInv
  <2>2. \A k \in Keys, z \in Xids0 : Inst(z, k) =>
            Public(store[k]) /\ pos'[z] <= pos'[store[k].xid]
    BY <1>3, <1>9, <2>1, VersionXid DEF StoreInv, Public
  <2>3. \A k \in Keys, z \in Xids0, c \in Backends :
            Inst(z, k) /\ k \in Pending(c)' => pos'[z] < pos'[xid[c]]
    <3> SUFFICES ASSUME NEW k \in Keys, NEW z \in Xids0, NEW c \in Backends,
                        Inst(z, k), k \in Pending(c)'
                 PROVE  pos'[z] < pos'[xid[c]]
      OBVIOUS
    <3>1. z # x
      BY <1>9
    <3>2. CASE c = b
      BY <1>3, <1>5, <3>1, <3>2
    <3>3. CASE c # b
      <4>1. k \in Pending(c) /\ phase[c] # "idle"
        BY <1>6, <3>3 DEF Pending
      <4> QED
        BY <1>3, <1>7, <3>1, <3>3, <4>1 DEF StoreInv
    <3> QED
      BY <3>2, <3>3
  <2> QED
    BY <1>1, <1>8, <2>2, <2>3, VersionXid DEF StoreInv, Public
<1>14. SetInv'
  BY <1>1, <1>2, <1>8, VersionXid DEF SetInv, Public
<1>15. OwnInv'
  BY <1>1, <1>2 DEF OwnInv
<1>16. ReadInv'
  <2>1. ASSUME NEW z \in Xids0, z # x, NEW k \in Keys, reads[z][k] # NoValue, Good(z, k)
        PROVE  Good(z, k)'
    <3>0. PICK y \in Xids0 : y = reads[z][k]
      BY <2>1 DEF TypeOK, HistType
    <3>1. Inst(y, k) /\ Inst(y, k)' /\ y # x
      BY <1>8, <1>9, <2>1, <3>0 DEF Good
    <3>2. ReadsLatest(z, k, y)'
      BY <1>3, <1>5, <2>1, <3>0, <3>1 DEF Good, ReadsLatest
    <3> QED
      BY <1>3, <2>1, <3>0, <3>1, <3>2 DEF Good
  <2>2. \A c \in Backends, k \in Keys :
            phase'[c] \in {"validate", "peek"} /\ reads'[xid[c]][k] # NoValue =>
                /\ readSet[c][k] # NoValue
                /\ reads'[xid[c]][k] = readSet[c][k].xid
                /\ pos'[readSet[c][k].xid] < pos'[xid[c]]
    <3> SUFFICES ASSUME NEW c \in Backends, NEW k \in Keys,
                        phase'[c] \in {"validate", "peek"}, reads'[xid[c]][k] # NoValue
                 PROVE  /\ readSet[c][k] # NoValue
                        /\ reads'[xid[c]][k] = readSet[c][k].xid
                        /\ pos'[readSet[c][k].xid] < pos'[xid[c]]
      OBVIOUS
    <3>0. readSet[c][k] # NoValue => readSet[c][k].xid \in Xids0 /\ readSet[c][k].xid # x
      BY <1>9, VersionXid DEF SetInv
    <3>1. CASE c = b
      <4>1. readSet[c][k] # NoValue /\ reads'[xid[c]][k] = readSet[c][k].xid
        BY <1>3, <3>1
      <4> QED
        BY <1>3, <1>5, <3>0, <3>1, <4>1
    <3>2. CASE c # b
      BY <1>2, <1>3, <1>7, <3>0, <3>2 DEF ReadInv
    <3> QED
      BY <3>1, <3>2
  <2>3. \A c \in Backends, k \in Keys :
            /\ \/ phase'[c] \in {"install", "done"}
               \/ phase'[c] \in {"validate", "peek"} /\ k \notin todo'[c]
            /\ reads'[xid[c]][k] # NoValue
            => Good(xid[c], k)'
    <3> SUFFICES ASSUME NEW c \in Backends, NEW k \in Keys,
                        \/ phase'[c] \in {"install", "done"}
                        \/ phase'[c] \in {"validate", "peek"} /\ k \notin todo'[c],
                        reads'[xid[c]][k] # NoValue
                 PROVE  Good(xid[c], k)'
      OBVIOUS
    <3>1. c # b
      BY <1>1, <1>3
    <3>2. /\ xid[c] \in Xids0 /\ xid[c] # x /\ reads[xid[c]][k] # NoValue
          /\ Good(xid[c], k)
      BY <1>2, <1>3, <1>7, <3>1 DEF ReadInv
    <3>3. Good(xid[c], k)'
      BY <1>1, <2>1, <3>2
    <3> QED
      BY <3>3
  <2>4. \A z \in Xids0, k \in Keys :
            fate[z] = "committed" /\ reads'[z][k] # NoValue => Good(z, k)'
    BY <1>3, <1>4, <2>1 DEF ReadInv
  <2> QED
    BY <1>1, <2>2, <2>3, <2>4 DEF ReadInv
<1> QED
  BY <1>10, <1>11, <1>12, <1>13, <1>14, <1>15, <1>16

\* A put of a pending key makes its writer's version the last one installed.
LEMMA PutStore ==
    ASSUME IInv, TypeOK', NEW b \in Backends, NEW k \in Keys, k \in Pending(b),
           store' = [store EXCEPT ![k] = writeSet[b][k]],
           UNCHANGED <<pos, nextXid>>,
           \A z \in Xids0, j \in Keys :
               Inst(z, j)' <=> (Inst(z, j) \/ (z = xid[b] /\ j = k)),
           \A c \in Backends : Pending(c)' \subseteq Pending(c),
           \A c \in Backends : Pending(c)' # {} => xid'[c] = xid[c],
           k \notin Pending(b)'
    PROVE  /\ StoreInv'
           /\ \A j \in Keys : store'[j] = store[j] \/ Public(store'[j])
<1> USE DEF IInv
<1>1. /\ writeSet[b][k] # NoValue /\ ~writeSet[b][k].priv /\ writeSet[b][k].xid = xid[b]
      /\ phase[b] # "idle" /\ xid[b] \in Xids0 /\ xid[b] < nextXid
  <2>1. writeSet[b][k] # NoValue /\ phase[b] # "idle"
    BY DEF LockInv, WriteKeys, Pending
  <2>2. xid[b] \in Xids0 /\ xid[b] < nextXid
    BY <2>1, XidsNat DEF XidInv
  <2> QED
    BY <2>1, <2>2 DEF TypeOK, SetType, WriteMap, OwnInv
<1>2. /\ \A j \in Keys : j # k => store'[j] = store[j]
      /\ store'[k] = writeSet[b][k]
  BY DEF TypeOK, SharedType, RowMap
<1>3. \A j \in Keys : store'[j] = store[j] \/ Public(store'[j])
  BY <1>1, <1>2 DEF Public
<1>4. \A j \in Keys : store'[j] # NoValue => store'[j].xid < nextXid
  BY <1>1, <1>2 DEF StoreInv
<1>5. \A j \in Keys : Public(store'[j]) => Inst(store[j].xid, j)'
  <2> SUFFICES ASSUME NEW j \in Keys, Public(store'[j]) PROVE Inst(store[j].xid, j)'
    OBVIOUS
  <2>1. CASE j = k
    <3>1. Inst(xid[b], k) \/ (xid[b] = xid[b] /\ k = k)
      OBVIOUS
    <3>2. PICK y \in Xids0 : y = xid[b] /\ y = store'[j].xid
      BY <1>1, <1>2, <2>1
    <3>3. Inst(y, k)'
      BY <3>2
    <3>4. store'[j].xid = y
      BY <3>2
    <3> QED
      BY <2>1, <3>3, <3>4
  <2>2. CASE j # k
    <3>1. PICK y \in Xids0 : y = store[j].xid /\ y = store'[j].xid
      BY <1>2, <2>2, VersionXid DEF Public
    <3>2. Inst(y, j)
      BY <1>2, <2>2, <3>1 DEF StoreInv
    <3>3. Inst(y, j)'
      BY <3>2
    <3> QED
      BY <3>1, <3>3
  <2> QED
    BY <2>1, <2>2
<1>6. \A j \in Keys, z \in Xids0 : Inst(z, j)' =>
            Public(store'[j]) /\ pos[z] <= pos[store'[j].xid]
  <2> SUFFICES ASSUME NEW j \in Keys, NEW z \in Xids0, Inst(z, j)'
               PROVE  Public(store'[j]) /\ pos[z] <= pos[store'[j].xid]
    OBVIOUS
  <2>0. pos[z] \in Nat /\ pos[xid[b]] \in Nat
    BY <1>1 DEF TypeOK, HistType
  <2>1. CASE j = k /\ Inst(z, k)
    <3>1. pos[z] < pos[xid[b]]
      BY <2>1 DEF StoreInv
    <3> QED
      BY <1>1, <1>2, <2>0, <2>1, <3>1 DEF Public
  <2>2. CASE j = k /\ z = xid[b]
    BY <1>1, <1>2, <2>0, <2>2 DEF Public
  <2>3. CASE j # k
    BY <1>2, <2>3 DEF StoreInv
  <2> QED
    BY <2>1, <2>2, <2>3
<1>7. \A j \in Keys, z \in Xids0, c \in Backends :
            Inst(z, j)' /\ j \in Pending(c)' => pos[z] < pos[xid'[c]]
  <2> SUFFICES ASSUME NEW j \in Keys, NEW z \in Xids0, NEW c \in Backends,
                      Inst(z, j)', j \in Pending(c)'
               PROVE  pos[z] < pos[xid[c]] /\ xid'[c] = xid[c]
    OBVIOUS
  <2>1. j # k
    BY TagType DEF LockInv
  <2> QED
    BY <2>1 DEF StoreInv
<1> QED
  BY <1>3, <1>4, <1>5, <1>6, <1>7 DEF StoreInv

\* What has been read stays right as long as no version is added but the one
\* that a pending key of the installing transaction makes.
LEMMA GoodStays ==
    ASSUME IInv, UNCHANGED <<pos, reads>>,
           \A z \in Xids0 : writes'[z] \subseteq writes[z],
           \A z \in Xids0, j \in Keys : Inst(z, j) => Inst(z, j)'
    PROVE  \A x \in Xids0, k \in Keys : reads[x][k] # NoValue /\ Good(x, k) => Good(x, k)'
<1> SUFFICES ASSUME NEW x \in Xids0, NEW k \in Keys, reads[x][k] # NoValue, Good(x, k)
             PROVE  Good(x, k)'
  OBVIOUS
<1>1. PICK y \in Xids0 : y = reads[x][k] /\ y = reads'[x][k]
  BY DEF IInv, TypeOK, HistType
<1>2. Inst(y, k) /\ ReadsLatest(x, k, y)
  BY <1>1 DEF Good
<1>3. Inst(y, k)'
  BY <1>2
<1>4. k \in writes'[y]
  BY <1>3 DEF Inst
<1>5. ReadsLatest(x, k, y)'
  BY <1>2, <1>4 DEF ReadsLatest
<1> QED
  BY <1>1, <1>3, <1>5 DEF Good

\* Installing one row, or losing it when the service is gone.
LEMMA InstallInv ==
    ASSUME IInv, TypeOK', NEW b \in Backends, NEW k \in Keys, Install(b, k)
    PROVE  IInv'
<1> USE DEF IInv
<1>1. /\ UNCHANGED <<xid, phase, writeSet, readSet, scan, nextXid, fate, validS, clock, pos, reads>>
      /\ phase[b] = "install" /\ k \in todo[b] /\ todo'[b] = todo[b] \ {k}
      /\ \A c \in Backends : c # b => todo'[c] = todo[c]
      /\ xid[b] \in Xids0
  BY DEF Install, CommitFrame, IsFirst, setVars, TypeOK, SessionType
<1>2. /\ \A c \in Backends : c # b => Pending(c)' = Pending(c)
      /\ Pending(b)' = Pending(b) \ {k} /\ k \in Pending(b)
  BY <1>1 DEF Pending, WriteKeys
<1>3. /\ \A z \in Xids0 : z # xid[b] => writes'[z] = writes[z]
      /\ writes'[xid[b]] = IF serving THEN writes[xid[b]] ELSE writes[xid[b]] \ {k}
      /\ k \in writes[xid[b]]
  <2>1. k \in writes[xid[b]]
    BY <1>1 DEF XidInv
  <2>2. \/ serving /\ writes' = writes
        \/ ~serving /\ writes' = [writes EXCEPT ![xid[b]] = @ \ {k}]
    BY DEF Install
  <2>3. writes \in [Xids0 -> SUBSET Keys]
    BY DEF TypeOK, HistType
  <2> QED
    BY <1>1, <2>1, <2>2, <2>3
<1>4. \A c \in Backends : xid[c] = xid[b] /\ phase[c] # "idle" => c = b
  BY <1>1 DEF XidInv
<1>5. \A c \in Backends : Pending(c) # {} => phase[c] # "idle"
  BY DEF Pending
<1>6. \A z \in Xids0, j \in Keys :
        Inst(z, j)' <=> (Inst(z, j) \/ (serving /\ z = xid[b] /\ j = k))
  BY <1>1, <1>2, <1>3, <1>4, <1>5 DEF Inst
<1>7. StoreInv' /\ \A j \in Keys : store'[j] = store[j] \/ Public(store'[j])
  <2>1. CASE serving
    <3>1. store' = [store EXCEPT ![k] = writeSet[b][k]]
      BY <2>1 DEF Install
    <3>2. \A z \in Xids0, j \in Keys :
               Inst(z, j)' <=> (Inst(z, j) \/ (z = xid[b] /\ j = k))
      BY <1>6, <2>1
    <3>3. /\ \A c \in Backends : Pending(c)' \subseteq Pending(c)
          /\ k \notin Pending(b)'
      BY <1>2
    <3> QED
      BY <1>1, <1>2, <3>1, <3>2, <3>3, PutStore
  <2>2. CASE ~serving
    <3>1. store' = store /\ \A z \in Xids0, j \in Keys : Inst(z, j)' <=> Inst(z, j)
      BY <1>6, <2>2 DEF Install
    <3>2. \A c \in Backends, j \in Keys : j \in Pending(c)' => j \in Pending(c)
      BY <1>2
    <3> QED
      BY <1>1, <3>1, <3>2, VersionXid DEF StoreInv, Public
  <2> QED
    BY <2>1, <2>2
<1>8. RowsStay'
  BY <1>1, <1>7 DEF RowsStay, Public
<1>9. XidInv'
  <2>1. \A z \in Xids0 : writes'[z] \subseteq writes[z]
    BY <1>3
  <2>2. \A c \in Backends : phase[c] # "idle" => xid[c] \in Xids0
    BY XidsNat DEF XidInv
  <2>3. \A c \in Backends : c # b /\ phase[c] # "idle" => writes'[xid[c]] = writes[xid[c]]
    BY <1>3, <1>4, <2>2
  <2>4. \A c \in Backends : phase[c] \in {"active", "lock", "wait"} =>
            pos[xid[c]] = 0 /\ writes'[xid[c]] = {}
    BY <1>1, <2>3 DEF XidInv
  <2>5. \A c \in Backends : phase[c] \in {"validate", "peek"} =>
            pos[xid[c]] > 0 /\ writes'[xid[c]] = WriteKeys(c)
    BY <1>1, <2>3 DEF XidInv
  <2>6. \A c \in Backends : phase[c] = "install" => todo'[c] \subseteq writes'[xid[c]]
    BY <1>1, <1>3, <2>3 DEF XidInv
  <2>7. \A z \in Xids0 : z >= nextXid => pos[z] = 0 /\ writes'[z] = {} /\ fate[z] = "none"
    BY <2>1 DEF XidInv
  <2> QED
    BY <1>1, <2>4, <2>5, <2>6, <2>7 DEF XidInv, WriteKeys
<1>10. LockInv'
  <2>1. /\ \A c \in Backends, t \in Tags : c \in validX'[t] => c \in validX[t]
        /\ \A c \in Backends, t \in Tags : c # b /\ c \in validX[t] => c \in validX'[t]
        /\ \A j \in todo'[b] : b \in validX[Tag(j)] => b \in validX'[Tag(j)]
    <3>1. \/ validX' = validX
          \/ /\ validX' = [validX EXCEPT ![Tag(k)] = @ \ {b}]
             /\ \A j \in todo[b] \ {k} : Tag(j) # Tag(k)
      BY DEF Install
    <3>2. todo[b] \subseteq Keys
      BY DEF TypeOK, SessionType
    <3> QED
      BY <1>1, <3>1, <3>2, TagType DEF TypeOK, LockType
  <2>2. \A c \in Backends : WriteKeys(c)' = WriteKeys(c)
    BY <1>1 DEF WriteKeys
  <2>3. \A c \in Backends : \A i \in Pending(c)' : c \in validX'[Tag(i)] /\ i \in WriteKeys(c)
    <3> SUFFICES ASSUME NEW c \in Backends, NEW i \in Pending(c)'
                 PROVE  c \in validX'[Tag(i)] /\ i \in WriteKeys(c)
      OBVIOUS
    <3>1. i \in Pending(c) /\ i \in Keys /\ (c = b => i \in todo'[b])
      BY <1>1, <1>2 DEF Pending
    <3>2. c \in validX[Tag(i)] /\ i \in WriteKeys(c)
      BY <3>1 DEF LockInv
    <3> QED
      BY <2>1, <3>1, <3>2, TagType
  <2>4. \A c \in Backends : phase[c] \in {"lock", "wait"} => c # b
    BY <1>1
  <2>5. \A c \in Backends, t \in Tags : c \in validX'[t] =>
            /\ phase[c] \notin {"idle", "active"}
            /\ phase[c] \in {"lock", "wait"} =>
                    \E j \in WriteKeys(c) \ todo'[c] : Tag(j) = t
    BY <1>1, <2>1, <2>4 DEF LockInv
  <2>6. \A c \in Backends : phase[c] \in {"lock", "wait"} =>
            /\ todo'[c] \subseteq WriteKeys(c)
            /\ \A i \in WriteKeys(c) \ todo'[c] :
                    c \in validX'[Tag(i)] /\ \A j \in todo'[c] : i < j
    <3>1. \A c \in Backends : WriteKeys(c) \subseteq Keys
      BY DEF WriteKeys
    <3> QED
      BY <1>1, <2>1, <2>4, <3>1, TagType DEF LockInv
  <2>7. /\ \A c, d \in Backends, t \in Tags :
                c \in validX'[t] /\ d \in validX'[t] \union validS[t] => c = d
        /\ \A c \in Backends, t \in Tags : c \in validS[t] => phase[c] = "peek"
        /\ \A c \in Backends, r, t \in Tags : c \in validS[r] /\ c \in validS[t] => r = t
    BY <2>1 DEF LockInv
  <2> QED
    BY <1>1, <2>2, <2>3, <2>5, <2>6, <2>7 DEF LockInv
<1>11. SetInv'
  <2>1. \A c \in Backends, j \in Keys : readSet[c][j] # NoValue => Inst(readSet[c][j].xid, j)'
    BY <1>1, <1>6, VersionXid DEF SetInv
  <2>2. \A c \in Backends, j \in Keys : Public(scan[c][j]) => Inst(scan[c][j].xid, j)'
    BY <1>1, <1>6, VersionXid DEF SetInv, Public
  <2>3. \A j \in Keys : store'[j] # NoValue /\ store'[j].priv => store'[j] = store[j]
    BY <1>7 DEF Public
  <2> QED
    BY <1>1, <2>1, <2>2, <2>3 DEF SetInv, Public
<1>12. OwnInv'
  BY <1>1 DEF OwnInv
<1>13. ReadInv'
  <2>1. \A x \in Xids0, j \in Keys : reads[x][j] # NoValue /\ Good(x, j) => Good(x, j)'
    BY <1>1, <1>3, <1>6, GoodStays
  <2>2. \A c \in Backends : xid[c] \in Xids0
    BY DEF TypeOK, SessionType
  <2> QED
    BY <1>1, <2>1, <2>2 DEF ReadInv
<1> QED
  BY <1>7, <1>8, <1>9, <1>10, <1>11, <1>12, <1>13

\* Leaving a transaction, whatever it has installed.  Its locks go, so what
\* waits for them is not disturbed, and its reads are right if it commits.
LEMMA LeaveInv ==
    ASSUME IInv, TypeOK', NEW b \in Backends, phase[b] # "idle", EndXact(b),
           UNCHANGED <<nextXid, clock, pos, reads>>,
           \A z \in Xids0 : z # xid[b] => writes'[z] = writes[z] /\ fate'[z] = fate[z],
           writes'[xid[b]] \subseteq writes[xid[b]],
           fate'[xid[b]] = "committed" => phase[b] = "done",
           \A z \in Xids0, j \in Keys : Inst(z, j) => Inst(z, j)',
           StoreInv',
           \A j \in Keys : store'[j] = store[j] \/ Public(store'[j])
    PROVE  IInv'
<1> USE DEF IInv
<1>1. /\ phase'[b] = "idle"
      /\ \A k \in Keys : readSet'[b][k] = NoValue /\ writeSet'[b][k] = NoValue
                         /\ scan'[b][k] = NoValue
      /\ \A c \in Backends : c # b =>
            /\ phase'[c] = phase[c] /\ xid'[c] = xid[c] /\ todo'[c] = todo[c]
            /\ readSet'[c] = readSet[c] /\ writeSet'[c] = writeSet[c] /\ scan'[c] = scan[c]
  BY DEF EndXact, NoKeys, TypeOK, SessionType, SetType
<1>2. \A c \in Backends, t \in Tags :
        /\ c \in validX'[t] <=> (c # b /\ c \in validX[t])
        /\ c \in validS'[t] <=> (c # b /\ c \in validS[t])
  BY DEF EndXact, TypeOK, LockType
<1>3. /\ \A c \in Backends : c # b => Pending(c)' = Pending(c)
      /\ Pending(b)' = {}
  BY <1>1 DEF Pending, WriteKeys
<1>4. /\ \A c \in Backends : xid[c] \in Xids0
      /\ \A c \in Backends : c # b /\ phase[c] # "idle" => xid[c] # xid[b]
      /\ xid[b] < nextXid
  BY DEF XidInv, TypeOK, SessionType
<1>5. RowsStay'
  BY <1>1 DEF RowsStay, Public
<1>6. XidInv'
  <2>0. nextXid \in Nat /\ xid[b] \in Nat
    BY <1>4, XidsNat, NextXidNat
  <2>1. \A z \in Xids0 : z >= nextXid => z # xid[b]
    BY <1>4, <2>0, XidsNat
  <2>2. \A z \in Xids0 : z >= nextXid => pos[z] = 0 /\ writes'[z] = {} /\ fate'[z] = "none"
    BY <2>1 DEF XidInv
  <2>3. \A c \in Backends : phase'[c] # "idle" =>
            /\ c # b /\ phase[c] = phase'[c] /\ xid'[c] = xid[c] /\ todo'[c] = todo[c]
            /\ WriteKeys(c)' = WriteKeys(c)
            /\ writes'[xid[c]] = writes[xid[c]] /\ fate'[xid[c]] = fate[xid[c]]
    BY <1>1, <1>4 DEF WriteKeys
  <2> QED
    BY <2>2, <2>3 DEF XidInv
<1>7. LockInv'
  <2>1. \A c \in Backends : c # b => WriteKeys(c)' = WriteKeys(c)
    BY <1>1 DEF WriteKeys
  <2>2. \A c \in Backends : WriteKeys(c) \subseteq Keys /\ Pending(c) \subseteq Keys
    BY DEF WriteKeys, Pending
  <2> QED
    BY <1>1, <1>2, <1>3, <2>1, <2>2, TagType DEF LockInv
<1>8. SetInv'
  <2>1. \A c \in Backends, j \in Keys : c # b /\ readSet[c][j] # NoValue => Inst(readSet[c][j].xid, j)'
    <3> SUFFICES ASSUME NEW c \in Backends, NEW j \in Keys, c # b, readSet[c][j] # NoValue
                 PROVE  Inst(readSet[c][j].xid, j)'
      OBVIOUS
    <3>1. PICK y \in Xids0 : y = readSet[c][j].xid /\ y = readSet'[c][j].xid
      BY <1>1, VersionXid
    <3>2. Inst(y, j)'
      BY <3>1 DEF SetInv
    <3> QED
      BY <3>1, <3>2
  <2>2. \A c \in Backends, j \in Keys : c # b /\ Public(scan[c][j]) => Inst(scan[c][j].xid, j)'
    <3> SUFFICES ASSUME NEW c \in Backends, NEW j \in Keys, c # b, Public(scan[c][j])
                 PROVE  Inst(scan[c][j].xid, j)'
      OBVIOUS
    <3>1. PICK y \in Xids0 : y = scan[c][j].xid /\ y = scan'[c][j].xid
      BY <1>1, VersionXid DEF Public
    <3>2. Inst(y, j)'
      BY <3>1 DEF SetInv
    <3> QED
      BY <3>1, <3>2
  <2>3. \A j \in Keys : store'[j] # NoValue /\ store'[j].priv => store'[j] = store[j]
    BY DEF Public
  <2> QED
    BY <1>1, <2>1, <2>2, <2>3 DEF SetInv, Public
<1>9. OwnInv'
  BY <1>1 DEF OwnInv
<1>10. ReadInv'
  <2>1. \A z \in Xids0 : writes'[z] \subseteq writes[z]
    OBVIOUS
  <2>2. \A x \in Xids0, j \in Keys : reads[x][j] # NoValue /\ Good(x, j) => Good(x, j)'
    BY <2>1, GoodStays
  <2>3. \A x \in Xids0, j \in Keys :
            fate'[x] = "committed" /\ reads[x][j] # NoValue => Good(x, j)'
    BY <1>4, <2>2 DEF ReadInv
  <2>4. \A c \in Backends, j \in Keys :
            /\ \/ phase'[c] \in {"install", "done"}
               \/ phase'[c] \in {"validate", "peek"} /\ j \notin todo'[c]
            /\ reads[xid'[c]][j] # NoValue
            => c # b /\ xid'[c] = xid[c] /\ Good(xid[c], j)
    BY <1>1 DEF ReadInv
  <2>5. \A c \in Backends, j \in Keys :
            c # b /\ xid'[c] = xid[c] /\ reads[xid[c]][j] # NoValue /\ Good(xid[c], j)
            => Good(xid[c], j)'
    <3> SUFFICES ASSUME NEW c \in Backends, NEW j \in Keys, xid'[c] = xid[c],
                        reads[xid[c]][j] # NoValue, Good(xid[c], j)
                 PROVE  Good(xid[c], j)'
      OBVIOUS
    <3>1. PICK y \in Xids0 : y = xid[c] /\ y = xid'[c]
      BY <1>4
    <3>2. Good(y, j)'
      BY <2>2, <3>1
    <3> QED
      BY <3>1, <3>2
  <2> QED
    BY <1>1, <2>3, <2>4, <2>5 DEF ReadInv
<1> QED
  BY <1>5, <1>6, <1>7, <1>8, <1>9, <1>10

\* A transaction aborts: what it has not installed is no longer its write.
LEMMA AbortXactInv ==
    ASSUME IInv, TypeOK', NEW b \in Backends, phase[b] # "idle", AbortXact(b)
    PROVE  IInv'
<1> USE DEF IInv
<1> DEFINE W == IF phase[b] \in {"install", "done"} THEN writes[xid[b]] \ todo[b] ELSE {}
<1>1. /\ EndXact(b)
      /\ UNCHANGED <<store, nextXid, clock, pos, reads>>
      /\ xid[b] \in Xids0
      /\ writes'[xid[b]] = W /\ fate'[xid[b]] = "aborted"
      /\ \A z \in Xids0 : z # xid[b] => writes'[z] = writes[z] /\ fate'[z] = fate[z]
  BY DEF AbortXact, TypeOK, HistType, SessionType
<1>2. /\ phase'[b] = "idle"
      /\ \A c \in Backends : c # b =>
            phase'[c] = phase[c] /\ xid'[c] = xid[c] /\ todo'[c] = todo[c]
            /\ writeSet'[c] = writeSet[c]
  BY <1>1 DEF EndXact, TypeOK, SessionType, SetType
<1>3. /\ \A c \in Backends : c # b => Pending(c)' = Pending(c)
      /\ Pending(b)' = {}
  BY <1>2 DEF Pending, WriteKeys
<1>4. \A c \in Backends : c # b /\ xid[c] = xid[b] => Pending(c) = {}
  BY DEF XidInv, Pending
<1>5. W = {k \in Keys : k \in writes[xid[b]] /\ k \notin Pending(b)}
  <2>1. writes[xid[b]] \subseteq Keys
    BY <1>1 DEF TypeOK, HistType
  <2>2. CASE phase[b] \in {"active", "lock", "wait"}
    BY <2>2 DEF XidInv
  <2>3. CASE phase[b] \in {"validate", "peek"}
    BY <2>3 DEF XidInv, Pending
  <2>4. CASE phase[b] = "install"
    BY <2>1, <2>4 DEF Pending
  <2>5. CASE phase[b] = "done"
    BY <2>1, <2>5 DEF Pending, OwnInv
  <2> QED
    BY <2>2, <2>3, <2>4, <2>5 DEF TypeOK, SessionType, Phases, CommitPhases
<1> HIDE DEF W
<1>6. \A z \in Xids0, k \in Keys : Inst(z, k)' <=> Inst(z, k)
  <2> SUFFICES ASSUME NEW z \in Xids0, NEW k \in Keys PROVE Inst(z, k)' <=> Inst(z, k)
    OBVIOUS
  <2>1. CASE z = xid[b]
    BY <1>1, <1>2, <1>3, <1>4, <1>5, <2>1 DEF Inst
  <2>2. CASE z # xid[b]
    BY <1>1, <1>2, <1>3, <2>2 DEF Inst
  <2> QED
    BY <2>1, <2>2
<1>7. StoreInv'
  BY <1>1, <1>2, <1>3, <1>6, VersionXid DEF StoreInv, Public
<1>8. writes'[xid[b]] \subseteq writes[xid[b]]
  BY <1>1, <1>5
<1> QED
  BY <1>1, <1>6, <1>7, <1>8, LeaveInv

\* The commit of a transaction whose callback has returned keeps the invariant.
LEMMA CommitInv ==
    ASSUME IInv, TypeOK', NEW b \in Backends, Commit(b)
    PROVE  IInv'
<1> USE DEF IInv
<1>1. /\ EndXact(b) /\ phase[b] = "done" /\ todo[b] = {}
      /\ UNCHANGED <<store, nextXid, clock, pos, reads, writes>>
      /\ \A z \in Xids0 : z # xid[b] => fate'[z] = fate[z]
  BY DEF Commit, OwnInv, TypeOK, HistType
<1>2. /\ phase'[b] = "idle"
      /\ \A c \in Backends : c # b =>
            phase'[c] = phase[c] /\ xid'[c] = xid[c] /\ todo'[c] = todo[c]
            /\ writeSet'[c] = writeSet[c]
  BY <1>1 DEF EndXact, TypeOK, SessionType, SetType
<1>3. /\ \A c \in Backends : Pending(c)' = Pending(c)
      /\ Pending(b) = {}
  BY <1>1, <1>2 DEF Pending, WriteKeys
<1>4. \A z \in Xids0, k \in Keys : Inst(z, k)' <=> Inst(z, k)
  BY <1>1, <1>2, <1>3, InstSame
<1>5. StoreInv'
  BY <1>1, <1>2, <1>3, <1>4, VersionXid DEF StoreInv, Public
<1> QED
  BY <1>1, <1>4, <1>5, LeaveInv

\* A cancelled put is carried out after its transaction has aborted.
LEMMA CancelledPutInv ==
    ASSUME IInv, TypeOK', NEW b \in Backends, NEW k \in Keys, CancelledPut(b, k)
    PROVE  IInv'
<1> USE DEF IInv
<1>1. /\ EndXact(b) /\ phase[b] = "install" /\ k \in todo[b]
      /\ UNCHANGED <<nextXid, clock, pos, reads>>
      /\ store' = [store EXCEPT ![k] = writeSet[b][k]]
      /\ xid[b] \in Xids0
      /\ writes'[xid[b]] = writes[xid[b]] \ (todo[b] \ {k}) /\ fate'[xid[b]] = "aborted"
      /\ \A z \in Xids0 : z # xid[b] => writes'[z] = writes[z] /\ fate'[z] = fate[z]
  BY DEF CancelledPut, IsFirst, TypeOK, HistType, SessionType
<1>2. /\ phase'[b] = "idle"
      /\ \A c \in Backends : c # b =>
            phase'[c] = phase[c] /\ xid'[c] = xid[c] /\ todo'[c] = todo[c]
            /\ writeSet'[c] = writeSet[c]
  BY <1>1 DEF EndXact, TypeOK, SessionType, SetType
<1>3. /\ \A c \in Backends : c # b => Pending(c)' = Pending(c)
      /\ Pending(b)' = {} /\ Pending(b) = todo[b]
  <2>1. todo[b] \subseteq Keys
    BY DEF TypeOK, SessionType
  <2> QED
    BY <1>1, <1>2, <2>1 DEF Pending, WriteKeys
<1>4. \A c \in Backends : c # b /\ xid[c] = xid[b] => Pending(c) = {}
  BY <1>1 DEF XidInv, Pending
<1>5. k \in writes[xid[b]]
  BY <1>1 DEF XidInv
<1>6. \A z \in Xids0, j \in Keys : Inst(z, j)' <=> (Inst(z, j) \/ (z = xid[b] /\ j = k))
  <2> SUFFICES ASSUME NEW z \in Xids0, NEW j \in Keys
               PROVE  Inst(z, j)' <=> (Inst(z, j) \/ (z = xid[b] /\ j = k))
    OBVIOUS
  <2>1. CASE z = xid[b]
    BY <1>1, <1>2, <1>3, <1>4, <1>5, <2>1 DEF Inst
  <2>2. CASE z # xid[b]
    BY <1>1, <1>2, <1>3, <2>2 DEF Inst
  <2> QED
    BY <2>1, <2>2
<1>7. StoreInv' /\ \A j \in Keys : store'[j] = store[j] \/ Public(store'[j])
  <2>1. /\ \A c \in Backends : Pending(c)' \subseteq Pending(c)
        /\ \A c \in Backends : Pending(c)' # {} => xid'[c] = xid[c]
        /\ k \in Pending(b) /\ k \notin Pending(b)'
    BY <1>1, <1>2, <1>3
  <2> QED
    BY <1>1, <1>6, <2>1, PutStore
<1>8. \A z \in Xids0, j \in Keys : Inst(z, j) => Inst(z, j)'
  BY <1>6
<1> QED
  BY <1>1, <1>7, <1>8, LeaveInv

\* The invariant holds initially.
LEMMA InitInv == Init => IInv
<1> SUFFICES ASSUME Init PROVE IInv
  OBVIOUS
<1> USE XidsNat
<1>1. TypeOK
  BY TypeInit
<1>2. /\ \A c \in Backends : phase[c] = "idle" /\ Pending(c) = {}
      /\ \A c \in Backends, k \in Keys :
            writeSet[c][k] = NoValue /\ readSet[c][k] = NoValue /\ scan[c][k] = NoValue
  BY DEF Init, Pending, NoKeys
<1>3. \A z \in Xids0, k \in Keys : Inst(z, k) <=> z = 0 /\ k \in InitialKeys
  BY <1>2 DEF Init, Inst
<1>4. RowsStay /\ SetInv /\ OwnInv
  BY <1>2 DEF RowsStay, SetInv, OwnInv, Public
<1>5. XidInv
  <2>1. nextXid = 1 /\ \A x \in Xids0 : x >= 1 => x # 0
    BY DEF Init
  <2> QED
    BY <1>2, <2>1 DEF XidInv, Init
<1>6. LockInv
  BY <1>2 DEF LockInv, Init
<1>7. StoreInv
  <2>1. \A k \in Keys : IF k \in InitialKeys
                        THEN store[k] = [xid |-> 0, priv |-> FALSE, seen |-> {0}]
                        ELSE store[k] = NoValue
    BY DEF Init
  <2>2. /\ [xid |-> 0, priv |-> FALSE, seen |-> {0}] \in Version
        /\ 0 \in Xids0
    BY XactAssumption DEF Version, Xids0
  <2>6. [xid |-> 0, priv |-> FALSE, seen |-> {0}] # NoValue
    BY <2>2, XactAssumption
  <2>3. \A k \in Keys : k \in InitialKeys => Public(store[k]) /\ store[k].xid = 0
    BY <2>1, <2>6 DEF Public
  <2>4. \A k \in Keys : k \notin InitialKeys => store[k] = NoValue
    BY <2>1
  <2>5. nextXid = 1 /\ 0 < 1 /\ 0 <= 0 /\ \A z \in Xids0 : pos[z] = 0
    BY DEF Init
  <2> QED
    BY <1>2, <1>3, <2>2, <2>3, <2>4, <2>5 DEF StoreInv, Public
<1>8. ReadInv
  BY <1>2 DEF ReadInv, Init, NoKeys
<1> QED
  BY <1>1, <1>4, <1>5, <1>6, <1>7, <1>8 DEF IInv

\* Every step keeps the invariant.
LEMMA NextInv == IInv /\ [Next]_vars => IInv'
<1> SUFFICES ASSUME IInv, [Next]_vars PROVE IInv'
  OBVIOUS
<1>1. TypeOK /\ RowsStay
  BY DEF IInv
<1>2. ASSUME NEW b \in Backends, Statement(b) PROVE IInv'
  <2>1. TypeOK'
    BY <1>1, <1>2, StatementType
  <2>2. ASSUME NEW i \in Isolations, Begin(b, i) PROVE IInv'
    BY <2>1, <2>2, BeginInv
  <2>3. CASE (\E c \in Commands : ExecutorStart(b, c)) \/ ExecutorEnd(b)
    BY <2>1, <2>3, QuietInv
  <2>4. ASSUME NEW k \in Keys, \/ IndexFetchTuple(b, k) \/ FetchRowVersion(b, k)
                               \/ BeginScan(b) \/ GetNextSlot(b, k)
        PROVE  IInv'
    BY <2>1, <2>4, FetchInv
  <2>7. CASE RefetchRow(b)
    <3>1. slot[b].key \in Keys
      BY <1>1, <2>7 DEF RefetchRow, CanRefetch, TypeOK, SetType, Planned
    <3> QED
      BY <2>1, <2>7, <3>1, FetchInv
  <2>8. CASE RefetchFailed(b)
    <3>1. phase[b] # "idle" /\ AbortXact(b)
      BY <2>8 DEF RefetchFailed, CanRefetch
    <3> QED
      BY <2>1, <3>1, AbortXactInv
  <2>5. ASSUME NEW k \in Keys, TupleUpdate(b) \/ Insert(b, k) PROVE IInv'
    BY <2>1, <2>5, WriteInv
  <2>6. ASSUME NEW k \in Keys, PreCommit(b) PROVE IInv'
    BY <2>1, <2>6, LockPhaseInv
  <2> QED
    BY <1>2, <2>2, <2>3, <2>4, <2>5, <2>6, <2>7, <2>8, XactAssumption DEF Statement
<1>3. ASSUME NEW b \in Backends, CommitStep(b) PROVE IInv'
  <2>1. TypeOK'
    BY <1>1, <1>3, CommitStepType
  <2>2. ASSUME NEW k \in Keys,
               ValidationLock(b, k) \/ ValidationWait(b, k) \/ ValidationGrant(b, k)
        PROVE  IInv'
    BY <2>1, <2>2, LockPhaseInv
  <2>3. ASSUME NEW k \in Keys,
               ValidationRefused(b, k) \/ PeekRefused(b, k) \/ ReadInvalid(b, k)
        PROVE  IInv'
    <3>1. phase[b] # "idle" /\ AbortXact(b)
      BY <2>3 DEF ValidationRefused, PeekRefused, ReadInvalid, Peeks
    <3> QED
      BY <2>1, <3>1, AbortXactInv
  <2>8. CASE DeadlockAbort(b)
    <3>1. phase[b] # "idle" /\ AbortXact(b)
      BY <2>8 DEF DeadlockAbort, Deadlocked, Blocks
    <3> QED
      BY <2>1, <3>1, AbortXactInv
  <2>4. CASE WriteSetLocked(b)
    BY <2>1, <2>4, WriteSetLockedInv
  <2>5. ASSUME NEW k \in Keys,
               PeekLock(b, k) \/ ReadValid(b, k) \/ Validated(b) \/ Installed(b)
        PROVE  IInv'
    BY <2>1, <2>5, ValidateInv
  <2>6. ASSUME NEW k \in Keys, Install(b, k) PROVE IInv'
    BY <2>1, <2>6, InstallInv
  <2>7. CASE Commit(b)
    BY <2>1, <2>7, CommitInv
  <2> QED
    BY <1>3, <2>2, <2>3, <2>4, <2>5, <2>6, <2>7, <2>8, XactAssumption DEF CommitStep
<1>4. CASE Environment
  <2>1. TypeOK'
    BY <1>1, <1>4, EnvironmentType
  <2>2. ASSUME NEW b \in Backends, Abort(b) \/ LateAbort(b) PROVE IInv'
    <3>1. phase[b] # "idle" /\ AbortXact(b)
      BY <2>2 DEF Abort, LateAbort
    <3> QED
      BY <2>1, <3>1, AbortXactInv
  <2>3. ASSUME NEW b \in Backends, NEW k \in Keys, CancelledPut(b, k) PROVE IInv'
    BY <2>1, <2>3, CancelledPutInv
  <2>4. ASSUME ServiceStop \/ \E i \in FeatureId, a \in PolicyActions : LoadPolicy(i, a)
        PROVE  IInv'
    BY <2>1, <2>4, QuietInv
  <2> QED
    BY <1>4, <2>2, <2>3, <2>4 DEF Environment
<1>5. CASE UNCHANGED vars
  <2>1. TypeOK'
    BY <1>1, <1>5 DEF vars, TypeOK, SharedType, SessionType, SetType, LockType, HistType,
                      sessionVars, setVars, lockVars, histVars
  <2> QED
    BY <1>5, <2>1, QuietInv
<1> QED
  BY <1>2, <1>3, <1>4, <1>5 DEF Next

-----------------------------------------------------------------------------
(* The theorems. *)

\* The inductive invariant holds in every reachable state of the transactions
\* (nram.c, nram_xact/xact.c); the theorems below follow from it.
THEOREM InvariantHolds == Spec => []IInv
<1> QED
  BY InitInv, NextInv, PTL DEF Spec

\* Every reachable state is well typed; in particular no version that a commit
\* installs carries the private mark of the insert that made it.
THEOREM TypeCorrect == Spec => []TypeOK
<1>1. IInv => TypeOK
  BY DEF IInv
<1> QED
  BY <1>1, InvariantHolds, PTL

\* The validation of nram_xact_callback is right: under any policy, with any
\* mix of isolation levels, failures and policy changes, the committed
\* SERIALIZABLE transactions have read, key by key, what they would have read
\* in the order in which they locked their write sets.
THEOREM ValidationIsSerial == Spec => []SerialReads
<1>1. IInv => SerialReads
  BY DEF IInv, ReadInv, SerialReads, Good
<1> QED
  BY <1>1, InvariantHolds, PTL

\* A set of numbers that is not empty has a least element.
LEMMA LeastNat ==
    ASSUME NEW A, A \subseteq Nat, A # {}
    PROVE  \E x \in A : \A y \in A : ~(y < x)
<1>1. PICK x \in A : \A y \in A : ~(<<y, x>> \in OpToRel(<, Nat))
  BY WFMin, NatLessThanWellFounded
<1>2. \A y \in A : ~(y < x)
  BY <1>1 DEF OpToRel
<1> QED
  BY <1>2

\* Without a collision of tags, a backend that waits in the commit callback
\* holds only locks of keys below the one it waits for.
LEMMA BlockerIsAhead ==
    ASSUME IInv, NEW c \in Backends, NEW d \in Backends, Blocks(d, c), phase[d] = "wait",
           \A j \in WriteKeys(d), k \in WriteKeys(c) : Tag(j) = Tag(k) => j = k,
           NEW i \in Keys, IsFirst(i, todo[d])
    PROVE  \E k \in Keys : IsFirst(k, todo[c]) /\ k < i
<1>1. PICK k \in Keys : IsFirst(k, todo[c]) /\ d \in validX[Tag(k)] \union validS[Tag(k)]
  BY DEF Blocks
<1>2. phase[c] = "wait" /\ k \in WriteKeys(c)
  BY <1>1 DEF Blocks, IsFirst, IInv, LockInv
<1>3. d \in validX[Tag(k)]
  BY <1>1, TagType DEF IInv, LockInv
<1>4. PICK j \in WriteKeys(d) \ todo[d] : Tag(j) = Tag(k)
  BY <1>3, TagType DEF IInv, LockInv
<1>5. j = k
  BY <1>2, <1>4
<1>6. j < i
  BY <1>4 DEF IInv, LockInv, IsFirst
<1> QED
  BY <1>1, <1>5, <1>6

\* Because the write set is sorted before it is locked (list_sort), the waits of
\* the commit callback are in a cycle only where two backends write different
\* rows with the same truncated tag (SET_LOCKTAG_ADVISORY): otherwise each
\* backend of the cycle waits for a larger key than the one that waits for it.
THEOREM OnlyCollisionsDeadlock == Spec => []DeadlockNeedsCollision
<1>1. IInv => DeadlockNeedsCollision
  <2> SUFFICES ASSUME IInv, NEW b \in Backends, Deadlocked(b),
                      \A c, d \in Backends : \A j \in WriteKeys(c), k \in WriteKeys(d) :
                          c # d /\ Tag(j) = Tag(k) => j = k
               PROVE  FALSE
    BY DEF DeadlockNeedsCollision
  <2>1. PICK S \in SUBSET Backends :
            /\ b \in S
            /\ \A c \in S : (\E d \in S : Blocks(d, c)) /\ (\E d \in S : Blocks(c, d))
    BY DEF Deadlocked
  <2> DEFINE A == {k \in Keys : \E c \in S : IsFirst(k, todo[c])}
  <2>2. \A c \in S : phase[c] = "wait" /\ \E k \in Keys : IsFirst(k, todo[c])
    BY <2>1 DEF Blocks
  <2>3. A \subseteq Nat /\ A # {}
    BY <2>1, <2>2, XactAssumption
  <2>4. PICK i \in A : \A k \in A : ~(k < i)
    <3> HIDE DEF A
    <3> QED
      BY <2>3, LeastNat
  <2>5. PICK d \in S : IsFirst(i, todo[d])
    BY <2>4
  <2>6. PICK c \in S : Blocks(d, c)
    BY <2>1, <2>5
  <2>7. c # d
    BY <2>6 DEF Blocks
  <2>8. \E k \in Keys : IsFirst(k, todo[c]) /\ k < i
    BY <2>2, <2>4, <2>5, <2>6, <2>7, BlockerIsAhead
  <2> QED
    BY <2>4, <2>8
<1> QED
  BY <1>1, InvariantHolds, PTL

\* No statement returns a version of a transaction that has not passed its
\* validation.
THEOREM ReadsAreValidated == Spec => []NoDirtyRead
<1>1. IInv => NoDirtyRead
  <2> SUFFICES ASSUME IInv, NEW b \in Backends, NEW k \in Keys, readSet[b][k] # NoValue
               PROVE  /\ ~Unvalidated(readSet[b][k].xid)
                      /\ k \in writes[readSet[b][k].xid]
    BY DEF NoDirtyRead
  <2>1. Inst(readSet[b][k].xid, k)
    BY DEF IInv, SetInv
  <2>2. k \in writes[readSet[b][k].xid]
    BY <2>1 DEF Inst
  <2>3. ASSUME NEW c \in Backends, xid[c] = readSet[b][k].xid,
               phase[c] \in Phases \ {"idle", "install", "done"}
        PROVE  FALSE
    <3>1. CASE phase[c] \in {"active", "lock", "wait"}
      BY <2>2, <2>3, <3>1 DEF IInv, XidInv
    <3>2. CASE phase[c] \in {"validate", "peek"}
      BY <2>1, <2>2, <2>3, <3>2 DEF IInv, XidInv, Inst, Pending
    <3> QED
      BY <2>3, <3>1, <3>2 DEF Phases, CommitPhases
  <2> QED
    BY <2>2, <2>3 DEF Unvalidated
<1> QED
  BY <1>1, InvariantHolds, PTL
=============================================================================
