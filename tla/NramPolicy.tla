----------------------------- MODULE NramPolicy -----------------------------
(***************************************************************************)
(* The NeurCC policy of the NRAM table access method: the shared table     *)
(* CachedAgentFuncData that maps the features of a transaction to a        *)
(* concurrency control action (nram_xact/action.c), and the feature        *)
(* vector every transaction keeps (XactFeatureData).                       *)
(*                                                                         *)
(* An action tells whether a statement locks the tuples it touches         *)
(* (detect_all, the two-phase locking mode) or leaves conflicts to the     *)
(* validation at commit (the optimistic mode), and the priority of the     *)
(* transaction in lock queues.  Of the priority the model keeps the one    *)
(* bit the lock manager tests with "rank > 9.8": nowait.                   *)
(***************************************************************************)
EXTENDS Naturals

CONSTANTS
    NAccessCap,     \* the largest access count a feature can tell apart
    PolicyActions,  \* the actions that a policy loaded at run time may hold
    InitialPolicy   \* the table when the first transaction begins

\* The two values of XactFeatureData.cur_op.
READ_OPT   == 0
UPDATE_OPT == 1

CCAction  == [detect_all: BOOLEAN, nowait: BOOLEAN]
FeatureId == {READ_OPT, UPDATE_OPT} \X (0 .. NAccessCap)

ASSUME NAccessCapAssumption == NAccessCap \in Nat
ASSUME PolicyAssumption ==
    /\ PolicyActions \subseteq CCAction
    /\ InitialPolicy \in [FeatureId -> CCAction]

VARIABLE agent      \* GlobalCachedAgentFunc->act, shared by every backend

Min2(x, y) == IF x < y THEN x ELSE y

\* encode_feature_10bit: the index of the table entry of a feature vector.
EncodeFeature(op, nAccess) == <<op, Min2(nAccess, NAccessCap)>>

\* One step of load_agent_function: one entry of the table is overwritten
\* while backends read the table without a lock.  The built-in policies
\* "2pl" and "occ" are a loop of such steps over all entries, a policy file is
\* one step per line, and a malformed line ends the load where it stands.
LoadEntry(i, action) ==
    agent' = [agent EXCEPT ![i] = action]

PolicyInit == agent = InitialPolicy
=============================================================================
