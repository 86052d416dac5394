----------------------------- MODULE MCNramXact -----------------------------
(* Small instances of NramXact for TLC. *)
EXTENDS NramXactInv, TLC

CONSTANTS b1, b2

\* The built-in policies of load_agent_function, and a line of a policy file
\* with the largest priority: a rank that never waits.
Occ       == [detect_all |-> FALSE, nowait |-> FALSE]
TwoPL     == [detect_all |-> TRUE, nowait |-> FALSE]
OccNoWait == [detect_all |-> FALSE, nowait |-> TRUE]

PolicyOcc   == [i \in FeatureId |-> Occ]
PolicyTwoPL == [i \in FeatureId |-> TwoPL]
ActionsNew  == {OccNoWait}

Symmetry == Permutations(Backends)
=============================================================================
