--------------------------- MODULE MCTaskSession ---------------------------
(* Small instances of TaskSession for TLC. *)
EXTENDS TaskSession

CONSTANTS s1, s2

\* A PREDICT statement: training, then inference.
TrainThenInfer == [s \in Sessions |-> IF s = s1 THEN "train" ELSE "inference"]
AllInference   == [s \in Sessions |-> "inference"]
=============================================================================
