----------------------------- MODULE MCKVChannel -----------------------------
(* A small instance of KVChannel for TLC. *)
EXTENDS KVChannel, TLC

CONSTANTS w1, w2, r1

\* One writer sends headers only, the other a message that can wrap around.
MCSizes == (w1 :> {0}) @@ (w2 :> {1})

\* The request channel: clients wait for ever, the service looks up after a while.
\* A reader that waits for ever is one whose timeout does not come.
MCWaits == [p \in {w1, w2} |-> {"forever"}] @@ (r1 :> {"timed"})
=============================================================================
