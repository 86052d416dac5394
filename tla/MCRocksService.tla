--------------------------- MODULE MCRocksService ---------------------------
(* Small instances of RocksService for TLC. *)
EXTENDS RocksService, TLC

CONSTANTS c1, c2
=============================================================================
