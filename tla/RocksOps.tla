------------------------------ MODULE RocksOps ------------------------------
(***************************************************************************)
(* The requests and answers of the Rocks service (nram_storage), and what  *)
(* one request does to the contents of RocksDB.  A value is told by its    *)
(* key and the number of the call that put it.  Every answer carries, for  *)
(* stating properties, the number of the call it answers; the protocol has *)
(* no such number: KVMsgHeader tells the operation and the client only.    *)
(***************************************************************************)
EXTENDS Naturals, Sequences

CONSTANTS
    Clients,        \* the backends, by their pid
    Keys,           \* the row keys
    InitialKeys,    \* the rows that exist at the start
    NoValue         \* no row, no call, no result

Values  == Keys \X Nat    \* 0: put before the start
Rows    == [Keys -> Values \union {NoValue}]
Request == [op: {"put", "get"}, key: Keys] \union [op: {"range"}]

Rows0 == [k \in Keys |-> IF k \in InitialKeys THEN <<k, 0>> ELSE NoValue]

\* handle_kv_put, handle_kv_get and handle_kv_range_scan: rows before and
\* after, and the answer.
ApplyTo(rows, r, n) ==
    IF r.op = "put" THEN [rows EXCEPT ![r.key] = <<r.key, n>>] ELSE rows

\* The rows a request asks for; an answer carries those that exist.
Asked(r) == CASE r.op = "put" -> {} [] r.op = "get" -> {r.key} [] r.op = "range" -> Keys

Answer(rows, r, n) ==
    [op |-> r.op, call |-> n, val |-> {rows[k] : k \in {j \in Asked(r) : rows[j] # NoValue}}]

\* What a call returns: RocksClientPut and RocksClientRangeScan fail, and
\* RocksClientGet raises an error, when the answer is to another operation.
Result(r, a) ==
    [req |-> r, ok |-> a.op = r.op, val |-> IF a.op = r.op THEN a.val ELSE {}]

\* What a call returns when the request could not be sent.
Refused(r) == [req |-> r, ok |-> FALSE, val |-> {}]
=============================================================================
