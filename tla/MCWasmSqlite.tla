---------------------------- MODULE MCWasmSqlite ----------------------------
(* Two single writes, a batch of two statements, a read and a close. *)
EXTENDS WasmSqliteRefinement, TLC

CONSTANTS w1, w2, b1, r1, c1

MCOp == {w1, w2, b1, r1, c1}
MCKind == [op \in MCOp |-> CASE op \in {w1, w2} -> "write"
                                 [] op = b1 -> "batch"
                                 [] op = r1 -> "read"
                                 [] op = c1 -> "close"]
MCSize == [op \in MCOp |-> IF op = b1 THEN 2 ELSE 1]
=============================================================================
