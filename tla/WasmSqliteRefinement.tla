------------------------ MODULE WasmSqliteRefinement ------------------------
(***************************************************************************)
(* WasmSqlite implements DurableStore.  A call is pending from the turn    *)
(* that makes it to its answer; the two kinds of rejection look the same   *)
(* to the caller; the current state is the heap image and the durable      *)
(* state the contents of the database file.                                *)
(***************************************************************************)
EXTENDS WasmSqlite

CallerView(s) ==
    CASE s \in Pending -> "pending"
      [] s \in {"failed", "unsaved"} -> "error"
      [] OTHER -> s

Store == INSTANCE DurableStore WITH
    Writes  <- {op \in Op : Kind[op] \in {"write", "batch"}},
    Effect  <- [op \in Op |-> Stmts(op)],
    status  <- [op \in Op |-> CallerView(stage[op])],
    current <- mem,
    durable <- disk.rows

(* Every behaviour of the client is one of the durable store it promises:  *)
(* rename is the only step that makes anything durable, and it publishes   *)
(* exactly the image its caller wrote (execute, batch, close, persist).    *)
ImplementsStore == Store!Spec
=============================================================================
