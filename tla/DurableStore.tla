---------------------------- MODULE DurableStore ----------------------------
(***************************************************************************)
(* What the agent service's database client promises its callers, with no *)
(* lock, no temporary file and no stages: a call that is reported to have *)
(* succeeded is durable, one that is reported to have failed may have      *)
(* happened or not, calls in flight are lost with the process, and a call  *)
(* happens whole or not at all.  WasmSqlite implements it (WasmSqliteRefinement). *)
(***************************************************************************)
CONSTANTS
    Op,         \* the calls
    Writes,     \* those that change the database
    Effect      \* what each call adds to it

VARIABLES
    up,         \* the service is running
    status,     \* what the caller of each call knows
    current,    \* the state reads see
    durable     \* the state a restart finds

vars == <<up, status, current, durable>>

Init ==
    /\ up = TRUE
    /\ status = [op \in Op |-> "new"]
    /\ current = {}
    /\ durable = {}

Invoke(op) ==
    /\ up
    /\ status[op] = "new"
    /\ status' = [status EXCEPT ![op] = "pending"]
    /\ UNCHANGED <<up, current, durable>>

\* The call takes effect for its readers, all of it at once.
Apply(op) ==
    /\ up
    /\ status[op] = "pending"
    /\ op \in Writes
    /\ current' = current \cup Effect[op]
    /\ UNCHANGED <<up, status, durable>>

\* Success is reported in the step that makes the current state durable.
Sync(op) ==
    /\ up
    /\ status[op] = "pending"
    /\ op \in Writes => Effect[op] \subseteq current
    /\ durable' = current
    /\ status' = [status EXCEPT ![op] = "ok"]
    /\ UNCHANGED <<up, current>>

Observe(op) ==
    /\ up
    /\ status[op] = "pending"
    /\ op \notin Writes
    /\ status' = [status EXCEPT ![op] = "ok"]
    /\ UNCHANGED <<up, current, durable>>

Reject(op) ==
    /\ up
    /\ status[op] = "pending"
    /\ status' = [status EXCEPT ![op] = "error"]
    /\ UNCHANGED <<up, current, durable>>

Crash ==
    /\ up
    /\ up' = FALSE
    /\ status' = [op \in Op |->
                     IF status[op] = "pending" THEN "lost" ELSE status[op]]
    /\ current' = {}
    /\ UNCHANGED durable

Restart ==
    /\ ~up
    /\ up' = TRUE
    /\ current' = durable
    /\ UNCHANGED <<status, durable>>

Next ==
    \/ \E op \in Op : \/ Invoke(op)
                      \/ Apply(op)
                      \/ Sync(op)
                      \/ Observe(op)
                      \/ Reject(op)
    \/ Crash
    \/ Restart

Spec == Init /\ [][Next]_vars
=============================================================================
