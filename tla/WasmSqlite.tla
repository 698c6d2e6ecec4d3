----------------------------- MODULE WasmSqlite -----------------------------
(***************************************************************************)
(* The agent service's database client: a sql.js database held in memory, *)
(* written to one file after every write                                   *)
(* (agent-service/src/database/wasm-sqlite.ts).                            *)
(*                                                                         *)
(* Every call takes the client's promise-chain lock, runs its SQL in one   *)
(* synchronous turn, and, when it wrote, persists: mkdir, then writeFile   *)
(* of an export to <path>.<pid>.tmp, then rename over <path>.  Each of     *)
(* these three file operations is awaited, so other calls may be made, and *)
(* the process may die, between any two of them.                           *)
(*                                                                         *)
(* A database image is the set of the statements whose effect it holds.    *)
(* Statements that fail do so for SQL reasons and leave no effect.         *)
(***************************************************************************)
EXTENDS Naturals, Sequences

CONSTANTS
    Op,      \* the calls made to the client; each is made at most once
    Kind,    \* which method, and whether its SQL writes (isWrite)
    Size     \* the number of statements of the call

ASSUME OpAssumption ==
    /\ Kind \in [Op -> {"read", "write", "batch", "close"}]
    /\ Size \in [Op -> Nat \ {0}]
    /\ \A op \in Op : Kind[op] # "batch" => Size[op] = 1

VARIABLES
    up,      \* the process is running
    closed,  \* Database.close() has run
    queue,   \* the promise chain: unanswered calls, the first holds the lock
    stage,   \* where each call is
    mem,     \* the image in the WASM heap
    tmp,     \* the temporary file
    disk,    \* the database file
    fk       \* the foreign_keys pragma of the open connection

vars == <<up, closed, queue, stage, mem, tmp, disk, fk>>

Stmts(op) == {op} \X (1..Size[op])
AllStmts == UNION {Stmts(op) : op \in Op}

\* A file is whole, or torn while writeFile is under way or after it failed.
File == [whole: BOOLEAN, rows: SUBSET AllStmts]

Persisting == {"mkdir", "writing", "renaming"}
Pending == {"waiting"} \cup Persisting
\* "failed": its SQL threw; "unsaved": persist threw; "lost": the process died.
Answered == {"ok", "failed", "unsaved", "lost"}

-----------------------------------------------------------------------------
(* createWasmSQLiteClient: read the file if there is one, switch foreign   *)
(* keys on.                                                                *)

Init ==
    /\ up = TRUE
    /\ closed = FALSE
    /\ queue = <<>>
    /\ stage = [op \in Op |-> "new"]
    /\ mem = {}
    /\ tmp = [whole |-> FALSE, rows |-> {}]
    /\ disk = [whole |-> TRUE, rows |-> {}]
    /\ fk = TRUE

(* locked: the call appends itself to the chain in the turn that makes it, *)
(* and awaits the call before it.                                          *)
Request(op) ==
    /\ up
    /\ stage[op] = "new"
    /\ stage' = [stage EXCEPT ![op] = "waiting"]
    /\ queue' = Append(queue, op)
    /\ UNCHANGED <<up, closed, mem, tmp, disk, fk>>

HoldsUnlocked(op) == \E i \in DOMAIN queue : queue[i] = op   \* mutant: no lock
Holds(op) == queue # <<>> /\ op = Head(queue)

\* mutant: release outside the finally
AnswerReleasingOnSuccess(op, result) ==
    /\ stage' = [stage EXCEPT ![op] = result]
    /\ queue' = IF result = "ok" THEN Tail(queue) ELSE queue

\* The finally of locked: the answer is settled and the next call released.
Answer(op, result) ==
    /\ stage' = [stage EXCEPT ![op] = result]
    /\ queue' = Tail(queue)

Turn(op, s) == up /\ Holds(op) /\ stage[op] = s

(* The synchronous turn in which the call holds the lock and runs its SQL. *)

Read(op) ==
    /\ Turn(op, "waiting")
    /\ ~closed
    /\ Kind[op] = "read"
    /\ Answer(op, "ok")
    /\ UNCHANGED <<up, closed, mem, tmp, disk, fk>>

Write(op) ==
    /\ Turn(op, "waiting")
    /\ ~closed
    /\ Kind[op] \in {"write", "batch"}
    /\ mem' = mem \cup Stmts(op)
    /\ stage' = [stage EXCEPT ![op] = "mkdir"]
    /\ UNCHANGED <<up, closed, queue, tmp, disk, fk>>

\* A batch runs between BEGIN IMMEDIATE and COMMIT.
NoRollback(image, op) == image   \* mutant: the batch has no transaction
Rollback(image, op) == image \ Stmts(op)

(* Statement k + 1 throws.  execute has run nothing before it; batch rolls *)
(* back the k statements it has run.                                       *)
StatementThrows(op) ==
    /\ Turn(op, "waiting")
    /\ ~closed
    /\ Kind[op] # "close"
    /\ \E k \in 0 .. Size[op] - 1 :
          mem' = Rollback(mem \cup ({op} \X (1..k)), op)
    /\ Answer(op, "failed")
    /\ UNCHANGED <<up, closed, tmp, disk, fk>>

\* close persists first, whatever was written since the last persist.
Close(op) ==
    /\ Turn(op, "waiting")
    /\ ~closed
    /\ Kind[op] = "close"
    /\ stage' = [stage EXCEPT ![op] = "mkdir"]
    /\ UNCHANGED <<up, closed, queue, mem, tmp, disk, fk>>

\* mutant: an answer outside the contract
UseAfterCloseAnswersClosed(op) ==
    /\ Turn(op, "waiting")
    /\ closed
    /\ Answer(op, "closed")
    /\ UNCHANGED <<up, closed, mem, tmp, disk, fk>>

\* Every method of a closed sql.js database throws.
UseAfterClose(op) ==
    /\ Turn(op, "waiting")
    /\ closed
    /\ Answer(op, "failed")
    /\ UNCHANGED <<up, closed, mem, tmp, disk, fk>>

-----------------------------------------------------------------------------
(* persist                                                                 *)

\* mutant: writeFile not awaited before rename
ExportUnawaited(op) ==
    /\ Turn(op, "mkdir")
    /\ tmp' = [whole |-> FALSE, rows |-> mem]
    /\ fk' = FALSE
    /\ stage' = [stage EXCEPT ![op] = "renaming"]
    /\ UNCHANGED <<up, closed, queue, mem, disk>>

(* mkdir has resolved: the image is exported and writeFile opens the file. *)
(* sql.js exports by closing and reopening the connection, which returns   *)
(* every pragma to its default.                                            *)
Export(op) ==
    /\ Turn(op, "mkdir")
    /\ tmp' = [whole |-> FALSE, rows |-> mem]
    /\ fk' = FALSE
    /\ stage' = [stage EXCEPT ![op] = "writing"]
    /\ UNCHANGED <<up, closed, queue, mem, disk>>

Written(op) ==
    /\ Turn(op, "writing")
    /\ tmp' = [tmp EXCEPT !.whole = TRUE]
    /\ stage' = [stage EXCEPT ![op] = "renaming"]
    /\ UNCHANGED <<up, closed, queue, mem, disk, fk>>

Rename(op) ==
    /\ Turn(op, "renaming")
    /\ disk' = tmp
    /\ tmp' = [whole |-> FALSE, rows |-> {}]
    /\ closed' = (Kind[op] = "close")
    /\ Answer(op, "ok")
    /\ UNCHANGED <<up, mem, fk>>

\* mutant: the error of persist is swallowed
PersistThrowsUnnoticed(op) ==
    /\ \E s \in Persisting : Turn(op, s)
    /\ Answer(op, "ok")
    /\ UNCHANGED <<up, closed, mem, tmp, disk, fk>>

(* mkdir, writeFile or rename rejects.  The write is already committed in  *)
(* memory: batch finds its transaction closed and rolls nothing back.      *)
PersistThrows(op) ==
    /\ \E s \in Persisting : Turn(op, s)
    /\ Answer(op, "unsaved")
    /\ UNCHANGED <<up, closed, mem, tmp, disk, fk>>

-----------------------------------------------------------------------------
(* The process dies: the heap and every pending promise are gone.  It may  *)
(* be started again, on the file the last rename left.                     *)

Crash ==
    /\ up
    /\ up' = FALSE
    /\ queue' = <<>>
    /\ stage' = [op \in Op |->
                    IF stage[op] \in Pending THEN "lost" ELSE stage[op]]
    /\ mem' = {}
    /\ UNCHANGED <<closed, tmp, disk, fk>>

LoadNothing(file) == {}      \* mutant: every read error taken for ENOENT
Load(file) == file.rows

Restart ==
    /\ ~up
    /\ up' = TRUE
    /\ closed' = FALSE
    /\ mem' = Load(disk)
    /\ fk' = TRUE
    /\ UNCHANGED <<queue, stage, tmp, disk>>

-----------------------------------------------------------------------------

\* What the event loop and the file system do for the call holding the lock.
Serve(op) ==
    \/ Read(op)
    \/ Write(op)
    \/ StatementThrows(op)
    \/ Close(op)
    \/ UseAfterClose(op)
    \/ Export(op)
    \/ Written(op)
    \/ Rename(op)
    \/ PersistThrows(op)

Next ==
    \/ \E op \in Op : Request(op) \/ Serve(op)
    \/ Crash
    \/ Restart

Spec == Init /\ [][Next]_vars

\* Callbacks run and file operations settle; nobody owes a call or a crash.
FairSpec == Spec /\ WF_vars(\E op \in Op : Serve(op))

-----------------------------------------------------------------------------

TypeOK ==
    /\ up \in BOOLEAN
    /\ closed \in BOOLEAN
    /\ queue \in Seq(Op)
    /\ stage \in [Op -> {"new"} \cup Pending \cup Answered]
    /\ mem \in SUBSET AllStmts
    /\ tmp \in File
    /\ disk \in File
    /\ fk \in BOOLEAN

(* A write the caller was told has succeeded is in the database file, and, *)
(* while the process runs, visible to every later read, whatever calls,    *)
(* failures, crashes and restarts follow (execute and batch resolve only   *)
(* after persist has).                                                     *)
AckedDurable ==
    \A op \in Op :
        stage[op] = "ok" /\ Kind[op] \in {"write", "batch"} =>
            /\ Stmts(op) \subseteq disk.rows
            /\ up => Stmts(op) \subseteq mem

(* The file a restart reads is never half written, and holds each batch    *)
(* whole or not at all; so does the memory every read sees (the temporary  *)
(* file and rename of persist, the transaction of batch).                  *)
AtomicImage ==
    /\ disk.whole
    /\ \A op \in Op, image \in {mem, disk.rows} :
          Stmts(op) \cap image \in {{}, Stmts(op)}

(* A call whose SQL threw has left nothing behind: nothing a read sees and *)
(* nothing that a later persist saves (the ROLLBACK of batch).             *)
FailedLeavesNothing ==
    \A op \in Op :
        stage[op] = "failed" => Stmts(op) \cap (mem \cup disk.rows) = {}

(* A rename never puts an older image over a newer one: what the file has  *)
(* held it keeps (the lock is held until the rename has resolved).         *)
DiskGrows == [][disk.rows \subseteq disk'.rows]_vars

(* Every call made is answered, or lost with the process: the release in   *)
(* locked's finally leaves no call waiting behind one that threw.          *)
EveryCallAnswered ==
    \A op \in Op : stage[op] = "waiting" ~> stage[op] \in Answered

(* wasm-sqlite.ts:137 switches foreign keys on for the cascades db.ts      *)
(* declares: every write should run with them on.                          *)
ForeignKeysEnforced ==
    \A op \in Op :
        Turn(op, "waiting") /\ Kind[op] \in {"write", "batch"} => fk
=============================================================================
