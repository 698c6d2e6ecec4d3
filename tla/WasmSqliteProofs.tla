-------------------------- MODULE WasmSqliteProofs --------------------------
(***************************************************************************)
(* Theorems about WasmSqlite, for every set of calls.                      *)
(*                                                                         *)
(* The argument: the promise chain gives the persisting stages to one call *)
(* at a time (LockInv), so between a write and its rename nothing else     *)
(* changes the heap image or the temporary file, and the image renamed     *)
(* holds at least what its caller wrote and all the file held before       *)
(* (ImageInv).                                                             *)
(***************************************************************************)
EXTENDS WasmSqliteRefinement, TLAPS

\* The chain lists each unanswered call once; only its head is past waiting.
LockInv ==
    /\ \A i \in DOMAIN queue : stage[queue[i]] \in Pending
    /\ \A i \in DOMAIN queue : i # 1 => stage[queue[i]] = "waiting"
    /\ \A i, j \in DOMAIN queue : queue[i] = queue[j] => i = j
    /\ \A op \in Op : stage[op] \in Persisting => Holds(op)
    /\ ~up => \A op \in Op : stage[op] \notin Pending

IsWriter(op) == Kind[op] \in {"write", "batch"}

\* Which of the images holds a call's statements, at each of its stages.
ImageInv ==
    /\ disk.whole
    /\ up => disk.rows \subseteq mem
    /\ \A op \in Op :
          /\ stage[op] \in {"new", "waiting", "failed"}
                => Stmts(op) \cap (mem \cup disk.rows) = {}
          /\ stage[op] \in Persisting /\ IsWriter(op) => Stmts(op) \subseteq mem
          /\ stage[op] \in {"writing", "renaming"} => tmp.rows = mem
          /\ stage[op] = "renaming" => tmp.whole
          /\ stage[op] = "ok" /\ IsWriter(op) => Stmts(op) \subseteq disk.rows
          /\ Stmts(op) \cap mem \in {{}, Stmts(op)}
          /\ Stmts(op) \cap disk.rows \in {{}, Stmts(op)}

-----------------------------------------------------------------------------

\* Statements of different calls are different, and there are some.
LEMMA StmtsDisjoint ==
    ASSUME NEW a \in Op, NEW b \in Op
    PROVE  /\ Stmts(a) \subseteq AllStmts
           /\ a # b => Stmts(a) \cap Stmts(b) = {}
  BY DEF Stmts, AllStmts

\* Rolling a batch back restores the image its BEGIN found.
LEMMA RollbackRestores ==
    ASSUME NEW op \in Op, NEW image, Stmts(op) \cap image = {},
           NEW k \in 0 .. Size[op] - 1
    PROVE  Rollback(image \cup ({op} \X (1..k)), op) = image
  <1>1. Size[op] \in Nat
    BY OpAssumption
  <1>2. ({op} \X (1..k)) \subseteq Stmts(op)
    BY <1>1 DEF Stmts
  <1> QED
    BY <1>2 DEF Rollback

\* Type correctness of the client's state.
THEOREM TypeCorrect == Spec => []TypeOK
  <1>1. Init => TypeOK
    <2> SUFFICES ASSUME Init PROVE TypeOK
      OBVIOUS
    <2>1. queue \in Seq(Op) /\ mem \in SUBSET AllStmts
      BY DEF Init
    <2>2. stage \in [Op -> {"new"} \cup Pending \cup Answered]
      BY DEF Init
    <2>3. tmp \in File /\ disk \in File
      BY DEF Init, File
    <2> QED
      BY <2>1, <2>2, <2>3 DEF Init, TypeOK
  <1>2. TypeOK /\ [Next]_vars => TypeOK'
    <2> SUFFICES ASSUME TypeOK, [Next]_vars
                 PROVE  TypeOK'
      OBVIOUS
    <2> USE DEF TypeOK, File, Pending, Persisting, Answered
    <2>1. ASSUME NEW op \in Op, Request(op) PROVE TypeOK'
      BY <2>1 DEF Request
    <2>2. ASSUME NEW op \in Op, NEW r \in Answered, Holds(op), Answer(op, r)
          PROVE  /\ queue' \in Seq(Op)
                 /\ stage' \in [Op -> {"new"} \cup Pending \cup Answered]
      BY <2>2 DEF Answer, Holds
    <2>3. ASSUME NEW op \in Op, Serve(op) PROVE TypeOK'
      <3>1. CASE Read(op)
        BY <2>2, <3>1 DEF Read, Turn
      <3>2. CASE Write(op)
        <4>1. mem' \in SUBSET AllStmts
          BY <3>2, StmtsDisjoint DEF Write
        <4> QED
          BY <3>2, <4>1 DEF Write
      <3>3. CASE StatementThrows(op)
        <4>1. PICK k \in 0 .. Size[op] - 1 :
                 mem' = Rollback(mem \cup ({op} \X (1..k)), op)
          BY <3>3 DEF StatementThrows
        <4>2. Size[op] \in Nat
          BY OpAssumption
        <4>3. ({op} \X (1..k)) \subseteq Stmts(op)
          BY <4>2 DEF Stmts
        <4>4. mem' \in SUBSET AllStmts
          BY <4>1, <4>3, StmtsDisjoint DEF Rollback
        <4> QED
          BY <2>2, <3>3, <4>4 DEF StatementThrows, Turn
      <3>4. CASE Close(op)
        BY <3>4 DEF Close
      <3>5. CASE UseAfterClose(op)
        BY <2>2, <3>5 DEF UseAfterClose, Turn
      <3>6. CASE Export(op)
        BY <3>6 DEF Export
      <3>7. CASE Written(op)
        BY <3>7 DEF Written
      <3>8. CASE Rename(op)
        BY <2>2, <3>8 DEF Rename, Turn
      <3>9. CASE PersistThrows(op)
        BY <2>2, <3>9 DEF PersistThrows, Turn
      <3> QED
        BY <2>3, <3>1, <3>2, <3>3, <3>4, <3>5, <3>6, <3>7, <3>8, <3>9 DEF Serve
    <2>4. CASE Crash
      <3>1. queue' \in Seq(Op) /\ mem' \in SUBSET AllStmts
        BY <2>4 DEF Crash
      <3> QED
        BY <2>4, <3>1 DEF Crash
    <2>5. CASE Restart
      BY <2>5 DEF Restart, Load
    <2>6. CASE UNCHANGED vars
      BY <2>6 DEF vars
    <2> QED
      BY <2>1, <2>3, <2>4, <2>5, <2>6 DEF Next
  <1> QED
    BY <1>1, <1>2, PTL DEF Spec

-----------------------------------------------------------------------------

\* The head answers: every other call keeps its stage, one place nearer.
LEMMA AnswerKeepsLock ==
    ASSUME TypeOK, LockInv, NEW op \in Op, Holds(op), up' = up, up,
           NEW r \in Answered, Answer(op, r)
    PROVE  LockInv'
  <1> USE DEF TypeOK, Pending, Persisting, Answered
  <1>1. /\ op = queue[1]
        /\ 1 \in DOMAIN queue
        /\ \A i \in DOMAIN queue' : /\ i \in Nat \ {0}
                                    /\ i + 1 \in DOMAIN queue
                                    /\ queue'[i] = queue[i + 1]
                                    /\ queue[i + 1] \in Op
    BY DEF Holds, Answer
  <1>2. \A i \in DOMAIN queue' : queue'[i] # op /\ queue'[i] \in Op
    <2> TAKE i \in DOMAIN queue'
    <2>1. i + 1 # 1
      BY <1>1
    <2> QED
      BY <1>1, <2>1 DEF LockInv
  <1>3. \A o \in Op : stage'[o] = IF o = op THEN r ELSE stage[o]
    BY DEF Answer
  <1>4. \A i \in DOMAIN queue' : stage'[queue'[i]] = "waiting"
    BY <1>1, <1>2, <1>3 DEF LockInv
  <1>5. \A i, j \in DOMAIN queue' : queue'[i] = queue'[j] => i = j
    <2> TAKE i, j \in DOMAIN queue'
    <2>1. queue[i + 1] = queue[j + 1] => i + 1 = j + 1
      BY <1>1 DEF LockInv
    <2> QED
      BY <1>1, <2>1
  <1>6. \A o \in Op : stage'[o] \notin Persisting
    BY <1>3 DEF LockInv, Holds
  <1> QED
    BY <1>4, <1>5, <1>6 DEF LockInv

\* The head goes on to a persisting stage without releasing the lock.
LEMMA AdvanceKeepsLock ==
    ASSUME TypeOK, LockInv, NEW op \in Op, Holds(op), up, UNCHANGED <<up, queue>>,
           NEW s \in Persisting, stage' = [stage EXCEPT ![op] = s]
    PROVE  LockInv'
  <1> USE DEF TypeOK, Pending, Persisting
  <1>1. op = queue[1] /\ 1 \in DOMAIN queue
    BY DEF Holds
  <1>2. \A i \in DOMAIN queue : i # 1 => queue[i] # op
    BY <1>1 DEF LockInv
  <1>3. \A o \in Op : stage'[o] = IF o = op THEN s ELSE stage[o]
    OBVIOUS
  <1>4. \A i \in DOMAIN queue' : queue'[i] \in Op
    OBVIOUS
  <1> QED
    BY <1>1, <1>2, <1>3, <1>4 DEF LockInv, Holds

\* Every step keeps the lock with the call at the head of the queue.
LEMMA LockStep == TypeOK /\ LockInv /\ [Next]_vars => LockInv'
  <1> SUFFICES ASSUME TypeOK, LockInv, [Next]_vars
               PROVE  LockInv'
    OBVIOUS
  <1>1. ASSUME NEW op \in Op, Request(op) PROVE LockInv'
    <2> USE DEF TypeOK, Pending, Persisting
    <2>1. /\ DOMAIN queue' = 1 .. Len(queue) + 1
          /\ DOMAIN queue = 1 .. Len(queue)
          /\ Len(queue) \in Nat
          /\ \A i \in DOMAIN queue : queue'[i] = queue[i] /\ queue[i] \in Op
          /\ queue'[Len(queue) + 1] = op
      BY <1>1 DEF Request
    <2>2. \A o \in Op : stage'[o] = IF o = op THEN "waiting" ELSE stage[o]
      BY <1>1 DEF Request
    <2>3. \A i \in DOMAIN queue : queue[i] # op
      BY <1>1 DEF Request, LockInv
    <2>4. /\ \A i \in DOMAIN queue' : stage'[queue'[i]] \in Pending
          /\ \A i \in DOMAIN queue' : i # 1 => stage'[queue'[i]] = "waiting"
      BY <2>1, <2>2, <2>3 DEF LockInv
    <2>5. \A i, j \in DOMAIN queue' : queue'[i] = queue'[j] => i = j
      BY <2>1, <2>3 DEF LockInv
    <2>6. \A o \in Op : stage'[o] \in Persisting => Holds(o)'
      <3> SUFFICES ASSUME NEW o \in Op, stage'[o] \in Persisting
                   PROVE  Holds(o)'
        OBVIOUS
      <3>1. Holds(o)
        BY <2>2 DEF LockInv
      <3>2. Len(queue) >= 1 /\ o = queue[1]
        BY <3>1 DEF Holds
      <3>3. queue'[1] = queue[1] /\ queue' # <<>>
        BY <1>1, <2>1, <3>2 DEF Request
      <3> QED
        BY <1>1, <3>2, <3>3 DEF Holds, Request
    <2> QED
      BY <1>1, <2>4, <2>5, <2>6 DEF LockInv, Request
  <1>2. ASSUME NEW op \in Op, Serve(op) PROVE LockInv'
    <2>1. CASE Read(op)
      BY <2>1, AnswerKeepsLock DEF Read, Turn, Answered
    <2>2. CASE Write(op)
      BY <2>2, AdvanceKeepsLock DEF Write, Turn, Persisting
    <2>3. CASE StatementThrows(op)
      BY <2>3, AnswerKeepsLock DEF StatementThrows, Turn, Answered
    <2>4. CASE Close(op)
      BY <2>4, AdvanceKeepsLock DEF Close, Turn, Persisting
    <2>5. CASE UseAfterClose(op)
      BY <2>5, AnswerKeepsLock DEF UseAfterClose, Turn, Answered
    <2>6. CASE Export(op)
      BY <2>6, AdvanceKeepsLock DEF Export, Turn, Persisting
    <2>7. CASE Written(op)
      BY <2>7, AdvanceKeepsLock DEF Written, Turn, Persisting
    <2>8. CASE Rename(op)
      BY <2>8, AnswerKeepsLock DEF Rename, Turn, Answered
    <2>9. CASE PersistThrows(op)
      BY <2>9, AnswerKeepsLock DEF PersistThrows, Turn, Answered
    <2> QED
      BY <1>2, <2>1, <2>2, <2>3, <2>4, <2>5, <2>6, <2>7, <2>8, <2>9 DEF Serve
  <1>3. CASE Crash
    BY <1>3 DEF Crash, LockInv, TypeOK, Pending, Persisting
  <1>4. CASE Restart
    BY <1>4 DEF Restart, LockInv, TypeOK, Pending, Persisting, Holds
  <1>5. CASE UNCHANGED vars
    BY <1>5 DEF vars, LockInv, Holds
  <1> QED
    BY <1>1, <1>2, <1>3, <1>4, <1>5 DEF Next

-----------------------------------------------------------------------------

\* Steps that leave the three images alone and settle or queue one call.
LEMMA StageOnlyKeepsImages ==
    ASSUME TypeOK, ImageInv, NEW op \in Op, UNCHANGED <<up, mem, tmp, disk>>,
           NEW s, stage' = [stage EXCEPT ![op] = s], s # "new",
           s \in {"waiting", "failed"} => stage[op] \in {"new", "waiting"},
           s = "ok" => ~IsWriter(op),
           s \in Persisting => s = "mkdir" /\ ~IsWriter(op)
    PROVE  ImageInv'
  <1>1. \A o \in Op : stage'[o] = IF o = op THEN s ELSE stage[o]
    BY DEF TypeOK
  <1> QED
    BY <1>1 DEF ImageInv, IsWriter, Persisting

\* Every step keeps what the file, the memory and the temporary file hold in agreement.
LEMMA ImageStep == TypeOK /\ LockInv /\ ImageInv /\ [Next]_vars => ImageInv'
  <1> SUFFICES ASSUME TypeOK, LockInv, ImageInv, [Next]_vars
               PROVE  ImageInv'
    OBVIOUS
  <1>1. ASSUME NEW op \in Op, Request(op) PROVE ImageInv'
    BY <1>1, StageOnlyKeepsImages DEF Request, Persisting
  <1>2. ASSUME NEW op \in Op, Serve(op) PROVE ImageInv'
    <2>0. \A o \in Op : Holds(op) /\ stage[o] \in Persisting => o = op
      BY DEF LockInv, Holds
    <2>1. CASE Read(op)
      BY <2>1, StageOnlyKeepsImages DEF Read, Answer, IsWriter, Persisting
    <2>2. CASE Write(op)
      <3>1. \A o \in Op : stage'[o] = IF o = op THEN "mkdir" ELSE stage[o]
        BY <2>2 DEF Write, TypeOK
      <3>2. \A o \in Op : o # op => Stmts(o) \cap mem' = Stmts(o) \cap mem
        BY <2>2, StmtsDisjoint DEF Write
      <3>3. Stmts(op) \subseteq mem' /\ mem \subseteq mem'
        BY <2>2 DEF Write
      <3>4. \A o \in Op : o # op => stage[o] \notin Persisting
        BY <2>0, <2>2 DEF Write, Turn
      <3> QED
        BY <2>2, <3>1, <3>2, <3>3, <3>4 DEF ImageInv, IsWriter, Write, Persisting
    <2>3. CASE StatementThrows(op)
      <3>1. stage[op] = "waiting" /\ stage' = [stage EXCEPT ![op] = "failed"]
        BY <2>3 DEF StatementThrows, Turn, Answer
      <3>2. Stmts(op) \cap mem = {}
        BY <3>1 DEF ImageInv
      <3>3. mem' = mem
        BY <2>3, <3>2, RollbackRestores DEF StatementThrows
      <3> QED
        BY <2>3, <3>1, <3>3, StageOnlyKeepsImages
           DEF StatementThrows, Persisting
    <2>4. CASE Close(op)
      BY <2>4, StageOnlyKeepsImages DEF Close, IsWriter, Turn
    <2>5. CASE UseAfterClose(op)
      BY <2>5, StageOnlyKeepsImages DEF UseAfterClose, Turn, Answer, Persisting
    <2>6. CASE Export(op)
      <3>1. \A o \in Op : stage'[o] = IF o = op THEN "writing" ELSE stage[o]
        BY <2>6 DEF Export, TypeOK
      <3>2. \A o \in Op : o # op => stage[o] \notin Persisting
        BY <2>0, <2>6 DEF Export, Turn
      <3>3. stage[op] = "mkdir" /\ tmp'.rows = mem'
        BY <2>6 DEF Export, Turn
      <3> QED
        BY <2>6, <3>1, <3>2, <3>3 DEF ImageInv, IsWriter, Export, Persisting
    <2>7. CASE Written(op)
      <3>1. \A o \in Op : stage'[o] = IF o = op THEN "renaming" ELSE stage[o]
        BY <2>7 DEF Written, TypeOK
      <3>2. \A o \in Op : o # op => stage[o] \notin Persisting
        BY <2>0, <2>7 DEF Written, Turn
      <3>3. stage[op] = "writing" /\ tmp'.whole /\ tmp'.rows = tmp.rows
        BY <2>7 DEF Written, Turn, TypeOK, File
      <3> QED
        BY <2>7, <3>1, <3>2, <3>3 DEF ImageInv, IsWriter, Written, Persisting
    <2>8. CASE Rename(op)
      <3>1. \A o \in Op : stage'[o] = IF o = op THEN "ok" ELSE stage[o]
        BY <2>8 DEF Rename, Answer, TypeOK
      <3>2. \A o \in Op : o # op => stage[o] \notin Persisting
        BY <2>0, <2>8 DEF Rename, Turn
      <3>3. disk'.whole /\ disk'.rows = mem /\ mem' = mem /\ up
        BY <2>8 DEF ImageInv, Rename, Turn
      <3>4. disk.rows \subseteq mem /\ (IsWriter(op) => Stmts(op) \subseteq mem)
        BY <2>8, <3>3 DEF ImageInv, Rename, Turn, Persisting
      <3> QED
        BY <3>1, <3>2, <3>3, <3>4 DEF ImageInv, IsWriter, Persisting
    <2>9. CASE PersistThrows(op)
      BY <2>9, StageOnlyKeepsImages DEF PersistThrows, Answer, Persisting
    <2> QED
      BY <1>2, <2>1, <2>2, <2>3, <2>4, <2>5, <2>6, <2>7, <2>8, <2>9 DEF Serve
  <1>3. CASE Crash
    <2>1. \A o \in Op : stage'[o] = IF stage[o] \in Pending THEN "lost" ELSE stage[o]
      BY <1>3 DEF Crash
    <2>2. \A o \in Op : stage'[o] \notin Pending
      BY <2>1 DEF Pending, Persisting
    <2> QED
      BY <1>3, <2>1, <2>2 DEF Crash, ImageInv, IsWriter, Pending, Persisting
  <1>4. CASE Restart
    <2>1. \A o \in Op : stage[o] \notin Persisting
      BY <1>4 DEF Restart, LockInv, Pending
    <2> QED
      BY <1>4, <2>1 DEF Restart, Load, ImageInv, IsWriter, Persisting
  <1>5. CASE UNCHANGED vars
    BY <1>5 DEF vars, ImageInv, IsWriter
  <1> QED
    BY <1>1, <1>2, <1>3, <1>4, <1>5 DEF Next

\* The inductive invariant.
THEOREM Invariant == Spec => [](LockInv /\ ImageInv)
  <1>1. Init => LockInv /\ ImageInv
    BY DEF Init, LockInv, ImageInv, Pending, Persisting, IsWriter
  <1>2. TypeOK /\ LockInv /\ ImageInv /\ [Next]_vars => LockInv' /\ ImageInv'
    BY LockStep, ImageStep
  <1> QED
    BY <1>1, <1>2, TypeCorrect, PTL DEF Spec

-----------------------------------------------------------------------------

(* A write reported to have succeeded survives every later call, failure,  *)
(* crash and restart (AckedDurable; execute, batch and persist).           *)
THEOREM Durability == Spec => []AckedDurable
  <1>1. LockInv /\ ImageInv => AckedDurable
    BY DEF ImageInv, AckedDurable, IsWriter
  <1> QED
    BY <1>1, Invariant, PTL

(* The file is never torn, and it and the heap hold each batch whole or    *)
(* not at all (AtomicImage; persist's rename, batch's transaction).        *)
THEOREM Atomicity == Spec => []AtomicImage
  <1>1. LockInv /\ ImageInv => AtomicImage
    BY DEF ImageInv, AtomicImage
  <1> QED
    BY <1>1, Invariant, PTL

(* A call whose SQL threw leaves nothing behind (FailedLeavesNothing).     *)
THEOREM FailureIsClean == Spec => []FailedLeavesNothing
  <1>1. LockInv /\ ImageInv => FailedLeavesNothing
    BY DEF ImageInv, FailedLeavesNothing
  <1> QED
    BY <1>1, Invariant, PTL

(* A rename never replaces an image by an older one (DiskGrows).           *)
THEOREM NoOlderImage == Spec => DiskGrows
  <1>1. TypeOK /\ LockInv /\ ImageInv /\ [Next]_vars
            => [disk.rows \subseteq disk'.rows]_vars
    <2> SUFFICES ASSUME ImageInv, Next
                 PROVE  disk.rows \subseteq disk'.rows
      OBVIOUS
    <2>1. ASSUME NEW op \in Op, Rename(op) PROVE disk.rows \subseteq disk'.rows
      BY <2>1 DEF Rename, Turn, ImageInv
    <2>2. ASSUME NEW op \in Op, Request(op) \/ Serve(op), ~Rename(op)
          PROVE  disk' = disk
      BY <2>2 DEF Request, Serve, Read, Write, StatementThrows, Close,
                  UseAfterClose, Export, Written, PersistThrows
    <2> QED
      BY <2>1, <2>2 DEF Next, Serve, Crash, Restart
  <1> QED
    BY <1>1, TypeCorrect, Invariant, PTL DEF Spec, DiskGrows

-----------------------------------------------------------------------------
(* The client implements the durable store.                                *)

status == [op \in Op |-> CallerView(stage[op])]

\* What one call's change of stage looks like to its caller.
LEMMA StatusAfter ==
    ASSUME TypeOK, NEW op \in Op, NEW s, stage' = [stage EXCEPT ![op] = s]
    PROVE  status' = [status EXCEPT ![op] = CallerView(s)]
  BY DEF TypeOK, status

\* What a caller sees of each stage of its call.
LEMMA CallerViews ==
    /\ CallerView("new") = "new"
    /\ \A s \in Pending : CallerView(s) = "pending"
    /\ CallerView("failed") = "error" /\ CallerView("unsaved") = "error"
    /\ CallerView("ok") = "ok"
    /\ CallerView("lost") = "lost"
  BY DEF CallerView, Pending, Persisting

\* Every step is a step of DurableStore, or stutters there.
LEMMA StoreStep ==
    TypeOK /\ LockInv /\ ImageInv /\ [Next]_vars => [Store!Next]_Store!vars
  <1> SUFFICES ASSUME TypeOK, LockInv, ImageInv, [Next]_vars
               PROVE  [Store!Next]_Store!vars
    OBVIOUS
  <1>1. ASSUME NEW op \in Op, Request(op) PROVE Store!Invoke(op)
    <2>1. status' = [status EXCEPT ![op] = "pending"]
      BY <1>1, StatusAfter
           DEF Request, CallerView, Pending, Persisting
    <2> QED
      BY <1>1, <2>1, CallerViews DEF Request, Store!Invoke, status
  <1>2. ASSUME NEW op \in Op, Serve(op) PROVE [Store!Next]_Store!vars
    <2>0. \A s \in Pending : stage[op] = s => status[op] = "pending"
      BY CallerViews DEF status
    <2>f. status = [o \in Op |-> status[o]]
      BY DEF status
    <2>1. CASE Read(op)
      <3>1. status' = [status EXCEPT ![op] = "ok"]
        BY <2>1, StatusAfter
           DEF Read, Answer, CallerView, Pending, Persisting
      <3>2. Store!Observe(op)
        BY <2>0, <2>1, <3>1 DEF Read, Turn, Pending, Store!Observe, status
      <3> QED
        BY <3>2 DEF Store!Next
    <2>2. CASE Write(op)
      <3>1. status' = [status EXCEPT ![op] = "pending"]
        BY <2>2, StatusAfter
           DEF Write, CallerView, Pending, Persisting
      <3>2. status' = status
        BY <2>0, <2>f, <2>2, <3>1 DEF Write, Turn, Pending
      <3>3. Store!Apply(op)
        BY <2>0, <2>2, <3>2 DEF Write, Turn, Pending, Store!Apply, status
      <3> QED
        BY <3>3 DEF Store!Next
    <2>3. CASE StatementThrows(op)
      <3>1. status' = [status EXCEPT ![op] = "error"]
        BY <2>3, StatusAfter
           DEF StatementThrows, Answer, CallerView, Pending, Persisting
      <3>2. Stmts(op) \cap mem = {}
        BY <2>3 DEF StatementThrows, Turn, ImageInv
      <3>3. mem' = mem
        BY <2>3, <3>2, RollbackRestores DEF StatementThrows
      <3>4. Store!Reject(op)
        BY <2>0, <2>3, <3>1, <3>3
           DEF StatementThrows, Turn, Pending, Store!Reject, status
      <3> QED
        BY <3>4 DEF Store!Next
    <2>4. ASSUME NEW s \in Persisting, Holds(op), stage[op] \in Pending,
                 stage' = [stage EXCEPT ![op] = s],
                 UNCHANGED <<up, mem, disk>>
          PROVE  UNCHANGED Store!vars
      <3>1. status' = [status EXCEPT ![op] = "pending"]
        BY <2>4, StatusAfter
           DEF CallerView, Pending, Persisting
      <3>2. status' = status
        BY <2>0, <2>f, <2>4, <3>1
      <3> QED
        BY <2>4, <3>2 DEF Store!vars, status
    <2>5. CASE Close(op) \/ Export(op) \/ Written(op)
      BY <2>4, <2>5 DEF Close, Export, Written, Turn, Pending, Persisting
    <2>6. CASE UseAfterClose(op) \/ PersistThrows(op)
      <3>1. status' = [status EXCEPT ![op] = "error"]
        BY <2>6, StatusAfter
           DEF UseAfterClose, PersistThrows, Answer, CallerView, Pending, Persisting
      <3>2. Store!Reject(op)
        BY <2>0, <2>6, <3>1
           DEF UseAfterClose, PersistThrows, Turn, Pending, Store!Reject, status
      <3> QED
        BY <3>2 DEF Store!Next
    <2>7. CASE Rename(op)
      <3>1. status' = [status EXCEPT ![op] = "ok"]
        BY <2>7, StatusAfter
           DEF Rename, Answer, CallerView, Pending, Persisting
      <3>2. /\ disk'.rows = mem /\ mem' = mem
            /\ IsWriter(op) => Stmts(op) \subseteq mem
        BY <2>7 DEF Rename, Turn, ImageInv, Persisting
      <3>3. Store!Sync(op)
        BY <2>0, <2>7, <3>1, <3>2
           DEF Rename, Turn, Pending, Persisting, IsWriter, Store!Sync, status
      <3> QED
        BY <3>3 DEF Store!Next
    <2> QED
      BY <1>2, <2>1, <2>2, <2>3, <2>5, <2>6, <2>7 DEF Serve
  <1>3. CASE Crash
    <2>1. status' = [op \in Op |->
                        IF status[op] = "pending" THEN "lost" ELSE status[op]]
      <3>1. \A s \in {"new"} \cup Pending \cup Answered :
               CallerView(s) = "pending" <=> s \in Pending
        BY CallerViews DEF Answered, Pending, Persisting
      <3> QED
        BY <1>3, <3>1, CallerViews DEF Crash, TypeOK, status
    <2>2. Store!Crash
      BY <1>3, <2>1 DEF Crash, Store!Crash, status
    <2> QED
      BY <2>2 DEF Store!Next
  <1>4. CASE Restart
    <2>1. Store!Restart
      BY <1>4 DEF Restart, Load, Store!Restart, status
    <2> QED
      BY <2>1 DEF Store!Next
  <1>5. CASE UNCHANGED vars
    BY <1>5 DEF vars, Store!vars, status
  <1> QED
    BY <1>1, <1>2, <1>3, <1>4, <1>5 DEF Next, Store!Next

(* The client keeps the promise of DurableStore (ImplementsStore): only a  *)
(* rename makes anything durable, and it publishes the image that holds    *)
(* what its caller wrote.                                                  *)
THEOREM Refinement == Spec => ImplementsStore
  <1>1. Init => Store!Init
    BY CallerViews DEF Init, Store!Init
  <1> QED
    BY <1>1, StoreStep, TypeCorrect, Invariant, PTL
       DEF Spec, ImplementsStore, Store!Spec
=============================================================================
