--------------------------- MODULE LoopRecordProofs ---------------------------
(***************************************************************************)
(* What the run record and the conversation tell of a run, for every       *)
(* definition.                                                             *)
(*                                                                         *)
(* A run recorded as completed is completed, and a run that ends without a *)
(* failure is recorded as completed, because finalize runs alone and last. *)
(*                                                                         *)
(* The other statements, on the failures, the step states and the approval *)
(* waited for, are lost where two branches of a parallel step write the    *)
(* record at the same time.  They hold of a step that runs alone, whatever *)
(* the branches elsewhere in its definition, and so of every step of a     *)
(* definition without branches: while such a step is under way no other    *)
(* node is, and what a later node writes back it has read after the step   *)
(* came to its end.                                                        *)
(***************************************************************************)
EXTENDS LoopRunProofs, FiniteSetTheorems, WellFoundedInduction

\* Every other node completes before n is entered, or is entered after it.
Alone(n) == \A m \in Node : m = n \/ m \in Above[n] \/ n \in Above[m]

\* A definition without parallel branches.
Sequential == \A n \in Node : Alone(n)

-----------------------------------------------------------------------------
(* The steps of a node                                                     *)

\* What every step of a node leaves alone, and where it can start.
LEMMA NodeStepKeeps ==
    ASSUME TypeOK, NEW n \in Node, NodeStep(n)
    PROVE  /\ \A m \in Node : m # n => job'[m] = job[m]
           /\ engine = "running" /\ engine' = engine /\ starter' = starter
           /\ job[n].at \notin {"completed", "suspended", "failed"}
           /\ job[n].at = "idle" => \A m \in Above[n] : job[m].at = "completed"
           /\ rec'.exists = rec.exists
           /\ job[n].at # "update" => rec' = rec
           /\ effects \subseteq effects'
<1>1. JobOK /\ RecOK
  BY TypeParts
<1>2. \A m \in Node : m # n => job'[m] = job[m]
  BY <1>1
  DEF NodeStep, Enter, Select, Update, Work, RequestApproval, Decide, Publish, Learn,
      Settle, JobOK
<1>3. /\ engine = "running" /\ engine' = engine /\ starter' = starter
      /\ job[n].at \notin {"completed", "suspended", "failed"}
      /\ job[n].at = "idle" => \A m \in Above[n] : job[m].at = "completed"
      /\ effects \subseteq effects'
  BY DEF NodeStep, Enter, Select, Update, Work, RequestApproval, Decide, Publish, Learn,
         Ready, Running, requestVars
<1>4. rec'.exists = rec.exists /\ (job[n].at # "update" => rec' = rec)
  <2>1. CASE Update(n)
    BY <2>1, <1>1 DEF Update, Running, RecOK, Records
  <2>2. CASE ~Update(n)
    BY <2>2
    DEF NodeStep, Enter, Select, Work, RequestApproval, Decide, Publish, Learn, recordVars
  <2>3. QED
    BY <2>1, <2>2
<1>5. QED
  BY <1>2, <1>3, <1>4

\* Where each step of a node takes it.
LEMMA NodeMoves ==
    ASSUME TypeOK, NEW n \in Node, NodeStep(n)
    PROVE  \/ /\ job[n].at = "idle" /\ job'[n].at = "select"
              /\ job'[n].outcome = IF Kind[n] \in Steps THEN "started" ELSE "completed"
           \/ /\ job[n].at = "select" /\ rec.exists
              /\ job'[n].at = "update" /\ job'[n].outcome = job[n].outcome
              /\ job'[n].seen = rec.steps
           \/ /\ job[n].at = "select" /\ ~rec.exists
              /\ job'[n] = AfterUpdate(n)
           \/ /\ job[n].at = "update" /\ job'[n] = AfterUpdate(n)
              /\ rec.exists =>
                    /\ rec'.status = PatchedStatus(n, job[n].outcome)
                    /\ rec'.steps = PatchedSteps(n, job[n].outcome, job[n].seen)
                    /\ rec'.suspended = PatchedSuspended(n, job[n].outcome, rec.suspended)
           \/ /\ job[n].at = "working" /\ Kind[n] \in Steps
              /\ job'[n].at = "select"
              /\ job'[n].outcome = "suspended" => n \in Approvals
           \/ /\ job[n].at = "publishing" /\ job'[n].at \in {"learning", "completed"}
              /\ job'[n].outcome = job[n].outcome /\ "message" \in effects'
           \/ /\ job[n].at = "learning" /\ job'[n].at = "completed"
              /\ job'[n].outcome = job[n].outcome
<1>1. JobOK
  BY TypeParts
<1>2. job[n] \in Jobs /\ job[n].outcome \in Outcomes
  BY <1>1 DEF JobOK, Jobs
<1>3. {"select", "completed", "learning"} \subseteq Places
  BY DEF Places
<1>4. CASE Enter(n)
  <2> DEFINE o == IF Kind[n] \in Steps THEN "started" ELSE "completed"
  <2>1. job'[n] = Moved(job[n], "select", o) /\ job[n].at = "idle"
    BY <1>1, <1>4 DEF Enter, JobOK, Ready, Running
  <2>2. o \in Outcomes
    BY DEF Outcomes
  <2>3. QED
    BY <1>2, <1>3, <2>1, <2>2, MovedIs
<1>5. CASE Select(n)
  <2>1. job[n].at = "select"
    BY <1>5 DEF Select, Running
  <2>2. job'[n] = IF rec.exists
                  THEN [job[n] EXCEPT !.at = "update", !.seen = rec.steps]
                  ELSE AfterUpdate(n)
    BY <1>1, <1>5 DEF Select, JobOK
  <2>3. CASE rec.exists
    <3>1. /\ job'[n].at = "update" /\ job'[n].outcome = job[n].outcome
          /\ job'[n].seen = rec.steps
      BY <1>2, <2>2, <2>3 DEF Jobs
    <3>2. QED
      BY <2>1, <2>3, <3>1
  <2>4. QED
    BY <2>1, <2>2, <2>3
<1>6. CASE Update(n)
  <2>1. job[n].at = "update" /\ job'[n] = AfterUpdate(n)
    BY <1>1, <1>6 DEF Update, Running, JobOK
  <2>2. rec.exists =>
           /\ rec'.status = PatchedStatus(n, job[n].outcome)
           /\ rec'.steps = PatchedSteps(n, job[n].outcome, job[n].seen)
           /\ rec'.suspended = PatchedSuspended(n, job[n].outcome, rec.suspended)
    BY <1>6 DEF Update
  <2>3. QED
    BY <2>1, <2>2
<1>7. CASE Work(n) \/ RequestApproval(n) \/ Decide(n)
  <2>1. job[n].at = "working" /\ Kind[n] \in Steps
    BY <1>7 DEF Work, RequestApproval, Decide, Running, Approvals, Steps
  <2>2. PICK o \in Outcomes : Settle(n, o) /\ (o = "suspended" => n \in Approvals)
    BY <1>7 DEF Work, RequestApproval, Decide, OutcomeOf, Outcomes
  <2>3. job'[n] = Moved(job[n], "select", o)
    BY <1>1, <2>2 DEF Settle, JobOK
  <2>4. job'[n].at = "select" /\ job'[n].outcome = o
    BY <1>2, <1>3, <2>3, MovedIs
  <2>5. QED
    BY <2>1, <2>2, <2>4
<1>8. CASE Publish(n) \/ Learn(n)
  <2>1. PICK to \in {"learning", "completed"} :
           /\ job'[n] = Moved(job[n], to, job[n].outcome)
           /\ Learn(n) => to = "completed"
    BY <1>1, <1>8 DEF Publish, Learn, JobOK, Running
  <2>2. job'[n].at = to /\ job'[n].outcome = job[n].outcome
    BY <1>2, <1>3, <2>1, MovedIs
  <2>3. /\ Publish(n) => job[n].at = "publishing" /\ "message" \in effects'
        /\ Learn(n) => job[n].at = "learning"
    BY DEF Publish, Learn, Running
  <2>4. QED
    BY <1>8, <2>1, <2>2, <2>3
<1>9. QED
  BY <1>4, <1>5, <1>6, <1>7, <1>8 DEF NodeStep

-----------------------------------------------------------------------------
(* finalize                                                                *)

Finals == {n \in Node : Kind[n] = "finalize"}

\* No record is created once the engine runs, and no node entered before.
StartInv ==
    /\ engine # "none" => starter = "done"
    /\ engine = "none" => \A n \in Node : job[n].at = "idle"

\* finalize does no work that could fail; it reports first, then leaves the
\* message.
FinalInv ==
    \A n \in Node :
        /\ job[n].at \in {"publishing", "learning"} => n \in Finals
        /\ n \in Finals =>
              /\ job[n].at \in {"idle", "select", "update", "publishing", "learning",
                                "completed"}
              /\ job[n].at # "idle" => job[n].outcome = "completed"
              /\ job[n].at \in {"publishing", "learning", "completed"} /\ rec.exists =>
                    rec.status = "completed"
              /\ job[n].at \in {"learning", "completed"} => "message" \in effects

\* The record of a completed run is finalize's, and nobody writes after it.
DoneInv ==
    rec.status = "completed" =>
        /\ rec.suspended = None
        /\ \A n \in Node :
               IF n \in Finals THEN job[n].at \in {"publishing", "learning", "completed"}
               ELSE job[n].at = "completed"

\* The engine ends with a failure, or with every node completed.
RestInv ==
    engine = "ended" => \/ \E n \in Node : job[n].at = "failed"
                        \/ \A n \in Node : job[n].at = "completed"

FinishInv == IInv /\ StartInv /\ FinalInv /\ DoneInv /\ RestInv

\* There is one finalize: two would have to complete before each other.
LEMMA OneFinal ==
    ASSUME NEW f \in Finals, NEW n \in Node, n # f
    PROVE  n \notin Finals /\ n \in Above[f] /\ f \notin Above[n]
<1>1. Above[f] = Node \ {f} /\ f \in Node /\ f \notin Above[f]
  BY DefinitionAssumption DEF Finals
<1>2. n \in Above[f] /\ Above[n] \subseteq Above[f]
  BY <1>1, DefinitionAssumption
<1>3. f \notin Above[n]
  BY <1>1, <1>2
<1>4. n \notin Finals
  <2>1. n \in Finals => Above[n] = Node \ {n}
    BY DefinitionAssumption DEF Finals
  <2>2. QED
    BY <1>1, <1>3, <2>1
<1>5. QED
  BY <1>2, <1>3, <1>4

\* Where no node can be entered, and all that were have completed, all have:
\* Above orders the nodes, and a node first among the idle ones is ready.
LEMMA AllCompleted ==
    ASSUME engine = "running",
           \A n \in Node : job[n].at \in {"idle", "completed"} /\ ~Ready(n)
    PROVE  \A n \in Node : job[n].at = "completed"
<1> DEFINE Waiting == {n \in Node : job[n].at = "idle"}
           T == {Above[n] : n \in Waiting}
           R == StrictSubsetOrdering(Node)
<1> SUFFICES ASSUME Waiting # {} PROVE FALSE
  OBVIOUS
<1>1. \A n \in Node : Above[n] \in SUBSET Node
  BY DefinitionAssumption
<1>2. IsWellFoundedOn(R, SUBSET Node)
  <2>1. IsWellFoundedOn(R, FiniteSubsetsOf(Node))
    BY FS_StrictSubsetOrderingWellFounded
  <2>2. FiniteSubsetsOf(Node) = SUBSET Node
    <3>1. IsFiniteSet(Node)
      BY DefinitionAssumption
    <3>2. QED
      BY <3>1, FS_FiniteSubsetsOfFinite
  <2>3. QED
    BY <2>1, <2>2
<1>3. T \subseteq SUBSET Node /\ T # {}
  BY <1>1
<1>4. \E x \in T : \A y \in T : ~ (<<y, x>> \in R)
  <2> HIDE DEF T, R
  <2>1. QED
    BY <1>2, <1>3, WFMin
<1>5. PICK n \in Waiting : \A m \in Waiting : <<Above[m], Above[n]>> \notin R
  BY <1>4
<1>6. PICK m \in Above[n] : job[m].at # "completed"
  BY <1>5 DEF Ready, Running
<1>7. m \in Waiting /\ m \in Node
  BY <1>1, <1>6
<1>8. Above[m] \subseteq Above[n] /\ m \notin Above[m]
  BY <1>6, <1>7, DefinitionAssumption
<1>9. <<Above[m], Above[n]>> \in R
  <2>1. Above[m] \in SUBSET Node /\ Above[n] \in SUBSET Node /\ Above[m] # Above[n]
    BY <1>1, <1>6, <1>7, <1>8
  <2>2. QED
    BY <1>8, <2>1 DEF StrictSubsetOrdering
<1>10. QED
  BY <1>5, <1>7, <1>9

\* The start, the deletion and the other steps outside the nodes leave them
\* alone; none creates a record under a running engine.
LEMMA OutsideKeeps ==
    ASSUME IInv, StartInv,
           \/ StartRequest \/ EngineRest \/ EditWorkflow \/ DeleteRuns
           \/ DeleteWorkflow \/ Crash \/ UNCHANGED vars
    PROVE  /\ job' = job /\ effects' = effects
           /\ \/ rec' = rec
              \/ rec' = NoRecord
              \/ /\ rec' = [NoRecord EXCEPT !.exists = TRUE]
                 /\ \A n \in Node : job[n].at = "idle"
           /\ StartInv'
<1>1. job' = job /\ effects' = effects
  BY DEF StartRequest, StartCheck, CreateRecord, EngineStart, StartThrows, EngineRest,
         EditWorkflow, DeleteRuns, DeleteWorkflow, Crash, vars
<1>2. CASE CreateRecord
  <2>1. starter = "checked" /\ engine' = engine /\ rec' = [NoRecord EXCEPT !.exists = TRUE]
    BY <1>2 DEF CreateRecord
  <2>2. QED
    BY <1>1, <2>1 DEF StartInv
<1>3. CASE ~CreateRecord
  <2>1. rec' = rec \/ rec' = NoRecord
    BY <1>3
    DEF StartRequest, StartCheck, EngineStart, StartThrows, EngineRest, EditWorkflow,
        DeleteRuns, DeleteWorkflow, Crash, vars, recordVars
  <2>2. StartInv'
    BY <1>1, <1>3
    DEF StartRequest, StartCheck, EngineStart, StartThrows, EngineRest, EditWorkflow,
        DeleteRuns, DeleteWorkflow, Crash, vars, requestVars, StartInv
  <2>3. QED
    BY <1>1, <2>1, <2>2
<1>4. QED
  BY <1>2, <1>3

\* The steps of a node keep what is said of finalize.
LEMMA NodeStepFinish ==
    ASSUME FinishInv, NEW n \in Node, NodeStep(n)
    PROVE  StartInv' /\ FinalInv' /\ DoneInv' /\ RestInv'
<1> USE DEF FinishInv, IInv
<1>1. JobOK /\ RecOK
  BY TypeParts
<1>2. job[n] \in Jobs /\ job[n].outcome \in Outcomes
  BY <1>1 DEF JobOK, Jobs
<1>3. /\ \A m \in Node : m # n => job'[m] = job[m]
      /\ engine = "running" /\ engine' = engine /\ starter' = starter
      /\ job[n].at \notin {"completed", "suspended", "failed"}
      /\ job[n].at = "idle" => \A m \in Above[n] : job[m].at = "completed"
      /\ rec'.exists = rec.exists
      /\ job[n].at # "update" => rec' = rec
      /\ effects \subseteq effects'
  BY NodeStepKeeps
<1>4. StartInv' /\ RestInv'
  BY <1>3 DEF StartInv, RestInv
<1>5. ASSUME n \in Finals
      PROVE  \/ /\ job[n].at \in {"idle", "select"}
                /\ job'[n].at \in {"select", "update"} /\ job'[n].outcome = "completed"
             \/ /\ job[n].at \in {"select", "update"}
                /\ job'[n].at = "publishing" /\ job'[n].outcome = "completed"
                /\ rec'.exists => job[n].at = "update" /\ rec'.status = "completed"
             \/ /\ job[n].at \in {"publishing", "learning"}
                /\ job'[n].at \in {"learning", "completed"}
                /\ job'[n].outcome = "completed" /\ "message" \in effects'
  <2>1. /\ Kind[n] = "finalize" /\ Kind[n] \notin Steps
        /\ job[n].at \in {"idle", "select", "update", "publishing", "learning", "completed"}
        /\ job[n].at # "idle" => job[n].outcome = "completed"
        /\ job[n].at = "learning" => "message" \in effects
    BY <1>5 DEF FinalInv, Finals, Steps
  <2>2. job[n].outcome = "completed" =>
           /\ AfterUpdate(n).at = "publishing" /\ AfterUpdate(n).outcome = "completed"
           /\ PatchedStatus(n, job[n].outcome) = "completed"
    <3>1. AfterUpdate(n) = [job[n] EXCEPT !.at = "publishing", !.seen = NoStates]
             \/ job[n].outcome # "completed"
      BY <2>1 DEF AfterUpdate
    <3>2. QED
      BY <1>2, <2>1, <3>1 DEF PatchedStatus, Jobs
  <2>3. QED
    BY <1>3, <2>1, <2>2, NodeMoves
<1>6. FinalInv'
  <2> SUFFICES ASSUME NEW k \in Node
               PROVE  /\ job'[k].at \in {"publishing", "learning"} => k \in Finals
                      /\ k \in Finals =>
                            /\ job'[k].at \in {"idle", "select", "update", "publishing",
                                               "learning", "completed"}
                            /\ job'[k].at # "idle" => job'[k].outcome = "completed"
                            /\ /\ job'[k].at \in {"publishing", "learning", "completed"}
                               /\ rec'.exists
                               => rec'.status = "completed"
                            /\ job'[k].at \in {"learning", "completed"} => "message" \in effects'
    BY DEF FinalInv
  <2>1. CASE k = n
    <3>1. CASE n \in Finals
      BY <1>3, <1>5, <2>1, <3>1 DEF FinalInv
    <3>2. CASE n \notin Finals
      <4>1. job[n].at \notin {"publishing", "learning"} /\ Kind[n] # "finalize"
        BY <3>2 DEF FinalInv, Finals
      <4>2. job'[n].at \notin {"publishing", "learning"}
        BY <1>1, <1>2, <4>1, NodeMoves, AfterUpdateIs DEF Outcomes
      <4>3. QED
        BY <2>1, <3>2, <4>2
    <3>3. QED
      BY <3>1, <3>2
  <2>2. CASE k # n
    <3>1. job'[k] = job[k]
      BY <1>3, <2>2
    <3>2. k \in Finals /\ rec' # rec => job[k].at = "idle"
      <4> SUFFICES ASSUME k \in Finals, rec' # rec, job[k].at # "idle" PROVE FALSE
        OBVIOUS
      <4>1. n \in Above[k]
        BY <2>2, OneFinal
      <4>2. job[n].at = "completed"
        BY <4>1 DEF EntryInv
      <4>3. QED
        BY <1>3, <4>2
    <3>3. QED
      BY <1>3, <3>1, <3>2 DEF FinalInv
  <2>3. QED
    BY <2>1, <2>2
<1>7. DoneInv'
  <2> SUFFICES ASSUME rec'.status = "completed"
               PROVE  /\ rec'.suspended = None
                      /\ \A k \in Node :
                             IF k \in Finals
                             THEN job'[k].at \in {"publishing", "learning", "completed"}
                             ELSE job'[k].at = "completed"
    BY DEF DoneInv
  <2>1. CASE rec.status = "completed"
    <3>1. n \in Finals /\ job[n].at \in {"publishing", "learning"}
      BY <1>3, <2>1 DEF DoneInv
    <3>2. rec' = rec /\ job'[n].at \in {"publishing", "learning", "completed"}
      BY <1>3, <1>5, <3>1
    <3>3. QED
      BY <1>3, <2>1, <3>1, <3>2 DEF DoneInv
  <2>2. CASE rec.status # "completed"
    <3>1. job[n].at = "update" /\ rec.exists
      <4>1. rec' # rec /\ job[n].at = "update"
        BY <1>3, <2>2
      <4>2. Update(n)
        BY <4>1
        DEF NodeStep, Enter, Select, Work, RequestApproval, Decide, Publish, Learn, recordVars
      <4>3. QED
        BY <4>1, <4>2 DEF Update
    <3>2. /\ rec'.status = PatchedStatus(n, job[n].outcome)
          /\ rec'.suspended = PatchedSuspended(n, job[n].outcome, rec.suspended)
      BY <3>1, NodeMoves
    <3>3. n \in Finals /\ job[n].outcome = "completed"
      <4>1. n \in Finals
        BY <3>2 DEF PatchedStatus, Finals
      <4>2. QED
        BY <3>1, <4>1 DEF FinalInv
    <3>4. rec'.suspended = None
      BY <3>2, <3>3 DEF PatchedSuspended, Finals
    <3>5. job'[n].at = "publishing"
      BY <1>5, <3>1, <3>3
    <3>6. \A k \in Node : k # n => k \notin Finals /\ job'[k].at = "completed"
      <4> SUFFICES ASSUME NEW k \in Node, k # n
                   PROVE  k \notin Finals /\ job[k].at = "completed"
        BY <1>3
      <4>1. k \notin Finals /\ k \in Above[n]
        BY <3>3, OneFinal
      <4>2. QED
        BY <3>1, <4>1 DEF EntryInv
    <3>7. QED
      BY <3>3, <3>4, <3>5, <3>6
  <2>3. QED
    BY <2>1, <2>2
<1>8. QED
  BY <1>4, <1>6, <1>7

\* A resume moves suspended nodes only, and those it moves start again.
LEMMA ResumeMoves ==
    ASSUME IInv, NEW h \in Handler, ResumeRequest(h)
    PROVE  /\ rec' = rec /\ effects' = effects /\ starter' = starter
           /\ \A m \in Node : \/ job'[m] = job[m]
                              \/ /\ job[m].at = "suspended"
                                 /\ job'[m].at = "select" /\ job'[m].outcome = "started"
           /\ \/ job' = job /\ engine' = engine
              \/ engine = "suspended" /\ engine' = "running"
<1>1. JobOK /\ RestOK
  BY TypeParts DEF IInv
<1>2. rec' = rec /\ effects' = effects /\ starter' = starter
  BY DEF ResumeRequest, ResumeCheck, ResumeLoad, EngineResume, ResumeThrows, recordVars
<1>3. CASE ResumeCheck(h) \/ ResumeLoad(h) \/ ResumeThrows(h)
  <2>1. job' = job /\ engine' = engine
    BY <1>3 DEF ResumeCheck, ResumeLoad, ResumeThrows
  <2>2. QED
    BY <1>2, <2>1
<1>4. CASE EngineResume(h)
  <2>1. PICK n \in {m \in Approvals : StepId[m] = handler[h].step /\ EngineTakes(m)},
             again \in SUBSET {m \in Approvals : Suspended(m)} :
           job' = [m \in Node |->
                      IF m = n THEN Resumed(job[m], handler[h].decision)
                      ELSE IF m \in again THEN Resumed(job[m], "none")
                      ELSE job[m]]
    BY <1>4 DEF EngineResume
  <2>2. /\ job[n].at = "suspended" /\ engine = "suspended"
        /\ \A m \in again : job[m].at = "suspended"
    BY <2>1 DEF EngineTakes, Suspended
  <2>3. handler[h].decision \in Decisions /\ "none" \in Decisions
    BY <1>1 DEF RestOK, Requests, Decisions
  <2>4. ASSUME NEW m \in Node
        PROVE  \/ job'[m] = job[m]
               \/ /\ job[m].at = "suspended"
                  /\ job'[m].at = "select" /\ job'[m].outcome = "started"
    <3>1. job[m] \in Jobs
      BY <1>1 DEF JobOK
    <3>2. QED
      BY <2>1, <2>2, <2>3, <3>1, ResumedIs
  <2>5. engine' = "running"
    BY <1>4 DEF EngineResume
  <2>6. QED
    BY <1>2, <2>2, <2>4, <2>5
<1>5. QED
  BY <1>3, <1>4 DEF ResumeRequest

\* A resume keeps what is said of finalize: a run it takes up is not completed.
LEMMA ResumeFinish ==
    ASSUME FinishInv, NEW h \in Handler, ResumeRequest(h)
    PROVE  StartInv' /\ FinalInv' /\ DoneInv' /\ RestInv'
<1> USE DEF FinishInv
<1>1. /\ rec' = rec /\ effects' = effects /\ starter' = starter
      /\ \A m \in Node : \/ job'[m] = job[m]
                         \/ /\ job[m].at = "suspended"
                            /\ job'[m].at = "select" /\ job'[m].outcome = "started"
      /\ \/ job' = job /\ engine' = engine
         \/ engine = "suspended" /\ engine' = "running"
  BY ResumeMoves
<1>2. StartInv' /\ RestInv'
  BY <1>1 DEF StartInv, RestInv
<1>3. FinalInv'
  BY <1>1 DEF FinalInv
<1>4. DoneInv'
  BY <1>1 DEF DoneInv
<1>5. QED
  BY <1>2, <1>3, <1>4

\* The other steps keep it too.
LEMMA OutsideFinish ==
    ASSUME FinishInv,
           \/ StartRequest \/ EngineRest \/ EditWorkflow \/ DeleteRuns
           \/ DeleteWorkflow \/ Crash \/ UNCHANGED vars
    PROVE  StartInv' /\ FinalInv' /\ DoneInv' /\ RestInv'
<1> USE DEF FinishInv
<1>1. /\ job' = job /\ effects' = effects
      /\ \/ rec' = rec
         \/ rec' = NoRecord
         \/ /\ rec' = [NoRecord EXCEPT !.exists = TRUE]
            /\ \A n \in Node : job[n].at = "idle"
      /\ StartInv'
  BY OutsideKeeps
<1>2. \/ rec' = rec
      \/ ~rec'.exists /\ rec'.status = "running"
      \/ rec'.status = "running" /\ \A n \in Node : job[n].at = "idle"
  BY <1>1 DEF NoRecord
<1>3. FinalInv' /\ DoneInv'
  BY <1>1, <1>2 DEF FinalInv, DoneInv
<1>4. RestInv'
  <2>1. CASE EngineRest
    <3>1. /\ engine = "running"
          /\ \A n \in Node : job[n].at \in {"idle", "completed", "suspended", "failed"}
          /\ \A n \in Node : ~Ready(n)
          /\ engine' = "ended" /\ (\A n \in Node : job[n].at # "failed") =>
                \A n \in Node : job[n].at # "suspended"
      BY <2>1 DEF EngineRest
    <3>2. engine' = "ended" /\ (\A n \in Node : job[n].at # "failed") =>
             \A n \in Node : job[n].at = "completed"
      BY <3>1, AllCompleted
    <3>3. QED
      BY <1>1, <3>2 DEF RestInv
  <2>2. CASE ~EngineRest
    <3>1. engine' = "ended" => engine = "ended"
      BY <2>2
      DEF StartRequest, StartCheck, CreateRecord, EngineStart, StartThrows, EditWorkflow,
          DeleteRuns, DeleteWorkflow, Crash, vars
    <3>2. QED
      BY <1>1, <3>1 DEF RestInv
  <2>3. QED
    BY <2>1, <2>2
<1>5. QED
  BY <1>1, <1>3, <1>4

\* What is said of finalize holds of every run.
LEMMA Finishes == Spec => []FinishInv
<1>1. Init => StartInv /\ FinalInv /\ DoneInv /\ RestInv
  BY DEF Init, Idle, NoRecord, StartInv, FinalInv, DoneInv, RestInv
<1>2. FinishInv /\ [Next]_vars => StartInv' /\ FinalInv' /\ DoneInv' /\ RestInv'
  BY NodeStepFinish, ResumeFinish, OutsideFinish DEF Next
<1>3. QED
  BY <1>1, <1>2, Invariant, PTL DEF Spec, FinishInv

\* A run recorded as completed has completed every step, and waits for nothing,
\* whatever the definition and however its branches interleave.
THEOREM CompletedIsDone == Spec => []CompletedMeansDone
<1>1. FinishInv => CompletedMeansDone
  BY DEF FinishInv, DoneInv, Finals, CompletedMeansDone
<1>2. QED
  BY <1>1, Finishes, PTL

\* A run that ends without a failure is recorded as completed, and has left its
\* answer in the conversation.
THEOREM EndsWell == Spec => []EndedWell
<1>1. FinishInv => EndedWell
  <2> SUFFICES ASSUME FinishInv, engine = "ended", \A n \in Node : job[n].at # "failed"
               PROVE  /\ rec.exists => rec.status = "completed"
                      /\ "message" \in effects
    BY DEF EndedWell
  <2>1. PICK f \in Node : Kind[f] = "finalize"
    BY DefinitionAssumption
  <2>2. job[f].at = "completed"
    BY DEF FinishInv, RestInv
  <2>3. QED
    BY <2>1, <2>2 DEF FinishInv, FinalInv, Finals
<1>2. QED
  BY <1>1, Finishes, PTL

-----------------------------------------------------------------------------
(* Steps that run alone                                                    *)

\* Only approvals suspend, and the engine waits for one that has.
SuspendInv ==
    /\ \A n \in Node :
           \/ job[n].at = "suspended"
           \/ job[n].at \in {"select", "update"} /\ job[n].outcome = "suspended"
           => n \in Approvals
    /\ engine = "suspended" => \E n \in Node : job[n].at = "suspended"

\* The failure and the suspension of a step that runs alone are the record's.
AloneRecorded ==
    rec.exists => \A n \in Node : Alone(n) =>
        /\ job[n].at = "failed" => rec.status = "failed"
        /\ job[n].at = "suspended" => rec.status = "suspended" /\ rec.suspended = StepId[n]

\* The end of a step that runs alone is in the record, and in what the nodes
\* entered after it write back.
AloneKept ==
    rec.exists => \A n \in Node : Alone(n) /\ Kind[n] \in Steps /\ Ended(n) =>
        /\ rec.steps[StepId[n]] = job[n].at
        /\ \A m \in Node : job[m].at = "update" => job[m].seen[StepId[n]] = job[n].at

AloneInv == FinishInv /\ SuspendInv /\ AloneRecorded /\ AloneKept

\* A suspended node is an approval.
LEMMA NodeStepSuspend ==
    ASSUME IInv, SuspendInv, NEW n \in Node, NodeStep(n)
    PROVE  SuspendInv'
<1>1. JobOK
  BY TypeParts DEF IInv
<1>2. job[n] \in Jobs /\ job[n].outcome \in Outcomes
  BY <1>1 DEF JobOK, Jobs
<1>3. /\ \A m \in Node : m # n => job'[m] = job[m]
      /\ engine' = "running"
  BY NodeStepKeeps DEF IInv
<1>4. /\ \/ job'[n].at = "suspended"
         \/ job'[n].at \in {"select", "update"} /\ job'[n].outcome = "suspended"
      => n \in Approvals
  <2>1. AfterUpdate(n).at = "suspended" =>
           job[n].outcome = "suspended"
    BY <1>1, <1>2, AfterUpdateIs
  <2>2. AfterUpdate(n).at \in {"select", "update"} => AfterUpdate(n).outcome = "started"
    BY <1>1, <1>2, AfterUpdateIs DEF Outcomes
  <2>3. QED
    BY <2>1, <2>2, NodeMoves DEF SuspendInv, IInv
<1>5. QED
  BY <1>3, <1>4 DEF SuspendInv

\* A step keeps what is recorded of the steps that run alone.
LEMMA NodeStepAlone ==
    ASSUME AloneInv, NEW k \in Node, NodeStep(k)
    PROVE  AloneRecorded' /\ AloneKept'
<1> USE DEF AloneInv, FinishInv, IInv
<1>1. JobOK /\ RecOK
  BY TypeParts
<1>2. /\ job[k] \in Jobs /\ job[k].outcome \in Outcomes
      /\ job[k].seen \in [StepIds -> Status] /\ StepId[k] \in StepIds
  BY <1>1 DEF JobOK, Jobs, StepIds
<1>3. /\ \A m \in Node : m # k => job'[m] = job[m]
      /\ job[k].at \notin {"completed", "suspended", "failed"}
      /\ job[k].at = "idle" => \A m \in Above[k] : job[m].at = "completed"
      /\ rec'.exists = rec.exists
      /\ job[k].at # "update" => rec' = rec
  BY NodeStepKeeps
<1>4. ASSUME NEW n \in Node, Alone(n), n # k, job[n].at \in {"completed", "suspended", "failed"}
      PROVE  job[n].at = "completed" /\ n \in Above[k] /\ k \notin Above[n]
  <2>1. k \notin Above[n]
    BY <1>3, <1>4 DEF EntryInv
  <2>2. n \in Above[k]
    BY <1>4, <2>1 DEF Alone
  <2>3. QED
    BY <1>3, <2>1, <2>2 DEF EntryInv
<1>5. rec.exists /\ job'[k].at \in {"completed", "suspended", "failed"} =>
         \/ job[k].at \in {"publishing", "learning"} /\ job'[k].at = "completed"
         \/ /\ job[k].at = "update" /\ job'[k].at = job[k].outcome
            /\ rec'.status = PatchedStatus(k, job[k].outcome)
            /\ rec'.steps = PatchedSteps(k, job[k].outcome, job[k].seen)
            /\ rec'.suspended = PatchedSuspended(k, job[k].outcome, rec.suspended)
  BY <1>1, AfterUpdateIs, NodeMoves
<1>6. AloneRecorded'
  <2> SUFFICES ASSUME rec.exists, NEW n \in Node, Alone(n),
                      job'[n].at \in {"suspended", "failed"}
               PROVE  /\ job'[n].at = "failed" => rec'.status = "failed"
                      /\ job'[n].at = "suspended" => /\ rec'.status = "suspended"
                                                     /\ rec'.suspended = StepId[n]
    BY <1>3 DEF AloneRecorded, Alone
  <2>1. n = k
    BY <1>3, <1>4
  <2>2. /\ job'[k].at = job[k].outcome
        /\ rec'.status = PatchedStatus(k, job[k].outcome)
        /\ rec'.suspended = PatchedSuspended(k, job[k].outcome, rec.suspended)
    BY <1>5, <2>1
  <2>3. QED
    BY <2>1, <2>2 DEF PatchedStatus, PatchedSuspended
<1>7. AloneKept'
  <2> SUFFICES ASSUME rec.exists, NEW n \in Node, Alone(n), Kind[n] \in Steps,
                      job'[n].at \in {"completed", "suspended", "failed"}
               PROVE  /\ rec'.steps[StepId[n]] = job'[n].at
                      /\ \A m \in Node : job'[m].at = "update" =>
                             job'[m].seen[StepId[n]] = job'[n].at
    BY <1>3 DEF AloneKept, Alone, Ended
  <2>1. Kind[n] # "finalize" /\ Kind[n] # "start" /\ n \notin Finals
    BY DEF Steps, Finals
  <2>2. CASE n = k
    <3>1. /\ job[n].at = "update" /\ job'[n].at = job[n].outcome
          /\ rec'.steps = PatchedSteps(n, job[n].outcome, job[n].seen)
      BY <1>5, <2>1, <2>2 DEF FinalInv
    <3>2. rec'.steps[StepId[n]] = job'[n].at
      BY <1>2, <2>1, <2>2, <3>1 DEF PatchedSteps
    <3>3. \A m \in Node : job'[m].at # "update"
      <4> SUFFICES ASSUME NEW m \in Node, m # n, job[m].at = "update" PROVE FALSE
        BY <1>3, <2>2
      <4>1. n \notin Above[m] /\ m \notin Above[n]
        BY <3>1 DEF EntryInv
      <4>2. QED
        BY <4>1 DEF Alone
    <3>4. QED
      BY <3>2, <3>3
  <2>3. CASE n # k
    <3>1. job'[n] = job[n] /\ job[n].at = "completed" /\ n \in Above[k]
      BY <1>3, <1>4, <2>3
    <3>2. /\ rec.steps[StepId[n]] = "completed"
          /\ \A m \in Node : job[m].at = "update" => job[m].seen[StepId[n]] = "completed"
      BY <3>1 DEF AloneKept, Ended
    <3>3. rec'.steps[StepId[n]] = "completed"
      <4>1. CASE job[k].at # "update"
        BY <1>3, <3>2, <4>1
      <4>2. CASE job[k].at = "update"
        <5>1. rec'.steps = PatchedSteps(k, job[k].outcome, job[k].seen)
          BY <4>2, NodeMoves
        <5>2. Kind[k] = "finalize" \/ StepId[k] # StepId[n]
          BY <2>3, DefinitionAssumption
        <5>3. job[k].seen[StepId[n]] = "completed"
          BY <3>2, <4>2
        <5>4. QED
          BY <1>2, <5>1, <5>2, <5>3 DEF PatchedSteps
      <4>3. QED
        BY <4>1, <4>2
    <3>4. job'[k].at = "update" => job'[k].seen = rec.steps
      BY <1>1, <1>2, AfterUpdateIs, NodeMoves DEF Outcomes
    <3>5. QED
      BY <1>3, <3>1, <3>2, <3>3, <3>4
  <2>4. QED
    BY <2>2, <2>3
<1>8. QED
  BY <1>6, <1>7

\* A resume keeps it: it starts suspended steps again, and writes nothing.
LEMMA ResumeAlone ==
    ASSUME AloneInv, NEW h \in Handler, ResumeRequest(h)
    PROVE  SuspendInv' /\ AloneRecorded' /\ AloneKept'
<1> USE DEF AloneInv, FinishInv
<1>1. /\ rec' = rec
      /\ \A m \in Node : \/ job'[m] = job[m]
                         \/ /\ job[m].at = "suspended"
                            /\ job'[m].at = "select" /\ job'[m].outcome = "started"
      /\ \/ job' = job /\ engine' = engine
         \/ engine = "suspended" /\ engine' = "running"
  BY ResumeMoves
<1>2. SuspendInv'
  BY <1>1 DEF SuspendInv
<1>3. AloneRecorded'
  BY <1>1 DEF AloneRecorded, Alone
<1>4. AloneKept'
  BY <1>1 DEF AloneKept, Alone, Ended
<1>5. QED
  BY <1>2, <1>3, <1>4

\* The other steps keep it: the engine rests suspended with a node suspended.
LEMMA OutsideAlone ==
    ASSUME AloneInv,
           \/ StartRequest \/ EngineRest \/ EditWorkflow \/ DeleteRuns
           \/ DeleteWorkflow \/ Crash \/ UNCHANGED vars
    PROVE  SuspendInv' /\ AloneRecorded' /\ AloneKept'
<1> USE DEF AloneInv, FinishInv
<1>1. /\ job' = job
      /\ \/ rec' = rec
         \/ rec' = NoRecord
         \/ /\ rec' = [NoRecord EXCEPT !.exists = TRUE]
            /\ \A n \in Node : job[n].at = "idle"
  BY OutsideKeeps
<1>2. rec' = rec \/ ~rec'.exists \/ \A n \in Node : job[n].at = "idle"
  BY <1>1 DEF NoRecord
<1>3. AloneRecorded'
  BY <1>1, <1>2 DEF AloneRecorded, Alone
<1>4. AloneKept'
  BY <1>1, <1>2 DEF AloneKept, Alone, Ended
<1>5. engine' = "suspended" => engine = "suspended" \/ \E n \in Node : job[n].at = "suspended"
  BY DEF StartRequest, StartCheck, CreateRecord, EngineStart, StartThrows, EngineRest,
         EditWorkflow, DeleteRuns, DeleteWorkflow, Crash, vars
<1>6. SuspendInv'
  BY <1>1, <1>5 DEF SuspendInv
<1>7. QED
  BY <1>3, <1>4, <1>6

\* What is recorded of the steps that run alone holds of every run.
LEMMA AloneSteps == Spec => []AloneInv
<1>1. Init => SuspendInv /\ AloneRecorded /\ AloneKept
  BY DEF Init, Idle, NoRecord, SuspendInv, AloneRecorded, AloneKept
<1>2. AloneInv /\ [Next]_vars => SuspendInv' /\ AloneRecorded' /\ AloneKept'
  <2>1. ASSUME AloneInv, NEW n \in Node, NodeStep(n)
        PROVE  SuspendInv' /\ AloneRecorded' /\ AloneKept'
    BY <2>1, NodeStepSuspend, NodeStepAlone DEF AloneInv, FinishInv
  <2>2. QED
    BY <2>1, ResumeAlone, OutsideAlone DEF Next
<1>3. QED
  BY <1>1, <1>2, Finishes, PTL DEF Spec, AloneInv

\* Of every definition, branches or not: the record of a step that runs alone is
\* right.  Its failure is the run's, the approval it waits for is the one that
\* can be answered, and the end it came to stays recorded, whatever the branches
\* of a parallel step write over each other afterwards.
THEOREM AloneIsRecorded == Spec => [](AloneRecorded /\ AloneKept)
BY AloneSteps, PTL DEF AloneInv

\* Without branches, a run that has ended in a failure is recorded as failed.
THEOREM SequentialFailure == ASSUME Sequential PROVE Spec => []FailureRecorded
<1>1. AloneInv => FailureRecorded
  BY DEF Sequential, AloneInv, AloneRecorded, FailureRecorded
<1>2. QED
  BY <1>1, AloneSteps, PTL

\* Without branches, the record names the end every step has come to.
THEOREM SequentialSteps == ASSUME Sequential PROVE Spec => []StepStatesRecorded
<1>1. AloneInv => StepStatesRecorded
  BY DEF Sequential, AloneInv, AloneKept, StepStatesRecorded
<1>2. QED
  BY <1>1, AloneSteps, PTL

\* Without branches, the approval the engine waits for is the one the record
\* names, and the resume request can answer.
THEOREM SequentialSuspension == ASSUME Sequential PROVE Spec => []SuspendedIsAnswerable
<1>1. AloneInv => SuspendedIsAnswerable
  <2> SUFFICES ASSUME AloneInv, rec.exists, engine = "suspended"
               PROVE  \E n \in Approvals : job[n].at = "suspended" /\ rec.suspended = StepId[n]
    BY DEF SuspendedIsAnswerable
  <2>1. PICK n \in Node : job[n].at = "suspended"
    BY DEF AloneInv, SuspendInv
  <2>2. n \in Approvals
    BY <2>1 DEF AloneInv, SuspendInv
  <2>3. rec.suspended = StepId[n]
    BY <2>1 DEF Sequential, AloneInv, AloneRecorded
  <2>4. QED
    BY <2>1, <2>2, <2>3
<1>2. QED
  BY <1>1, AloneSteps, PTL

=============================================================================
