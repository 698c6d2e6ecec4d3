------------------------------- MODULE LoopRun -------------------------------
(***************************************************************************)
(* One run of a Loop (a workflow of agent-service): the handlers that      *)
(* start and resume it (server.ts), the steps its definition is compiled   *)
(* to (workflows/compiler.ts), and its run record in the database (db.ts), *)
(* which every step updates by reading the record's step states, awaiting, *)
(* and writing them all back.                                              *)
(*                                                                         *)
(* The workflow engine (Mastra) is external.  As the code uses it: it      *)
(* enters a step when all before it have completed, runs the branches of a *)
(* parallel node concurrently to their ends, keeps a suspended run in      *)
(* PostgreSQL, and takes a resume of a step it holds suspended once.       *)
(*                                                                         *)
(* Conditions and loops, which choose the steps that are entered, are not  *)
(* in this module: a definition is the order of its steps.                 *)
(***************************************************************************)
EXTENDS Naturals, FiniteSets

CONSTANTS
    Node,        \* the compiled steps, the markers and finalize included
    Kind,        \* what each is
    Above,       \* the nodes that complete before each is entered
    StepId,      \* the step of the definition a node reports for
    Retries,     \* how often the engine repeats a step that throws
    Handler,     \* the resume requests that may be in progress
    MaxVersion,  \* bound on the edits of the definition
    None         \* no suspended step

Steps == {"leaf", "verify", "approval"}
Markers == {"start", "join"}

\* A definition has at most 100 steps, no two of one id (the markers of a
\* control step report for it), and is compiled to end in finalize.
ASSUME DefinitionAssumption ==
    /\ IsFiniteSet(Node)
    /\ \E n \in Node : Kind[n] = "finalize"
    /\ Kind \in [Node -> Steps \cup Markers \cup {"finalize"}]
    /\ Above \in [Node -> SUBSET Node]
    /\ Retries \in [Node -> Nat]
    /\ \A n \in Node : /\ n \notin Above[n]
                       /\ \A m \in Above[n] : Above[m] \subseteq Above[n]
                       /\ Kind[n] = "finalize" => Above[n] = Node \ {n}
    /\ MaxVersion \in Nat \ {0}
    /\ \A m, n \in Node :
           Kind[n] \in Steps /\ Kind[m] # "finalize" /\ StepId[m] = StepId[n] => m = n
    /\ None \notin {StepId[n] : n \in Node}

StepIds == {StepId[n] : n \in Node}
Approvals == {n \in Node : Kind[n] = "approval"}

VARIABLES
    wf,        \* the workflow row: exists, enabled, version of its definition
    deleting,  \* DELETE of the workflow, between its two statements
    rec,       \* the run row
    starter,   \* the request that starts the run
    engine,    \* the engine's run, in the process or in PostgreSQL
    version,   \* the version of the definition it was last compiled from
    job,       \* each node's execution
    handler,   \* each resume request
    audit,     \* the approval events of the security audit
    effects,   \* what finalize has left behind
    shown,     \* history: the version an approval was requested for
    ran        \* history: the version a step did its work from

recordVars == <<wf, deleting, rec>>
requestVars == <<starter, handler>>
historyVars == <<shown, ran>>
vars == <<wf, deleting, rec, starter, engine, version, job, handler, audit,
          effects, shown, ran>>

NoStates == [s \in StepIds |-> "none"]

Idle == [at |-> "idle", outcome |-> "started", decision |-> "none",
         tries |-> 0, seen |-> NoStates]
IdleHandler == [at |-> "idle", step |-> None, decision |-> "none", version |-> 0]

NoRecord == [exists |-> FALSE, status |-> "running", steps |-> NoStates,
             suspended |-> None]

Init ==
    /\ wf = [exists |-> TRUE, enabled |-> TRUE, version |-> 1]
    /\ deleting = FALSE
    /\ rec = NoRecord
    /\ starter = "idle"
    /\ engine = "none"
    /\ version = 0
    /\ job = [n \in Node |-> Idle]
    /\ handler = [h \in Handler |-> IdleHandler]
    /\ audit = {}
    /\ effects = {}
    /\ shown = [n \in Node |-> 0]
    /\ ran = [n \in Node |-> 0]

-----------------------------------------------------------------------------
(* POST /api/workflows/:id/stream                                          *)

StartCheck ==
    /\ starter = "idle"
    /\ wf.exists /\ wf.enabled
    /\ starter' = "checked"
    /\ version' = wf.version
    /\ UNCHANGED <<recordVars, engine, job, handler, audit, effects, historyVars>>

CreateRecord ==
    /\ starter = "checked"
    /\ rec' = [NoRecord EXCEPT !.exists = TRUE]
    /\ starter' = "created"
    /\ UNCHANGED <<wf, deleting, engine, version, job, handler, audit, effects,
                   historyVars>>

EngineStart ==
    /\ starter = "created"
    /\ starter' = "done"
    /\ engine' = "running"
    /\ UNCHANGED <<recordVars, version, job, handler, audit, effects, historyVars>>

\* The settings, the compilation or the engine throw: the client gets a 500.
StartThrows ==
    /\ starter = "created"
    /\ starter' = "done"
    /\ UNCHANGED <<recordVars, engine, version, job, handler, audit, effects,
                   historyVars>>

-----------------------------------------------------------------------------
(* The steps.  Every one writes the record through updateWorkflowRunRecord,*)
(* a SELECT and an UPDATE with an await between them; "outcome" is what    *)
(* the update due, or the last one made, reports.                          *)

\* mutant: every end of a step is taken for the end of the run
PatchedStatusOfStep(n, outcome) == IF outcome = "started" THEN "running" ELSE outcome

\* mutant: the catch clause reports the step only
PatchedStatusOfSuccess(n, outcome) ==
    IF outcome = "suspended" THEN outcome
    ELSE IF Kind[n] = "finalize" THEN "completed" ELSE "running"

\* mutant: finalize reports its output only
PatchedStatusUnfinished(n, outcome) ==
    IF outcome \in {"suspended", "failed"} THEN outcome ELSE "running"

PatchedStatus(n, outcome) ==
    IF outcome \in {"suspended", "failed"} THEN outcome
    ELSE IF Kind[n] = "finalize" THEN "completed" ELSE "running"

\* mutant: the catch clause reports the run only
PatchedStepsOfSuccess(n, outcome, steps) ==
    IF Kind[n] = "finalize" \/ outcome = "failed"
    THEN steps
    ELSE [steps EXCEPT ![StepId[n]] = IF outcome = "started" THEN "running" ELSE outcome]

PatchedSteps(n, outcome, steps) ==
    IF Kind[n] = "finalize" THEN steps
    ELSE [steps EXCEPT ![StepId[n]] =
             IF outcome = "started" \/ Kind[n] = "start" THEN "running" ELSE outcome]

\* mutant: the approved step leaves the run waiting for it
PatchedSuspendedKept(n, outcome, old) ==
    IF outcome = "suspended" THEN StepId[n] ELSE old

\* mutant: a suspended step is not named
PatchedSuspendedUnnamed(n, outcome, old) ==
    IF outcome = "completed" /\ Kind[n] \in {"approval", "finalize"} THEN None ELSE old

PatchedSuspended(n, outcome, old) ==
    CASE outcome = "suspended" -> StepId[n]
      [] outcome = "completed" /\ Kind[n] \in {"approval", "finalize"} -> None
      [] OTHER -> old

\* mutant: a step is repeated once more than its definition allows
RepeatsOnceMore(j, n) == j.tries <= Retries[n]
Repeats(j, n) == j.tries < Retries[n]

\* mutant: the tries are not counted
SameTry(j) == [j EXCEPT !.at = "select", !.outcome = "started", !.seen = NoStates]
NextTry(j) == [j EXCEPT !.at = "select", !.outcome = "started", !.seen = NoStates,
                        !.tries = @ + 1]

\* Where the node goes when its update is done, or found no record to update.
AfterUpdate(n) ==
    LET j == job[n] IN
    CASE j.outcome = "started" -> [j EXCEPT !.at = "working", !.seen = NoStates]
      [] j.outcome = "completed" /\ Kind[n] = "finalize" ->
             [j EXCEPT !.at = "publishing", !.seen = NoStates]
      [] j.outcome = "failed" /\ Repeats(j, n) -> NextTry(j)
      [] OTHER -> [j EXCEPT !.at = j.outcome, !.seen = NoStates]

Moved(j, at, outcome) == [j EXCEPT !.at = at, !.outcome = outcome]

Running(n, at) == engine = "running" /\ job[n].at = at

Ready(n) ==
    /\ Running(n, "idle")
    /\ \A m \in Above[n] : job[m].at = "completed"

Enter(n) ==
    /\ Ready(n)
    /\ job' = [job EXCEPT ![n] = Moved(@, "select",
                  IF Kind[n] \in Steps THEN "started" ELSE "completed")]
    /\ UNCHANGED <<recordVars, requestVars, engine, version, audit, effects,
                   historyVars>>

Select(n) ==
    /\ Running(n, "select")
    /\ job' = [job EXCEPT
                  ![n] = IF rec.exists
                         THEN [@ EXCEPT !.at = "update", !.seen = rec.steps]
                         ELSE AfterUpdate(n)]
    /\ UNCHANGED <<recordVars, requestVars, engine, version, audit, effects,
                   historyVars>>

Update(n) ==
    /\ Running(n, "update")
    /\ rec' = IF rec.exists
              THEN [exists    |-> TRUE,
                    status    |-> PatchedStatus(n, job[n].outcome),
                    steps     |-> PatchedSteps(n, job[n].outcome, job[n].seen),
                    suspended |-> PatchedSuspended(n, job[n].outcome, rec.suspended)]
              ELSE rec
    /\ job' = [job EXCEPT ![n] = AfterUpdate(n)]
    /\ UNCHANGED <<wf, deleting, requestVars, engine, version, audit, effects,
                   historyVars>>

Settle(n, outcome) == job' = [job EXCEPT ![n] = Moved(@, "select", outcome)]

\* An agent, tool, query or security check returns, or throws.
Work(n) ==
    /\ Running(n, "working")
    /\ Kind[n] \in {"leaf", "verify"}
    /\ \E outcome \in {"completed", "failed"} : Settle(n, outcome)
    /\ ran' = [ran EXCEPT ![n] = version]
    /\ UNCHANGED <<recordVars, requestVars, engine, version, audit, effects, shown>>

RequestApproval(n) ==
    /\ Running(n, "working")
    /\ n \in Approvals
    /\ job[n].decision = "none"
    /\ Settle(n, "suspended")
    /\ audit' = audit \cup {<<"requested", n>>}
    /\ shown' = [shown EXCEPT ![n] = version]
    /\ UNCHANGED <<recordVars, requestVars, engine, version, effects, ran>>

\* mutant: a denial completes the step
OutcomeOfAny(decision) == "completed"
OutcomeOf(decision) == IF decision = "approve" THEN "completed" ELSE "failed"

Decide(n) ==
    /\ Running(n, "working")
    /\ n \in Approvals
    /\ job[n].decision # "none"
    /\ Settle(n, OutcomeOf(job[n].decision))
    /\ audit' = audit \cup
                {<<IF job[n].decision = "approve" THEN "approved" ELSE "denied", n>>}
    /\ UNCHANGED <<recordVars, requestVars, engine, version, effects, historyVars>>

(* finalize, after its update: the result message, and, for a definition   *)
(* with a verify step, the memory learnt from the outcome.                 *)

Publish(n) ==
    /\ Running(n, "publishing")
    /\ effects' = effects \cup {"message"}
    /\ job' = [job EXCEPT ![n] = Moved(@,
                  IF \E m \in Node : Kind[m] = "verify" THEN "learning" ELSE "completed",
                  @.outcome)]
    /\ UNCHANGED <<recordVars, requestVars, engine, version, audit, historyVars>>

\* Learning may fail: its error is logged and the run completes all the same.
Learn(n) ==
    /\ Running(n, "learning")
    /\ effects' \in {effects, effects \cup {"memory"}}
    /\ job' = [job EXCEPT ![n] = Moved(@, "completed", @.outcome)]
    /\ UNCHANGED <<recordVars, requestVars, engine, version, audit, historyVars>>

\* Every node that was entered has come to its end.
EngineRest ==
    /\ engine = "running"
    /\ \A n \in Node : /\ job[n].at \in {"idle", "completed", "suspended", "failed"}
                       /\ ~Ready(n)
    /\ engine' = IF \E n \in Node : job[n].at = "suspended"
                    /\ \A m \in Node : job[m].at # "failed"
                 THEN "suspended"
                 ELSE "ended"
    /\ UNCHANGED <<recordVars, requestVars, version, job, audit, effects, historyVars>>

-----------------------------------------------------------------------------
(* POST /api/workflow-runs/:runId/resume.  The step it resumes is the one  *)
(* the record names when it looks; the definition is the one of the row    *)
(* when it is compiled.                                                    *)

ResumeCheck(h) ==
    /\ handler[h].at = "idle"
    /\ rec.exists
    /\ rec.suspended # None
    /\ \E decision \in {"approve", "deny"} :
           handler' = [handler EXCEPT ![h] = [at |-> "checked", step |-> rec.suspended,
                                              decision |-> decision, version |-> 0]]
    /\ UNCHANGED <<recordVars, starter, engine, version, job, audit, effects,
                   historyVars>>

ResumeLoad(h) ==
    /\ handler[h].at = "checked"
    /\ handler' = [handler EXCEPT
                      ![h] = IF wf.exists
                             THEN [@ EXCEPT !.at = "loaded", !.version = wf.version]
                             ELSE IdleHandler]
    /\ UNCHANGED <<recordVars, starter, engine, version, job, audit, effects,
                   historyVars>>

Suspended(n) == engine = "suspended" /\ job[n].at = "suspended"

\* mutant: a step is resumed whatever has become of it
EngineTakesAny(n) == engine \in {"suspended", "ended"} /\ job[n].at # "idle"
EngineTakes(n) == Suspended(n)

Resumed(j, decision) ==
    [j EXCEPT !.at = "select", !.outcome = "started", !.decision = decision]

\* The engine may enter the other steps it holds suspended again as well,
\* without a decision.
EngineResume(h) ==
    LET target == {n \in Approvals : StepId[n] = handler[h].step /\ EngineTakes(n)}
    IN
    /\ handler[h].at = "loaded"
    /\ target # {}
    /\ \E n \in target, again \in SUBSET {m \in Approvals : Suspended(m)} :
           job' = [m \in Node |->
                      IF m = n THEN Resumed(job[m], handler[h].decision)
                      ELSE IF m \in again THEN Resumed(job[m], "none")
                      ELSE job[m]]
    /\ engine' = "running"
    /\ version' = handler[h].version
    /\ handler' = [handler EXCEPT ![h] = IdleHandler]
    /\ UNCHANGED <<recordVars, starter, audit, effects, historyVars>>

\* The settings, the compilation or the engine throw, the last because it
\* does not hold the step suspended.
ResumeThrows(h) ==
    /\ handler[h].at = "loaded"
    /\ handler' = [handler EXCEPT ![h] = IdleHandler]
    /\ UNCHANGED <<recordVars, starter, engine, version, job, audit, effects,
                   historyVars>>

-----------------------------------------------------------------------------
(* The workflow's own handlers, and the process                            *)

\* PUT: the definition changes, and with it the version, or only the rest.
EditWorkflow ==
    /\ wf.exists
    /\ \E enabled \in BOOLEAN, next \in {wf.version, wf.version + 1} :
           /\ next <= MaxVersion
           /\ wf' = [wf EXCEPT !.enabled = enabled, !.version = next]
    /\ UNCHANGED <<deleting, rec, requestVars, engine, version, job, audit, effects,
                   historyVars>>

DeleteRuns ==
    /\ wf.exists /\ ~deleting
    /\ deleting' = TRUE
    /\ rec' = NoRecord
    /\ UNCHANGED <<wf, requestVars, engine, version, job, audit, effects, historyVars>>

DeleteWorkflow ==
    /\ deleting
    /\ deleting' = FALSE
    /\ wf' = [wf EXCEPT !.exists = FALSE]
    /\ UNCHANGED <<rec, requestVars, engine, version, job, audit, effects, historyVars>>

\* The process dies: the database and a suspended run in PostgreSQL survive.
Crash ==
    /\ engine' = IF engine = "running" THEN "lost" ELSE engine
    /\ starter' = IF starter = "idle" THEN "idle" ELSE "done"
    /\ handler' = [h \in Handler |-> IdleHandler]
    /\ deleting' = FALSE
    /\ UNCHANGED <<wf, rec, version, job, audit, effects, historyVars>>

-----------------------------------------------------------------------------
StartRequest == StartCheck \/ CreateRecord \/ EngineStart \/ StartThrows

NodeStep(n) ==
    \/ Enter(n) \/ Select(n) \/ Update(n)
    \/ Work(n) \/ RequestApproval(n) \/ Decide(n)
    \/ Publish(n) \/ Learn(n)

ResumeRequest(h) ==
    ResumeCheck(h) \/ ResumeLoad(h) \/ EngineResume(h) \/ ResumeThrows(h)

Next ==
    \/ StartRequest
    \/ \E n \in Node : NodeStep(n)
    \/ EngineRest
    \/ \E h \in Handler : ResumeRequest(h)
    \/ EditWorkflow \/ DeleteRuns \/ DeleteWorkflow
    \/ Crash

Spec == Init /\ [][Next]_vars

\* A request in progress goes on, and so does a step that was entered: the
\* queries and tools it awaits have time limits, and the model provider of an
\* agent is taken to answer or to drop the connection.  Nobody has to start a
\* run or to answer an approval.
Fairness ==
    /\ WF_vars(CreateRecord) /\ WF_vars(EngineStart \/ StartThrows)
    /\ \A n \in Node : WF_vars(NodeStep(n))
    /\ WF_vars(EngineRest)
    /\ \A h \in Handler : WF_vars(ResumeLoad(h)) /\ WF_vars(EngineResume(h) \/ ResumeThrows(h))

FairSpec == Spec /\ Fairness

-----------------------------------------------------------------------------
(* Properties                                                              *)

Ended(n) == job[n].at \in {"completed", "suspended", "failed"}
AtRest == engine \in {"suspended", "ended"}

\* The types of the variables; a step is not repeated more often than its
\* definition allows (createStep's retries).
TypeOK ==
    /\ wf \in [exists : BOOLEAN, enabled : BOOLEAN, version : 1 .. MaxVersion]
    /\ deleting \in BOOLEAN
    /\ rec \in [exists : BOOLEAN,
                status : {"running", "suspended", "completed", "failed"},
                steps : [StepIds -> {"none", "running", "completed", "suspended", "failed"}],
                suspended : StepIds \cup {None}]
    /\ starter \in {"idle", "checked", "created", "done"}
    /\ engine \in {"none", "running", "suspended", "ended", "lost"}
    /\ version \in 0 .. MaxVersion
    /\ job \in [Node ->
                  [at : {"idle", "select", "update", "working", "publishing", "learning",
                         "completed", "suspended", "failed"},
                   outcome : {"started", "completed", "suspended", "failed"},
                   decision : {"none", "approve", "deny"},
                   tries : Nat,
                   seen : [StepIds -> {"none", "running", "completed", "suspended", "failed"}]]]
    /\ \A n \in Node : job[n].tries <= Retries[n]
    /\ handler \in [Handler -> [at : {"idle", "checked", "loaded"},
                                step : StepIds \cup {None},
                                decision : {"none", "approve", "deny"},
                                version : 0 .. MaxVersion]]
    /\ audit \subseteq {"requested", "approved", "denied"} \X Node
    /\ effects \subseteq {"message", "memory"}
    /\ shown \in [Node -> 0 .. MaxVersion]
    /\ ran \in [Node -> 0 .. MaxVersion]

\* Nothing behind an approval is entered until the audit holds its approval:
\* a denial, a lost answer, a crash or a second answer does not let the run
\* through (compileLeafStep throws on a denial).
ApprovalGates ==
    \A n \in Node : job[n].at # "idle" =>
        \A a \in Above[n] \cap Approvals : <<"approved", a>> \in audit

\* An approval is decided one way: of two answers in progress at the same
\* time, one counts.
OneDecision ==
    \A n \in Approvals : ~ {<<"approved", n>>, <<"denied", n>>} \subseteq audit

\* A run recorded as completed has completed every step and waits for
\* nothing, whatever its other writers still have to write.
CompletedMeansDone ==
    rec.status = "completed" =>
        /\ rec.suspended = None
        /\ \A n \in Node : Kind[n] # "finalize" => job[n].at = "completed"

\* A run that has ended without a failure is recorded as completed, and its
\* answer is in the conversation (finalize).
EndedWell ==
    engine = "ended" /\ (\A n \in Node : job[n].at # "failed") =>
        /\ rec.exists => rec.status = "completed"
        /\ "message" \in effects

\* At rest, the record names the end every step has come to.
StepStatesRecorded ==
    rec.exists /\ AtRest =>
        \A n \in Node : Kind[n] \in Steps /\ Ended(n) => rec.steps[StepId[n]] = job[n].at

\* A run that has ended in a failure is recorded as failed.
FailureRecorded ==
    rec.exists /\ engine = "ended" /\ (\E n \in Node : job[n].at = "failed") =>
        rec.status = "failed"

\* While the engine waits for approvals, the record names one of them: it is
\* the only one that the resume request can answer.
SuspendedIsAnswerable ==
    rec.exists /\ engine = "suspended" =>
        \E n \in Approvals : job[n].at = "suspended" /\ rec.suspended = StepId[n]

\* A run is not left in the engine's hands for ever.
RunSettles == engine = "running" ~> engine # "running"

-----------------------------------------------------------------------------
(* What the documents say of a run, and the code does not do               *)

\* What follows an approval is what was shown for it.
ApprovalBindsDefinition ==
    \A n \in Node : ran[n] # 0 => \A a \in Above[n] \cap Approvals : ran[n] = shown[a]

=============================================================================
