---------------------------- MODULE LoopRunProofs ----------------------------
(***************************************************************************)
(* What holds of a run for every definition, every number of resume        *)
(* requests and every number of edits.                                     *)
(*                                                                         *)
(* ApprovalGates follows from two facts about single nodes: a node that    *)
(* was entered has all of Above completed, and an approval can be on its   *)
(* way to "completed" only with its approval in the audit.  OneDecision    *)
(* needs that the audit also tells where an approval stands: once approved *)
(* it has Passed, once denied it is Refused, and no step leads from one to *)
(* the other, because only a suspended step is resumed.                    *)
(***************************************************************************)
EXTENDS LoopRun, TLAPS

Status == {"none", "running", "completed", "suspended", "failed"}
Outcomes == {"started", "completed", "suspended", "failed"}
Places == {"idle", "select", "update", "working", "publishing", "learning",
           "completed", "suspended", "failed"}
Decisions == {"none", "approve", "deny"}

Jobs == [at : Places, outcome : Outcomes, decision : Decisions, tries : Nat,
         seen : [StepIds -> Status]]
Records == [exists : BOOLEAN, status : {"running", "suspended", "completed", "failed"},
            steps : [StepIds -> Status], suspended : StepIds \cup {None}]
Requests == [at : {"idle", "checked", "loaded"}, step : StepIds \cup {None},
             decision : Decisions, version : 0 .. MaxVersion]

JobOK == job \in [Node -> Jobs] /\ \A n \in Node : job[n].tries <= Retries[n]
RecOK == rec \in Records
RestOK ==
    /\ wf \in [exists : BOOLEAN, enabled : BOOLEAN, version : 1 .. MaxVersion]
    /\ deleting \in BOOLEAN
    /\ starter \in {"idle", "checked", "created", "done"}
    /\ engine \in {"none", "running", "suspended", "ended", "lost"}
    /\ version \in 0 .. MaxVersion
    /\ handler \in [Handler -> Requests]
    /\ audit \subseteq {"requested", "approved", "denied"} \X Node
    /\ effects \subseteq {"message", "memory"}
    /\ shown \in [Node -> 0 .. MaxVersion]
    /\ ran \in [Node -> 0 .. MaxVersion]

\* TypeOK in parts.
LEMMA TypeParts ==
    /\ TypeOK <=> JobOK /\ RecOK /\ RestOK
    /\ TypeOK' <=> (JobOK /\ RecOK /\ RestOK)'
BY DEF TypeOK, JobOK, RecOK, RestOK, Jobs, Records, Requests, Status, Outcomes,
       Places, Decisions

\* No step states yet.
LEMMA NoStatesType == NoStates \in [StepIds -> Status]
BY DEF NoStates, Status

\* What an update writes is a record of the declared shape.
LEMMA PatchType ==
    ASSUME NEW n \in Node, NEW outcome \in Outcomes,
           NEW steps \in [StepIds -> Status], NEW old \in StepIds \cup {None}
    PROVE  /\ PatchedStatus(n, outcome) \in {"running", "suspended", "completed", "failed"}
           /\ PatchedSteps(n, outcome, steps) \in [StepIds -> Status]
           /\ PatchedSuspended(n, outcome, old) \in StepIds \cup {None}
<1>1. StepId[n] \in StepIds
  BY DEF StepIds
<1>2. PatchedStatus(n, outcome) \in {"running", "suspended", "completed", "failed"}
  BY DEF PatchedStatus, Outcomes
<1>3. PatchedSteps(n, outcome, steps) \in [StepIds -> Status]
  BY <1>1 DEF PatchedSteps, Outcomes, Status
<1>4. PatchedSuspended(n, outcome, old) \in StepIds \cup {None}
  BY <1>1 DEF PatchedSuspended
<1>5. QED
  BY <1>2, <1>3, <1>4

\* Where a node goes after an update, and what it keeps.
LEMMA AfterUpdateIs ==
    ASSUME JobOK, NEW n \in Node
    PROVE  /\ AfterUpdate(n) \in Jobs
           /\ AfterUpdate(n).tries \in {job[n].tries, job[n].tries + 1}
           /\ AfterUpdate(n).tries <= Retries[n]
           /\ AfterUpdate(n).decision = job[n].decision
           /\ \/ /\ job[n].outcome = "started"
                 /\ AfterUpdate(n).at = "working"
                 /\ AfterUpdate(n).outcome = "started"
              \/ /\ job[n].outcome = "completed" /\ Kind[n] = "finalize"
                 /\ AfterUpdate(n).at = "publishing"
                 /\ AfterUpdate(n).outcome = "completed"
              \/ /\ job[n].outcome = "failed"
                 /\ AfterUpdate(n).at = "select"
                 /\ AfterUpdate(n).outcome = "started"
              \/ /\ job[n].outcome # "started"
                 /\ AfterUpdate(n).at = job[n].outcome
                 /\ AfterUpdate(n).outcome = job[n].outcome
<1> DEFINE j == job[n]
<1>1. /\ j \in Jobs
      /\ j.at \in Places /\ j.outcome \in Outcomes /\ j.decision \in Decisions
      /\ j.tries \in Nat /\ j.tries <= Retries[n] /\ Retries[n] \in Nat
  BY DefinitionAssumption DEF JobOK, Jobs
<1>2. CASE j.outcome = "started"
  <2>1. AfterUpdate(n) = [j EXCEPT !.at = "working", !.seen = NoStates]
    BY <1>2 DEF AfterUpdate
  <2>2. QED
    BY <2>1, <1>1, <1>2, NoStatesType DEF Jobs, Places
<1>3. CASE j.outcome = "completed" /\ Kind[n] = "finalize"
  <2>1. AfterUpdate(n) = [j EXCEPT !.at = "publishing", !.seen = NoStates]
    BY <1>3 DEF AfterUpdate
  <2>2. QED
    BY <2>1, <1>1, <1>3, NoStatesType DEF Jobs, Places
<1>4. CASE j.outcome = "failed" /\ Repeats(j, n)
  <2>1. AfterUpdate(n) = [at |-> "select", outcome |-> "started",
                          decision |-> j.decision, tries |-> j.tries + 1,
                          seen |-> NoStates]
    <3>1. AfterUpdate(n) = NextTry(j)
      BY <1>4 DEF AfterUpdate
    <3>2. QED
      BY <3>1, <1>1 DEF NextTry, Jobs
  <2>2. j.tries + 1 <= Retries[n]
    BY <1>1, <1>4 DEF Repeats
  <2>3. QED
    BY <2>1, <2>2, <1>1, <1>4, NoStatesType DEF Jobs, Places, Outcomes
<1>5. CASE /\ j.outcome # "started"
           /\ ~ (j.outcome = "completed" /\ Kind[n] = "finalize")
           /\ ~ (j.outcome = "failed" /\ Repeats(j, n))
  <2>1. AfterUpdate(n) = [j EXCEPT !.at = j.outcome, !.seen = NoStates]
    BY <1>5 DEF AfterUpdate
  <2>2. j.outcome \in Places
    BY <1>1, <1>5 DEF Outcomes, Places
  <2>3. QED
    BY <2>1, <2>2, <1>1, <1>5, NoStatesType DEF Jobs
<1>6. QED
  BY <1>2, <1>3, <1>4, <1>5

-----------------------------------------------------------------------------
(* Type correctness                                                        *)

\* A node's entry replaced by another of the declared shape.
LEMMA JobUpdate ==
    ASSUME JobOK, NEW n \in Node, NEW j \in Jobs, j.tries <= Retries[n],
           job' = [job EXCEPT ![n] = j]
    PROVE  JobOK'
BY DEF JobOK

\* A node that moves keeps all but the place and the outcome.
LEMMA MovedIs ==
    ASSUME NEW j \in Jobs, NEW at \in Places, NEW outcome \in Outcomes
    PROVE  /\ Moved(j, at, outcome) \in Jobs
           /\ Moved(j, at, outcome).at = at
           /\ Moved(j, at, outcome).outcome = outcome
           /\ Moved(j, at, outcome).decision = j.decision
           /\ Moved(j, at, outcome).tries = j.tries
BY DEF Jobs, Moved

\* A step that settles a node keeps the types.
LEMMA SettleType ==
    ASSUME JobOK, NEW n \in Node, NEW outcome \in Outcomes, Settle(n, outcome)
    PROVE  JobOK'
<1>1. job[n] \in Jobs /\ job[n].tries <= Retries[n]
  BY DEF JobOK
<1>2. Moved(job[n], "select", outcome) \in Jobs
      /\ Moved(job[n], "select", outcome).tries <= Retries[n]
  BY <1>1, MovedIs DEF Places
<1>3. job' = [job EXCEPT ![n] = Moved(job[n], "select", outcome)]
  BY <1>1 DEF Settle
<1>4. QED
  BY <1>2, <1>3, JobUpdate

\* A step of a node keeps the types.
LEMMA NodeStepType ==
    ASSUME TypeOK, NEW n \in Node, NodeStep(n)
    PROVE  TypeOK'
<1>1. /\ JobOK /\ RecOK /\ RestOK
      /\ job[n] \in Jobs /\ job[n].tries <= Retries[n]
  BY TypeParts DEF JobOK
<1> SUFFICES JobOK' /\ RecOK' /\ RestOK'
  BY TypeParts
<1>2. CASE Enter(n)
  <2>1. RecOK' /\ RestOK'
    BY <1>1, <1>2 DEF Enter, RecOK, RestOK, recordVars, requestVars, historyVars
  <2> DEFINE o == IF Kind[n] \in Steps THEN "started" ELSE "completed"
             j == Moved(job[n], "select", o)
  <2>2. j \in Jobs /\ j.tries <= Retries[n]
    <3>1. o \in Outcomes /\ "select" \in Places
      BY DEF Outcomes, Places
    <3>2. QED
      BY <1>1, <3>1, MovedIs
  <2>3. job' = [job EXCEPT ![n] = j]
    BY <1>2 DEF Enter
  <2>4. QED
    BY <1>1, <2>1, <2>2, <2>3, JobUpdate
<1>3. CASE Select(n)
  <2>1. RecOK' /\ RestOK'
    BY <1>1, <1>3 DEF Select, RecOK, RestOK, recordVars, requestVars, historyVars
  <2>2. CASE rec.exists
    <3> DEFINE j == [job[n] EXCEPT !.at = "update", !.seen = rec.steps]
    <3>1. j \in Jobs /\ j.tries <= Retries[n]
      <4>1. rec.steps \in [StepIds -> Status] /\ "update" \in Places
        BY <1>1 DEF RecOK, Records, Places
      <4>2. QED
        BY <1>1, <4>1 DEF Jobs
    <3>2. job' = [job EXCEPT ![n] = j]
      <4>1. job' = [job EXCEPT ![n] = IF rec.exists THEN j ELSE AfterUpdate(n)]
        BY <1>3 DEF Select
      <4>2. QED
        BY <4>1, <2>2
    <3>3. QED
      BY <1>1, <2>1, <3>1, <3>2, JobUpdate
  <2>3. CASE ~rec.exists
    <3>1. job' = [job EXCEPT ![n] = AfterUpdate(n)]
      BY <1>3, <2>3 DEF Select
    <3>2. QED
      BY <1>1, <2>1, <3>1, AfterUpdateIs, JobUpdate
  <2>4. QED
    BY <2>2, <2>3
<1>4. CASE Update(n)
  <2>1. RestOK'
    BY <1>1, <1>4 DEF Update, RestOK, requestVars, historyVars
  <2>2. RecOK'
    <3>1. job[n].outcome \in Outcomes /\ job[n].seen \in [StepIds -> Status]
      BY <1>1 DEF Jobs
    <3>2. rec.suspended \in StepIds \cup {None}
      BY <1>1 DEF RecOK, Records
    <3>3. QED
      BY <1>1, <1>4, <3>1, <3>2, PatchType DEF Update, RecOK, Records
  <2>3. job' = [job EXCEPT ![n] = AfterUpdate(n)]
    BY <1>4 DEF Update
  <2>4. QED
    BY <1>1, <2>1, <2>2, <2>3, AfterUpdateIs, JobUpdate
<1>5. CASE Work(n)
  <2>1. PICK outcome \in {"completed", "failed"} : Settle(n, outcome)
    BY <1>5 DEF Work
  <2>2. JobOK'
    BY <1>1, <2>1, SettleType DEF Outcomes
  <2>3. RecOK' /\ RestOK'
    BY <1>1, <1>5 DEF Work, RecOK, RestOK, recordVars, requestVars
  <2>4. QED
    BY <2>2, <2>3
<1>6. CASE RequestApproval(n)
  <2>1. JobOK'
    BY <1>1, <1>6, SettleType DEF RequestApproval, Outcomes
  <2>2. RecOK' /\ RestOK'
    BY <1>1, <1>6 DEF RequestApproval, RecOK, RestOK, recordVars, requestVars
  <2>3. QED
    BY <2>1, <2>2
<1>7. CASE Decide(n)
  <2>1. OutcomeOf(job[n].decision) \in Outcomes
    BY DEF OutcomeOf, Outcomes
  <2>2. JobOK'
    BY <1>1, <1>7, <2>1, SettleType DEF Decide
  <2>3. RecOK' /\ RestOK'
    BY <1>1, <1>7 DEF Decide, RecOK, RestOK, recordVars, requestVars, historyVars
  <2>4. QED
    BY <2>2, <2>3
<1>8. CASE Publish(n)
  <2>1. RecOK' /\ RestOK'
    BY <1>1, <1>8 DEF Publish, RecOK, RestOK, recordVars, requestVars, historyVars
  <2> DEFINE to == IF \E m \in Node : Kind[m] = "verify" THEN "learning" ELSE "completed"
             j == Moved(job[n], to, job[n].outcome)
  <2>2. j \in Jobs /\ j.tries <= Retries[n]
    <3>1. to \in Places /\ job[n].outcome \in Outcomes
      BY <1>1 DEF Places, Jobs
    <3>2. QED
      BY <1>1, <3>1, MovedIs
  <2>3. job' = [job EXCEPT ![n] = j]
    BY <1>8 DEF Publish
  <2>4. QED
    BY <1>1, <2>1, <2>2, <2>3, JobUpdate
<1>9. CASE Learn(n)
  <2>1. RecOK' /\ RestOK'
    BY <1>1, <1>9 DEF Learn, RecOK, RestOK, recordVars, requestVars, historyVars
  <2> DEFINE j == Moved(job[n], "completed", job[n].outcome)
  <2>2. j \in Jobs /\ j.tries <= Retries[n]
    <3>1. "completed" \in Places /\ job[n].outcome \in Outcomes
      BY <1>1 DEF Places, Jobs
    <3>2. QED
      BY <1>1, <3>1, MovedIs
  <2>3. job' = [job EXCEPT ![n] = j]
    BY <1>9 DEF Learn
  <2>4. QED
    BY <1>1, <2>1, <2>2, <2>3, JobUpdate
<1>10. QED
  BY <1>2, <1>3, <1>4, <1>5, <1>6, <1>7, <1>8, <1>9 DEF NodeStep

\* A resumed step keeps its tries.
LEMMA ResumedIs ==
    ASSUME NEW j \in Jobs, NEW decision \in Decisions
    PROVE  /\ Resumed(j, decision) \in Jobs
           /\ Resumed(j, decision).at = "select"
           /\ Resumed(j, decision).outcome = "started"
           /\ Resumed(j, decision).decision = decision
           /\ Resumed(j, decision).tries = j.tries
<1>1. "select" \in Places /\ "started" \in Outcomes
  BY DEF Places, Outcomes
<1>2. QED
  BY <1>1 DEF Jobs, Resumed

\* A resume request keeps the types.
LEMMA ResumeType ==
    ASSUME TypeOK, NEW h \in Handler, ResumeRequest(h)
    PROVE  TypeOK'
<1>1. JobOK /\ RecOK /\ RestOK
  BY TypeParts
<1>2. handler[h] \in Requests /\ handler \in [Handler -> Requests] /\ IdleHandler \in Requests
  BY <1>1, DefinitionAssumption DEF RestOK, IdleHandler, Requests, Decisions
<1> SUFFICES JobOK' /\ RecOK' /\ RestOK'
  BY TypeParts
<1>3. CASE ResumeCheck(h)
  <2>1. handler' \in [Handler -> Requests]
    <3>1. PICK decision \in {"approve", "deny"} :
             handler' = [handler EXCEPT ![h] = [at |-> "checked", step |-> rec.suspended,
                                                decision |-> decision, version |-> 0]]
      BY <1>3 DEF ResumeCheck
    <3>2. [at |-> "checked", step |-> rec.suspended, decision |-> decision,
           version |-> 0] \in Requests
      BY <1>1, <3>1, DefinitionAssumption DEF RecOK, Records, Requests, Decisions
    <3>3. QED
      BY <1>2, <3>1, <3>2
  <2>2. QED
    BY <1>1, <1>3, <2>1 DEF ResumeCheck, JobOK, RecOK, RestOK, recordVars, historyVars
<1>4. CASE ResumeLoad(h)
  <2>1. handler' \in [Handler -> Requests]
    <3>1. [handler[h] EXCEPT !.at = "loaded", !.version = wf.version] \in Requests
      <4>1. wf.version \in 0 .. MaxVersion
        BY <1>1, DefinitionAssumption DEF RestOK
      <4>2. QED
        BY <1>2, <4>1 DEF Requests
    <3>2. QED
      BY <1>2, <1>4, <3>1 DEF ResumeLoad
  <2>2. QED
    BY <1>1, <1>4, <2>1 DEF ResumeLoad, JobOK, RecOK, RestOK, recordVars, historyVars
<1>5. CASE EngineResume(h)
  <2>1. handler' \in [Handler -> Requests] /\ version' \in 0 .. MaxVersion
    BY <1>2, <1>5 DEF EngineResume, Requests
  <2>2. JobOK'
    <3>1. PICK n \in Approvals, again \in SUBSET Approvals :
             job' = [m \in Node |->
                        IF m = n THEN Resumed(job[m], handler[h].decision)
                        ELSE IF m \in again THEN Resumed(job[m], "none")
                        ELSE job[m]]
      BY <1>5 DEF EngineResume
    <3>2. handler[h].decision \in Decisions /\ "none" \in Decisions
      BY <1>2 DEF Requests, Decisions
    <3>3. QED
      BY <1>1, <3>1, <3>2, ResumedIs DEF JobOK
  <2>3. QED
    BY <1>1, <1>5, <2>1, <2>2 DEF EngineResume, RecOK, RestOK, recordVars, historyVars
<1>6. CASE ResumeThrows(h)
  <2>1. handler' \in [Handler -> Requests]
    BY <1>2, <1>6 DEF ResumeThrows
  <2>2. QED
    BY <1>1, <1>6, <2>1 DEF ResumeThrows, JobOK, RecOK, RestOK, recordVars, historyVars
<1>7. QED
  BY <1>3, <1>4, <1>5, <1>6 DEF ResumeRequest

\* The other steps, which leave the nodes alone.
LEMMA OutsideType ==
    ASSUME TypeOK,
           \/ StartRequest \/ EngineRest \/ EditWorkflow \/ DeleteRuns
           \/ DeleteWorkflow \/ Crash \/ UNCHANGED vars
    PROVE  TypeOK'
<1>1. JobOK /\ RecOK /\ RestOK
  BY TypeParts
<1> SUFFICES JobOK' /\ RecOK' /\ RestOK'
  BY TypeParts
<1>2. /\ NoRecord \in Records
      /\ [NoRecord EXCEPT !.exists = TRUE] \in Records
  BY NoStatesType DEF NoRecord, Records
<1>3. CASE StartCheck
  BY <1>1, <1>3, DefinitionAssumption
  DEF StartCheck, JobOK, RecOK, RestOK, recordVars, historyVars
<1>4. CASE CreateRecord
  BY <1>1, <1>2, <1>4 DEF CreateRecord, JobOK, RecOK, RestOK, historyVars
<1>5. CASE EngineStart
  BY <1>1, <1>5 DEF EngineStart, JobOK, RecOK, RestOK, recordVars, historyVars
<1>6. CASE StartThrows
  BY <1>1, <1>6 DEF StartThrows, JobOK, RecOK, RestOK, recordVars, historyVars
<1>7. CASE EngineRest
  <2>1. engine' \in {"suspended", "ended"}
    BY <1>7 DEF EngineRest
  <2>2. QED
    BY <1>1, <1>7, <2>1
    DEF EngineRest, JobOK, RecOK, RestOK, recordVars, requestVars, historyVars
<1>8. CASE EditWorkflow
  <2>1. wf' \in [exists : BOOLEAN, enabled : BOOLEAN, version : 1 .. MaxVersion]
    <3>1. PICK enabled \in BOOLEAN, next \in {wf.version, wf.version + 1} :
             /\ next <= MaxVersion
             /\ wf' = [wf EXCEPT !.enabled = enabled, !.version = next]
      BY <1>8 DEF EditWorkflow
    <3>2. wf.version \in 1 .. MaxVersion
      BY <1>1 DEF RestOK
    <3>3. next \in 1 .. MaxVersion
      BY <3>1, <3>2, DefinitionAssumption
    <3>4. QED
      BY <1>1, <3>1, <3>3 DEF RestOK
  <2>2. QED
    BY <1>1, <1>8, <2>1
    DEF EditWorkflow, JobOK, RecOK, RestOK, requestVars, historyVars
<1>9. CASE DeleteRuns
  BY <1>1, <1>2, <1>9 DEF DeleteRuns, JobOK, RecOK, RestOK, requestVars, historyVars
<1>10. CASE DeleteWorkflow
  <2>1. wf' \in [exists : BOOLEAN, enabled : BOOLEAN, version : 1 .. MaxVersion]
    BY <1>1, <1>10 DEF DeleteWorkflow, RestOK
  <2>2. QED
    BY <1>1, <1>10, <2>1
    DEF DeleteWorkflow, JobOK, RecOK, RestOK, requestVars, historyVars
<1>11. CASE Crash
  <2>1. handler' \in [Handler -> Requests]
    BY <1>11, DefinitionAssumption DEF Crash, IdleHandler, Requests, Decisions
  <2>2. /\ engine' \in {"none", "running", "suspended", "ended", "lost"}
        /\ starter' \in {"idle", "checked", "created", "done"}
    BY <1>1, <1>11 DEF Crash, RestOK
  <2>3. QED
    BY <1>1, <1>11, <2>1, <2>2 DEF Crash, JobOK, RecOK, RestOK, historyVars
<1>12. CASE UNCHANGED vars
  BY <1>1, <1>12 DEF vars, JobOK, RecOK, RestOK
<1>13. QED
  BY <1>3, <1>4, <1>5, <1>6, <1>7, <1>8, <1>9, <1>10, <1>11, <1>12 DEF StartRequest

\* The initial types.
LEMMA InitType ==
    ASSUME Init
    PROVE  TypeOK
<1>1. JobOK
  BY NoStatesType, DefinitionAssumption
  DEF Init, JobOK, Jobs, Idle, Places, Outcomes, Decisions
<1>2. RecOK
  BY NoStatesType DEF Init, RecOK, Records, NoRecord
<1>3. RestOK
  <2>1. 1 \in 1 .. MaxVersion /\ 0 \in 0 .. MaxVersion
    BY DefinitionAssumption
  <2>2. IdleHandler \in Requests
    BY <2>1 DEF IdleHandler, Requests, Decisions
  <2>3. QED
    BY <2>1, <2>2 DEF Init, RestOK
<1>4. QED
  BY <1>1, <1>2, <1>3, TypeParts

\* Type correctness of every run.
THEOREM TypeCorrect == Spec => []TypeOK
<1>1. Init => TypeOK
  BY InitType
<1>2. TypeOK /\ [Next]_vars => TypeOK'
  BY NodeStepType, ResumeType, OutsideType DEF Next
<1>3. QED
  BY <1>1, <1>2, PTL DEF Spec

-----------------------------------------------------------------------------
(* The inductive invariant                                                 *)

\* The approval is given, and its step on the way to completion.
Passed(a) ==
    \/ job[a].at \in {"publishing", "learning", "completed"}
    \/ job[a].at \in {"select", "update"} /\ job[a].outcome = "completed"

\* The denial is given, and its step failing, or repeated to fail again.
Refused(a) ==
    /\ job[a].decision = "deny"
    /\ \/ job[a].at \in {"working", "failed"}
       \/ job[a].at \in {"select", "update"} /\ job[a].outcome \in {"started", "failed"}

ApprovalInv ==
    \A a \in Approvals : /\ Passed(a) <=> <<"approved", a>> \in audit
                         /\ <<"denied", a>> \in audit => Refused(a)

EntryInv ==
    \A n \in Node : job[n].at # "idle" =>
        \A m \in Above[n] : job[m].at = "completed"

IInv == TypeOK /\ ApprovalInv /\ EntryInv

\* A step that leaves a node and the audit of it alone leaves its part of
\* ApprovalInv alone.
LEMMA OthersKept ==
    ASSUME ApprovalInv, NEW a \in Approvals, job'[a] = job[a],
           <<"approved", a>> \in audit' <=> <<"approved", a>> \in audit,
           <<"denied", a>> \in audit' <=> <<"denied", a>> \in audit
    PROVE  /\ Passed(a)' <=> <<"approved", a>> \in audit'
           /\ <<"denied", a>> \in audit' => Refused(a)'
BY DEF ApprovalInv, Passed, Refused

\* The steps of a node keep the approvals' part of the invariant.
LEMMA NodeStepApproval ==
    ASSUME TypeOK, ApprovalInv, NEW n \in Node, NodeStep(n)
    PROVE  ApprovalInv'
<1>1. JobOK
  BY TypeParts
<1>2. /\ job[n] \in Jobs /\ job[n].outcome \in Outcomes /\ job[n].at \in Places
      /\ job[n].decision \in Decisions
  BY <1>1 DEF JobOK, Jobs
<1> SUFFICES ASSUME NEW a \in Approvals
             PROVE  /\ Passed(a)' <=> <<"approved", a>> \in audit'
                    /\ <<"denied", a>> \in audit' => Refused(a)'
  BY DEF ApprovalInv
<1>3. a \in Node /\ Kind[a] = "approval"
  BY DEF Approvals
<1>4. CASE a # n
  <2>1. job'[a] = job[a]
    BY <1>1, <1>3, <1>4
    DEF NodeStep, Enter, Select, Update, Work, RequestApproval, Decide, Publish, Learn,
        Settle, JobOK
  <2>2. /\ <<"approved", a>> \in audit' <=> <<"approved", a>> \in audit
        /\ <<"denied", a>> \in audit' <=> <<"denied", a>> \in audit
    BY <1>4
    DEF NodeStep, Enter, Select, Update, Work, RequestApproval, Decide, Publish, Learn
  <2>3. QED
    BY <2>1, <2>2, OthersKept
<1>5. CASE a = n
  <2>1. /\ Passed(n) <=> <<"approved", n>> \in audit
        /\ <<"denied", n>> \in audit => Refused(n)
    BY <1>5 DEF ApprovalInv
  <2>2. Kind[n] = "approval" /\ Kind[n] \in Steps
    BY <1>3, <1>5 DEF Steps
  <2>3. CASE Enter(n)
    <3>1. job[n].at = "idle" /\ audit' = audit
      BY <2>3 DEF Enter, Ready, Running
    <3>2. job'[n] = Moved(job[n], "select", "started")
      BY <1>1, <2>2, <2>3 DEF Enter, JobOK
    <3>3. job'[n].at = "select" /\ job'[n].outcome = "started"
      BY <1>2, <3>2, MovedIs DEF Places, Outcomes
    <3>4. QED
      BY <1>5, <2>1, <3>1, <3>3 DEF Passed, Refused
  <2>4. CASE Select(n)
    <3>1. job[n].at = "select" /\ audit' = audit
      BY <2>4 DEF Select, Running
    <3>2. CASE rec.exists
      <4>1. job'[n] = [job[n] EXCEPT !.at = "update", !.seen = rec.steps]
        <5>1. job'[n] = IF rec.exists
                        THEN [job[n] EXCEPT !.at = "update", !.seen = rec.steps]
                        ELSE AfterUpdate(n)
          BY <1>1, <2>4 DEF Select, JobOK
        <5>2. QED
          BY <3>2, <5>1
      <4>2. /\ job'[n].at = "update" /\ job'[n].outcome = job[n].outcome
            /\ job'[n].decision = job[n].decision
        BY <1>2, <4>1 DEF Jobs
      <4>3. QED
        BY <1>5, <2>1, <3>1, <4>2 DEF Passed, Refused
    <3>3. CASE ~rec.exists
      <4>1. job'[n] = AfterUpdate(n)
        BY <1>1, <2>4, <3>3 DEF Select, JobOK
      <4>2. QED
        BY <1>1, <1>2, <1>5, <2>1, <2>2, <3>1, <4>1, AfterUpdateIs
        DEF Passed, Refused, Outcomes
    <3>4. QED
      BY <3>2, <3>3
  <2>5. CASE Update(n)
    <3>1. job[n].at = "update" /\ audit' = audit
      BY <2>5 DEF Update, Running
    <3>2. job'[n] = AfterUpdate(n)
      BY <1>1, <2>5 DEF Update, JobOK
    <3>3. QED
      BY <1>1, <1>2, <1>5, <2>1, <2>2, <3>1, <3>2, AfterUpdateIs
      DEF Passed, Refused, Outcomes
  <2>6. CASE Work(n)
    BY <2>2, <2>6 DEF Work
  <2>7. CASE RequestApproval(n)
    <3>1. /\ job[n].at = "working" /\ job[n].decision = "none"
          /\ <<"approved", n>> \notin audit' /\ <<"denied", n>> \notin audit'
      BY <2>1, <2>7 DEF RequestApproval, Running, Passed, Refused
    <3>2. job'[n] = Moved(job[n], "select", "suspended")
      BY <1>1, <2>7 DEF RequestApproval, Settle, JobOK
    <3>3. job'[n].at = "select" /\ job'[n].outcome = "suspended"
      BY <1>2, <3>2, MovedIs DEF Places, Outcomes
    <3>4. QED
      BY <1>5, <3>1, <3>3 DEF Passed
  <2>8. CASE Decide(n)
    <3>1. /\ job[n].at = "working" /\ job[n].decision \in {"approve", "deny"}
          /\ <<"approved", n>> \notin audit
      BY <1>2, <2>1, <2>8 DEF Decide, Running, Passed, Decisions
    <3>2. job'[n] = Moved(job[n], "select", OutcomeOf(job[n].decision))
      BY <1>1, <2>8 DEF Decide, Settle, JobOK
    <3>3. /\ job'[n].at = "select" /\ job'[n].outcome = OutcomeOf(job[n].decision)
          /\ job'[n].decision = job[n].decision
      <4>1. "select" \in Places /\ OutcomeOf(job[n].decision) \in Outcomes
        BY DEF Places, Outcomes, OutcomeOf
      <4>2. QED
        BY <1>2, <3>2, <4>1, MovedIs
    <3>4. CASE job[n].decision = "approve"
      <4>1. audit' = audit \cup {<<"approved", n>>} /\ job'[n].outcome = "completed"
        BY <2>8, <3>3, <3>4 DEF Decide, OutcomeOf
      <4>2. <<"denied", n>> \notin audit'
        BY <2>1, <3>4, <4>1 DEF Refused
      <4>3. QED
        BY <1>5, <3>3, <4>1, <4>2 DEF Passed
    <3>5. CASE job[n].decision = "deny"
      <4>1. audit' = audit \cup {<<"denied", n>>} /\ job'[n].outcome = "failed"
        BY <2>8, <3>3, <3>5 DEF Decide, OutcomeOf
      <4>2. <<"approved", n>> \notin audit'
        BY <3>1, <4>1
      <4>3. Refused(n)' /\ ~Passed(n)'
        BY <3>3, <3>5, <4>1 DEF Passed, Refused
      <4>4. QED
        BY <1>5, <4>2, <4>3
    <3>6. QED
      BY <3>1, <3>4, <3>5
  <2>9. CASE Publish(n) \/ Learn(n)
    <3>1. job[n].at \in {"publishing", "learning"} /\ audit' = audit
      BY <2>9 DEF Publish, Learn, Running
    <3>2. PICK to \in {"learning", "completed"} : job'[n] = Moved(job[n], to, job[n].outcome)
      BY <1>1, <2>9 DEF Publish, Learn, JobOK
    <3>3. job'[n].at \in {"learning", "completed"}
      <4>1. to \in Places
        BY <3>2 DEF Places
      <4>2. Moved(job[n], to, job[n].outcome).at = to
        BY <1>2, <4>1, MovedIs
      <4>3. QED
        BY <3>2, <4>2
    <3>4. <<"approved", n>> \in audit' /\ <<"denied", n>> \notin audit'
      BY <2>1, <3>1 DEF Passed, Refused
    <3>5. Passed(n)'
      BY <3>3 DEF Passed
    <3>6. QED
      BY <1>5, <3>4, <3>5
  <2>10. QED
    BY <2>3, <2>4, <2>5, <2>6, <2>7, <2>8, <2>9 DEF NodeStep
<1>6. QED
  BY <1>4, <1>5

\* A resume enters suspended approvals, which the audit holds neither approved
\* nor denied.
LEMMA ResumeKeeps ==
    ASSUME TypeOK, ApprovalInv, EntryInv, NEW h \in Handler, ResumeRequest(h)
    PROVE  ApprovalInv' /\ EntryInv'
<1>1. JobOK /\ RestOK
  BY TypeParts
<1>2. CASE ResumeCheck(h) \/ ResumeLoad(h) \/ ResumeThrows(h)
  <2>1. job' = job /\ audit' = audit
    BY <1>2 DEF ResumeCheck, ResumeLoad, ResumeThrows
  <2>2. QED
    BY <2>1 DEF ApprovalInv, EntryInv, Passed, Refused
<1>3. CASE EngineResume(h)
  <2>1. PICK n \in {m \in Approvals : StepId[m] = handler[h].step /\ EngineTakes(m)},
             again \in SUBSET {m \in Approvals : Suspended(m)} :
           job' = [m \in Node |->
                      IF m = n THEN Resumed(job[m], handler[h].decision)
                      ELSE IF m \in again THEN Resumed(job[m], "none")
                      ELSE job[m]]
    BY <1>3 DEF EngineResume
  <2>2. /\ job[n].at = "suspended"
        /\ \A m \in again : job[m].at = "suspended"
    BY <2>1 DEF EngineTakes, Suspended
  <2>3. /\ audit' = audit
        /\ handler[h].decision \in Decisions /\ "none" \in Decisions
    BY <1>1, <1>3 DEF EngineResume, RestOK, Requests, Decisions
  <2>4. ASSUME NEW m \in Node
        PROVE  \/ job'[m] = job[m]
               \/ /\ job[m].at = "suspended"
                  /\ job'[m].at = "select" /\ job'[m].outcome = "started"
    <3>1. job[m] \in Jobs
      BY <1>1 DEF JobOK
    <3>2. QED
      BY <2>1, <2>2, <2>3, <3>1, ResumedIs
  <2>5. ApprovalInv'
    <3> SUFFICES ASSUME NEW a \in Approvals
                 PROVE  /\ Passed(a)' <=> <<"approved", a>> \in audit'
                        /\ <<"denied", a>> \in audit' => Refused(a)'
      BY DEF ApprovalInv
    <3>1. CASE job'[a] = job[a]
      BY <2>3, <3>1, OthersKept
    <3>2. CASE /\ job[a].at = "suspended"
               /\ job'[a].at = "select" /\ job'[a].outcome = "started"
      <4>1. ~Passed(a) /\ ~Refused(a) /\ ~Passed(a)'
        BY <3>2 DEF Passed, Refused
      <4>2. QED
        BY <2>3, <4>1 DEF ApprovalInv
    <3>3. QED
      BY <2>4, <3>1, <3>2 DEF Approvals
  <2>6. EntryInv'
    BY <2>4, DefinitionAssumption DEF EntryInv
  <2>7. QED
    BY <2>5, <2>6
<1>4. QED
  BY <1>2, <1>3 DEF ResumeRequest

\* A node is entered behind completed nodes, and no step takes a node from
\* "completed".
LEMMA NodeStepEntry ==
    ASSUME TypeOK, EntryInv, NEW n \in Node, NodeStep(n)
    PROVE  EntryInv'
<1>1. JobOK
  BY TypeParts
<1>2. job[n].at # "completed"
  BY DEF NodeStep, Enter, Select, Update, Work, RequestApproval, Decide, Publish, Learn,
         Ready, Running
<1>3. \A m \in Node : m # n => job'[m] = job[m]
  BY <1>1
  DEF NodeStep, Enter, Select, Update, Work, RequestApproval, Decide, Publish, Learn,
      Settle, JobOK
<1>4. job[n].at = "idle" => \A m \in Above[n] : job[m].at = "completed"
  BY DEF NodeStep, Enter, Select, Update, Work, RequestApproval, Decide, Publish, Learn,
         Ready, Running
<1>5. \A m \in Above[n] : job[m].at = "completed"
  BY <1>4 DEF EntryInv
<1>6. \A k \in Node : Above[k] \in SUBSET Node
  BY DefinitionAssumption
<1>7. QED
  <2> SUFFICES ASSUME NEW k \in Node, job'[k].at # "idle", NEW m \in Above[k]
               PROVE  job'[m].at = "completed"
    BY DEF EntryInv
  <2>1. job[m].at = "completed"
    BY <1>3, <1>5 DEF EntryInv
  <2>2. QED
    BY <1>2, <1>3, <1>6, <2>1

\* The inductive invariant holds of every run.
THEOREM Invariant == Spec => []IInv
<1>1. Init => IInv
  <2> SUFFICES ASSUME Init PROVE ApprovalInv /\ EntryInv
    BY InitType DEF IInv
  <2>1. /\ audit = {}
        /\ \A n \in Node : job[n].at = "idle"
    BY DEF Init, Idle
  <2>2. QED
    BY <2>1 DEF ApprovalInv, EntryInv, Passed, Refused, Approvals
<1>2. IInv /\ [Next]_vars => IInv'
  <2> SUFFICES ASSUME IInv, [Next]_vars
               PROVE  TypeOK' /\ ApprovalInv' /\ EntryInv'
    BY DEF IInv
  <2> USE DEF IInv
  <2>1. ASSUME NEW n \in Node, NodeStep(n)
        PROVE  TypeOK' /\ ApprovalInv' /\ EntryInv'
    BY <2>1, NodeStepType, NodeStepApproval, NodeStepEntry
  <2>2. ASSUME NEW h \in Handler, ResumeRequest(h)
        PROVE  TypeOK' /\ ApprovalInv' /\ EntryInv'
    BY <2>2, ResumeType, ResumeKeeps
  <2>3. CASE \/ StartRequest \/ EngineRest \/ EditWorkflow \/ DeleteRuns
             \/ DeleteWorkflow \/ Crash \/ UNCHANGED vars
    <3>1. job' = job /\ audit' = audit
      BY <2>3
      DEF StartRequest, StartCheck, CreateRecord, EngineStart, StartThrows, EngineRest,
          EditWorkflow, DeleteRuns, DeleteWorkflow, Crash, vars
    <3>2. ApprovalInv' /\ EntryInv'
      BY <3>1 DEF ApprovalInv, EntryInv, Passed, Refused
    <3>3. QED
      BY <2>3, <3>2, OutsideType
  <2>4. QED
    BY <2>1, <2>2, <2>3 DEF Next
<1>3. QED
  BY <1>1, <1>2, PTL DEF Spec

-----------------------------------------------------------------------------
(* What follows                                                            *)

\* Nothing behind an approval is entered before the audit holds the approval,
\* whatever the definition.
THEOREM Gated == Spec => []ApprovalGates
<1>1. IInv => ApprovalGates
  BY DefinitionAssumption DEF IInv, ApprovalInv, EntryInv, Passed, ApprovalGates, Approvals
<1>2. QED
  BY <1>1, Invariant, PTL

\* An approval is decided one way, whatever the number of answers in progress.
THEOREM DecidedOnce == Spec => []OneDecision
<1>1. IInv => OneDecision
  <2> SUFFICES ASSUME IInv, NEW n \in Approvals
               PROVE  ~ (<<"approved", n>> \in audit /\ <<"denied", n>> \in audit)
    BY DEF OneDecision
  <2>1. ~ (Passed(n) /\ Refused(n))
    BY DEF Passed, Refused
  <2>2. QED
    BY <2>1 DEF IInv, ApprovalInv
<1>2. QED
  BY <1>1, Invariant, PTL
=============================================================================
