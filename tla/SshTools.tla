------------------------------- MODULE SshTools -------------------------------
(***************************************************************************)
(* Commands on SSH hosts: the two tools of the agent and their approval,   *)
(* the audited execution both end in (tools/ssh-tools.ts), the decision of *)
(* the policy engine (security/policy-engine.ts), the connection test and  *)
(* the administrators' routes (server.ts) over hosts and policies          *)
(* (ssh/repository.ts), and the simulated host (debug/simulation.ts).      *)
(*                                                                         *)
(* Every await lets the other requests run: a call reads the simulation,   *)
(* the policy and the host one after the other, and an administrator may   *)
(* change each in between.  A database call may throw, and a write that    *)
(* throws may still have taken effect (module WasmSqlite).  The agent's    *)
(* engine (Mastra) is external: it asks the tool whether a call requires   *)
(* approval, keeps a suspended call in PostgreSQL, and executes it once    *)
(* the user has approved.                                                  *)
(***************************************************************************)
EXTENDS SshExec, Sequences

CONSTANTS
    Host,        \* the hosts in the database
    Sim,         \* SIMULATED_SSH_HOST_ID
    Inspection,  \* SSH_READONLY_COMMANDS; each stands for its own text
    Configured,  \* ids of configured commands
    Text,        \* the texts a configured command may have
    Denied,      \* texts analyzeCommandRisk denies
    SimText,     \* SIMULATED_SSH_COMMANDS, from Configured
    ConnectionTest,
    None,
    MaxEdit      \* bound on the administrators' requests

ASSUME ToolAssumption ==
    /\ Sim \notin Host
    /\ Denied \subseteq Text
    /\ (Inspection \cup {ConnectionTest}) \cap Denied = {}
    /\ None \notin Text \cup Inspection \cup {ConnectionTest}
    /\ SimText \in [Configured -> (Text \ Denied) \cup {None}]
    /\ MaxEdit \in Nat

VARIABLES
    sim,       \* simulated_ssh_enabled of the organisation
    policy,    \* the rows of the two tools
    host,      \* the host rows
    editor,    \* an update of a host, between its reading and its writing
    edits,     \* how many requests of administrators there have been
    call,      \* the tool calls and connection tests
    trail,     \* each call's events in the security audit
    sshLog,    \* each call's rows in the SSH audit
    evidence   \* whether its result was recorded as evidence

adminVars == <<sim, policy, host, editor, edits>>
auditVars == <<trail, sshLog, evidence>>
vars == <<execVars, adminVars, call, auditVars>>

AgentTool == {"inspect", "command"}
Command(t) ==
    CASE t = "inspect" -> Inspection
      [] t = "command" -> Configured
      [] t = "test" -> {ConnectionTest}
CommandId == Inspection \cup Configured \cup {ConnectionTest}
Texts == Text \cup Inspection \cup {ConnectionTest, None}

\* A policy offers a text for each id, None for an id it does not list and for
\* every id while it is disabled: a call is refused in both cases alike.  What an
\* inspection policy offers for an id is its built-in text.
InspectPolicy ==
    {p \in [approval : BOOLEAN, offers : [Inspection -> Texts]] :
        \A id \in Inspection : p.offers[id] \in {id, None}}
CommandPolicy == [approval : {TRUE}, offers : [Configured -> Text \cup {None}]]

Row == [status : {"absent", "present", "deleted", "simulated"},
        enabled : BOOLEAN, root : BOOLEAN]
Absent == [status |-> "absent", enabled |-> FALSE, root |-> FALSE]
Managed(enabled) == [status |-> "present", enabled |-> enabled, root |-> FALSE]
SimulatedHost == [status |-> "simulated", enabled |-> TRUE, root |-> FALSE]

Approving == {"askSim", "askPolicy"}
Reading == {"readPolicy", "readSim", "readSimHost", "readHost"}
Auditing == {"evaluate", "decide", "start", "finish", "evidence", "catchFinish"}
Executing == Approving \cup Reading \cup Auditing \cup {"execute", "running", "log", "catchLog"}
Ended == {"returned", "failed", "declined", "dead"}
Phase == {"idle", "waiting"} \cup Executing \cup Ended

Event == {"evaluated", "denied", "enforced", "allowed", "started", "completed", "failed"}

NoCall == [pc |-> "idle", tool |-> "test", host |-> Sim, id |-> ConnectionTest,
           approved |-> FALSE, granted |-> FALSE, text |-> None,
           row |-> Absent, gone |-> FALSE, lost |-> FALSE]

\* authorizeSSHExecution's decision.
Decision(t, row, text) ==
    IF row.root \/ text \in Denied THEN "denied"
    ELSE IF row.status = "simulated" \/ t = "command" THEN "enforced"
    ELSE "allowed"

\* A database in use.  Its rows may be older than the rules they would be written
\* under now, for texts and for user names; any of them may be edited.
Init ==
    /\ ExecInit
    /\ sim \in BOOLEAN
    /\ policy \in [inspect : InspectPolicy, command : CommandPolicy]
    /\ host \in [Host -> {Absent} \cup [status : {"present"}, enabled : {TRUE},
                                        root : BOOLEAN]]
    /\ editor = None
    /\ edits = 0
    /\ call = [c \in Call |-> NoCall]
    /\ trail = [c \in Call |-> <<>>]
    /\ sshLog = [c \in Call |-> <<>>]
    /\ evidence = [c \in Call |-> FALSE]

At(c, pc) == call[c].pc = pc
Goto(c, pc) == call' = [call EXCEPT ![c].pc = pc]

-----------------------------------------------------------------------------
\* The agent calls a tool, or an administrator tests a connection.
Request(c, t, h, id) ==
    /\ At(c, "idle")
    /\ call' = [call EXCEPT ![c] = [NoCall EXCEPT
          !.pc = CASE t = "inspect" -> "askSim"
                   [] t = "command" -> "waiting"
                   [] t = "test" -> "readSimHost",
          !.tool = t, !.host = h, !.id = id,
          !.text = IF t = "command" THEN None ELSE id,
          !.gone = h \in Host /\ host[h].status = "deleted"]]
    /\ UNCHANGED <<execVars, adminVars, auditVars>>

\* mutant: the simulation exempts every host
AnySimulated(c) == sim

IsSimulated(c) == call[c].host = Sim /\ sim

\* requireApproval of sshReadonlyInspect.
AskSim(c) ==
    /\ At(c, "askSim")
    /\ Goto(c, IF IsSimulated(c) THEN "waiting" ELSE "askPolicy")
    /\ UNCHANGED <<execVars, adminVars, auditVars>>

AskPolicy(c) ==
    /\ At(c, "askPolicy")
    /\ Goto(c, IF policy.inspect.approval THEN "waiting" ELSE "readPolicy")
    /\ UNCHANGED <<execVars, adminVars, auditVars>>

Approve(c) ==
    /\ At(c, "waiting")
    /\ call' = [call EXCEPT ![c].pc = "readPolicy", ![c].approved = TRUE]
    /\ UNCHANGED <<execVars, adminVars, auditVars>>

Decline(c) ==
    /\ At(c, "waiting")
    /\ Goto(c, "declined")
    /\ UNCHANGED <<execVars, adminVars, auditVars>>

\* execute of the tools: the policy, then whether the host is the simulated one.
ReadPolicy(c) ==
    /\ At(c, "readPolicy")
    /\ LET offer == policy[call[c].tool].offers[call[c].id]
       IN call' = [call EXCEPT ![c].pc = "readSim",
                               ![c].granted = offer # None,
                               ![c].text = offer]
    /\ UNCHANGED <<execVars, adminVars, auditVars>>

ReadSim(c) ==
    /\ At(c, "readSim")
    /\ LET text == IF ~IsSimulated(c) THEN call[c].text
                   ELSE IF call[c].tool = "inspect" THEN call[c].id
                   ELSE SimText[call[c].id]
       IN call' = [call EXCEPT ![c].pc = IF text # None THEN "readSimHost" ELSE "failed",
                               ![c].text = text]
    /\ UNCHANGED <<execVars, adminVars, auditVars>>

\* getSSHHostWithSecret: the simulated host if it is asked for, else the row.
\* The tools go on with an enabled host, the connection test with any.
Found(c, row) ==
    call' = [call EXCEPT
        ![c].row = row,
        ![c].pc = IF call[c].tool = "test" THEN "execute"
                  ELSE IF row.enabled THEN "evaluate" ELSE "failed"]

ReadSimHost(c) ==
    /\ At(c, "readSimHost")
    /\ \/ IsSimulated(c) /\ Found(c, SimulatedHost)
       \/ ~IsSimulated(c) /\ Goto(c, "readHost")
    /\ UNCHANGED <<execVars, adminVars, auditVars>>

ReadHost(c) ==
    /\ At(c, "readHost")
    /\ IF call[c].host \in Host /\ host[call[c].host].status = "present"
       THEN Found(c, host[call[c].host])
       ELSE Goto(c, "failed")
    /\ UNCHANGED <<execVars, adminVars, auditVars>>

ReadThrows(c) ==
    /\ call[c].pc \in Approving \cup Reading
    /\ Goto(c, "failed")
    /\ UNCHANGED <<execVars, adminVars, auditVars>>

-----------------------------------------------------------------------------
\* An INSERT in one of the audits, which is answered or throws.
Insert(log, c, entry) == log' = [log EXCEPT ![c] = Append(@, entry)]
InsertThrows(log, c, entry) == UNCHANGED log \/ Insert(log, c, entry)

\* addSecurityAuditEvent before the execution, where a throw ends the call.
Evaluate(c) ==
    /\ At(c, "evaluate")
    /\ \/ Insert(trail, c, "evaluated") /\ Goto(c, "decide")
       \/ InsertThrows(trail, c, "evaluated") /\ Goto(c, "failed")
    /\ UNCHANGED <<execVars, adminVars, sshLog, evidence>>

Decide(c) ==
    /\ At(c, "decide")
    /\ LET decision == Decision(call[c].tool, call[c].row, call[c].text) IN
       \/ /\ Insert(trail, c, decision)
          /\ Goto(c, IF decision = "denied" THEN "failed" ELSE "start")
       \/ InsertThrows(trail, c, decision) /\ Goto(c, "failed")
    /\ UNCHANGED <<execVars, adminVars, sshLog, evidence>>

\* mutant: an audit that cannot be written does not stop the execution
LenientStart(c) ==
    /\ At(c, "start")
    /\ Goto(c, "execute")
    /\ InsertThrows(trail, c, "started")
    /\ UNCHANGED <<execVars, adminVars, sshLog, evidence>>

Start(c) ==
    /\ At(c, "start")
    /\ \/ Insert(trail, c, "started") /\ Goto(c, "execute")
       \/ InsertThrows(trail, c, "started") /\ Goto(c, "failed")
    /\ UNCHANGED <<execVars, adminVars, sshLog, evidence>>

Execute(c) ==
    /\ At(c, "execute")
    /\ Goto(c, "running")
    /\ IF call[c].row.status = "simulated" THEN Simulate(c) ELSE Connect(c)
    /\ UNCHANGED <<adminVars, auditVars>>

\* mutant: the call is not inside the try block
UncaughtSettled(c) ==
    /\ At(c, "running")
    /\ conn[c].outcome # "pending"
    /\ Goto(c, IF conn[c].outcome = "error" THEN "failed" ELSE "log")
    /\ UNCHANGED <<execVars, adminVars, auditVars>>

\* The await of the command's promise.
Settled(c) ==
    /\ At(c, "running")
    /\ conn[c].outcome # "pending"
    /\ Goto(c, IF conn[c].outcome = "error" THEN "catchLog" ELSE "log")
    /\ UNCHANGED <<execVars, adminVars, auditVars>>

\* mutant: the outcome instead of the status
OutcomeLog(c) ==
    /\ At(c, "log")
    /\ Insert(sshLog, c, conn[c].outcome)
    /\ Goto(c, IF call[c].tool = "test" THEN "returned" ELSE "finish")
    /\ UNCHANGED <<execVars, adminVars, trail, evidence>>

\* addSSHAudit of the result.  The connection test also compares the output.
Log(c) ==
    /\ At(c, "log")
    /\ \E status \in {"success", "failed"} :
          /\ status = "success" => conn[c].outcome = "exit0"
          /\ status = "failed" => conn[c].outcome # "exit0" \/ call[c].tool = "test"
          /\ \/ /\ Insert(sshLog, c, status)
                /\ Goto(c, IF call[c].tool = "test" THEN "returned" ELSE "finish")
             \/ InsertThrows(sshLog, c, status) /\ Goto(c, "catchLog")
    /\ UNCHANGED <<execVars, adminVars, trail, evidence>>

FinishEvent(c) ==
    /\ At(c, "finish")
    /\ LET event == IF conn[c].outcome = "exit0" THEN "completed" ELSE "failed" IN
       \/ Insert(trail, c, event) /\ Goto(c, "evidence")
       \/ InsertThrows(trail, c, event) /\ Goto(c, "catchLog")
    /\ UNCHANGED <<execVars, adminVars, sshLog, evidence>>

\* recordEvidence, whose errors are logged, and the return.
RecordEvidence(c) ==
    /\ At(c, "evidence")
    /\ evidence' \in {evidence, [evidence EXCEPT ![c] = TRUE]}
    /\ Goto(c, "returned")
    /\ UNCHANGED <<execVars, adminVars, trail, sshLog>>

\* The catch clause: both audits, and the error goes to the caller.
CatchThrows(c) == call' = [call EXCEPT ![c].pc = "failed", ![c].lost = TRUE]

CatchLog(c) ==
    /\ At(c, "catchLog")
    /\ \/ /\ Insert(sshLog, c, "failed")
          /\ Goto(c, IF call[c].tool = "test" THEN "failed" ELSE "catchFinish")
       \/ InsertThrows(sshLog, c, "failed") /\ CatchThrows(c)
    /\ UNCHANGED <<execVars, adminVars, trail, evidence>>

CatchFinish(c) ==
    /\ At(c, "catchFinish")
    /\ \/ Insert(trail, c, "failed") /\ Goto(c, "failed")
       \/ InsertThrows(trail, c, "failed") /\ CatchThrows(c)
    /\ UNCHANGED <<execVars, adminVars, sshLog, evidence>>

Proceed(c) ==
    \/ AskSim(c) \/ AskPolicy(c) \/ ReadPolicy(c) \/ ReadSim(c) \/ ReadSimHost(c)
    \/ ReadHost(c) \/ ReadThrows(c) \/ Evaluate(c) \/ Decide(c) \/ Start(c)
    \/ Execute(c) \/ Settled(c) \/ Log(c) \/ FinishEvent(c) \/ RecordEvidence(c)
    \/ CatchLog(c) \/ CatchFinish(c)

\* The process dies; a call that waits for its approval is in PostgreSQL.
Die ==
    /\ \E c \in Call : call[c].pc \in Executing
    /\ call' = [c \in Call |-> IF call[c].pc \in Executing
                               THEN [call[c] EXCEPT !.pc = "dead"] ELSE call[c]]
    /\ conn' = [c \in Call |-> IF call[c].pc \in Executing THEN NoConnection
                               ELSE [conn[c] EXCEPT !.client = "none"]]
    /\ editor' = None
    /\ UNCHANGED <<remote, sim, policy, host, edits, auditVars>>

-----------------------------------------------------------------------------
Edit == edits < MaxEdit /\ edits' = edits + 1

UpdateSimulation ==
    /\ Edit
    /\ sim' = ~sim
    /\ UNCHANGED <<execVars, policy, host, editor, call, auditVars>>

\* sshCommandSchema refuses a text the analyser denies, and updateSSHToolPolicy
\* forces requireApproval for configured commands.
UpdatePolicy ==
    /\ Edit
    /\ \/ \E p \in InspectPolicy : policy' = [policy EXCEPT !.inspect = p]
       \/ \E p \in CommandPolicy :
             /\ \A id \in Configured : p.offers[id] \notin Denied
             /\ policy' = [policy EXCEPT !.command = p]
    /\ UNCHANGED <<execVars, sim, host, editor, call, auditVars>>

CreateHost(h) ==
    /\ Edit
    /\ host[h].status = "absent"
    /\ \E enabled \in BOOLEAN : host' = [host EXCEPT ![h] = Managed(enabled)]
    /\ UNCHANGED <<execVars, sim, policy, editor, call, auditVars>>

\* updateSSHHost reads the row for its secret, and updates the row by its id.
ReadForUpdate(h) ==
    /\ Edit
    /\ editor = None
    /\ host[h].status = "present"
    /\ editor' = h
    /\ UNCHANGED <<execVars, sim, policy, host, call, auditVars>>

\* mutant: INSERT OR REPLACE instead of UPDATE
UpsertHost(h) ==
    /\ editor = h
    /\ editor' = None
    /\ \E enabled \in BOOLEAN : host' = [host EXCEPT ![h] = Managed(enabled)]
    /\ UNCHANGED <<execVars, sim, policy, edits, call, auditVars>>

UpdateHost(h) ==
    /\ editor = h
    /\ editor' = None
    /\ IF host[h].status = "present"
       THEN \E enabled \in BOOLEAN : host' = [host EXCEPT ![h] = Managed(enabled)]
       ELSE UNCHANGED host
    /\ UNCHANGED <<execVars, sim, policy, edits, call, auditVars>>

DeleteHost(h) ==
    /\ Edit
    /\ host[h].status = "present"
    /\ host' = [host EXCEPT ![h] = [Absent EXCEPT !.status = "deleted"]]
    /\ UNCHANGED <<execVars, sim, policy, editor, call, auditVars>>

Administer ==
    \/ UpdateSimulation
    \/ UpdatePolicy
    \/ \E h \in Host : CreateHost(h) \/ ReadForUpdate(h) \/ UpdateHost(h) \/ DeleteHost(h)

Exec(c) == Callback(c) /\ UNCHANGED <<adminVars, call, auditVars>>

Next ==
    \/ \E c \in Call :
          \/ \E t \in AgentTool \cup {"test"}, h \in Host \cup {Sim} :
                \E id \in Command(t) : Request(c, t, h, id)
          \/ Approve(c)
          \/ Decline(c)
          \/ Proceed(c)
          \/ Exec(c)
    \/ Die
    \/ Administer

Spec == Init /\ [][Next]_vars

\* Every database call is answered (EveryCallAnswered of WasmSqlite), and
\* timers fire.  Nothing is assumed of hosts, connections, users.
Fairness ==
    \A c \in Call :
        /\ WF_vars(Proceed(c))
        /\ WF_vars(TimeLimit(c) /\ UNCHANGED <<adminVars, call, auditVars>>)
FairSpec == Spec /\ Fairness

-----------------------------------------------------------------------------
Status == {"success", "failed"}

TypeOK ==
    /\ ExecTypeOK
    /\ sim \in BOOLEAN
    /\ policy \in [inspect : InspectPolicy, command : CommandPolicy]
    /\ host \in [Host -> Row]
    /\ editor \in Host \cup {None}
    /\ edits \in 0 .. MaxEdit
    /\ call \in [Call -> [pc : Phase, tool : AgentTool \cup {"test"}, host : Host \cup {Sim},
                          id : CommandId, approved : BOOLEAN, granted : BOOLEAN,
                          text : Texts, row : Row, gone : BOOLEAN, lost : BOOLEAN]]
    /\ trail \in [Call -> Seq(Event)]
    /\ sshLog \in [Call -> Seq(Status)]
    /\ evidence \in [Call -> BOOLEAN]

\* A host was asked to run the call's command.
OnHost(c) == remote[c] \notin {"none", "simulated"}

\* Whatever is switched, edited or simulated between the reads of a call, a
\* tool runs a command on a real host only with the grant of the policy it read,
\* never under the exemption of the simulated host, on an enabled host, not as
\* root, with a text that is not denied, and a configured command only with the
\* user's approval (auditedExecution and both execute functions, ssh-tools.ts).
RunsAuthorised ==
    \A c \in Call : (OnHost(c) /\ call[c].tool # "test") =>
        /\ call[c].granted
        /\ call[c].host \in Host
        /\ call[c].row.enabled /\ ~call[c].row.root
        /\ call[c].text \notin Denied \cup {None}
        /\ call[c].tool = "command" => call[c].approved

\* A call made after a host was deleted never reaches it, whatever update of
\* the host was under way (updateSSHHost and deleteSSHHost, ssh/repository.ts).
DeletedNeverReached == \A c \in Call : call[c].gone => ~OnHost(c)

\* A success in either audit is a command the host, or the simulator, ended
\* with exit code 0, although the call may report an error after it: no time
\* limit, lost connection or late callback is recorded as one.
SuccessIsTrue ==
    \A c \in Call :
        ("success" \in {sshLog[c][i] : i \in DOMAIN sshLog[c]}
            \/ "completed" \in {trail[c][i] : i \in DOMAIN trail[c]})
        => remote[c] \in {"zero", "simulated"}

EndsWith(s, e) == s # <<>> /\ s[Len(s)] = e

\* Both audits hold the result of the command, and nothing after it.
Agrees(c) ==
    LET event == IF conn[c].outcome = "exit0" THEN "completed" ELSE "failed"
        status == IF conn[c].outcome = "exit0" THEN "success" ELSE "failed"
    IN /\ sshLog[c] = <<status>>
       /\ Len(trail[c]) = 4 /\ trail[c][3] = "started" /\ trail[c][4] = event

\* The result a tool returns is the one both audits hold, once; and a call that
\* fails after its execution began, whatever became of it, is last recorded as
\* failed in both, unless a write of the catch clause threw as well
\* (auditedExecution).
EndedIsAudited ==
    \A c \in Call : call[c].tool # "test" =>
        /\ At(c, "returned") => Agrees(c)
        /\ (At(c, "failed") /\ conn[c].outcome # "pending" /\ ~call[c].lost) =>
               EndsWith(sshLog[c], "failed") /\ EndsWith(trail[c], "failed")
        /\ evidence[c] => At(c, "returned")

\* A call that is executed ends, whatever the host and the connection do: the
\* time limit settles what nothing else does (the timer of executeSSHCommand).
CallsEnd ==
    \A c \in Call : (call[c].pc \in Executing) ~> (call[c].pc \in Ended \cup {"waiting"})

StageOf(s) ==
    CASE s = <<>> -> "new"
      [] EndsWith(s, "evaluated") -> "evaluated"
      [] EndsWith(s, "denied") -> "denied"
      [] EndsWith(s, "enforced") \/ EndsWith(s, "allowed") -> "cleared"
      [] EndsWith(s, "started") -> "started"
      [] OTHER -> "ended"

Audit == INSTANCE CommandAudit WITH
    stage <- [c \in Call |-> StageOf(trail[c])],
    asked <- [c \in Call |-> remote[c] # "none" /\ call[c].tool # "test"]

\* The calls keep the order of the security audit, and a command is asked of a
\* host only while its start is recorded and its end is not.
ImplementsAudit == Audit!Spec
=============================================================================
