---------------------------- MODULE SshToolsProofs ----------------------------
(***************************************************************************)
(* What holds of SSH commands for every set of calls, hosts and commands,  *)
(* every output limit and every number of edits.                           *)
(***************************************************************************)
EXTENDS SshTools, SequenceTheorems, TLAPS

-----------------------------------------------------------------------------
(* The execution of a command                                              *)

Output == [Stream -> Nat]
Connection == [client : Client, outcome : Outcome, kept : Output, seen : Output,
               truncated : BOOLEAN]

\* A type of an execution's record, as ExecTypeOK states it.
LEMMA ExecTypes == ExecTypeOK <=> conn \in [Call -> Connection] /\ remote \in [Call -> Remote]
BY DEF ExecTypeOK, Connection, Output

\* The sum of two streams is a number, and each chunk adds to one of them.
LEMMA TotalGrows ==
    ASSUME NEW o \in Output, NEW s \in Stream, NEW n \in Nat
    PROVE  /\ Total(o) \in Nat
           /\ [o EXCEPT ![s] = @ + n] \in Output
           /\ Total([o EXCEPT ![s] = @ + n]) = Total(o) + n
BY DEF Output, Total, Stream

\* Accounted is what OutputAccounted says of one execution.
Accounted(r) ==
    /\ Total(r.kept) = (IF Total(r.seen) <= Limit THEN Total(r.seen) ELSE Limit)
    /\ \A s \in Stream : r.kept[s] <= r.seen[s]
    /\ r.truncated <=> Total(r.seen) > Limit

\* What append captures of a chunk is at most the chunk.
LEMMA CapturedNat ==
    ASSUME NEW r \in Connection, NEW n \in Nat
    PROVE  Remaining(r) \in Nat /\ Captured(r, n) \in 0 .. n
<1>1. Total(r.kept) \in Nat
  BY DEF Connection, Output, Total, Stream
<1>2. Limit \in Nat
  BY OutputAssumption
<1>3. QED
  BY <1>1, <1>2 DEF Remaining, Captured

\* append keeps the account.
LEMMA CaptureAccounts ==
    ASSUME NEW r \in Connection, NEW s \in Stream, NEW n \in Chunk, Accounted(r)
    PROVE  Capture(r, s, n) \in Connection /\ Accounted(Capture(r, s, n))
<1> DEFINE k == Captured(r, n)
           kept == [r.kept EXCEPT ![s] = @ + k]
           seen == [r.seen EXCEPT ![s] = @ + n]
           t == Capture(r, s, n)
<1>1. n \in Nat /\ n > 0 /\ Limit \in Nat
  BY OutputAssumption
<1>2. k \in Nat /\ k <= n
  BY <1>1, CapturedNat
<1>3. r.kept \in Output /\ r.seen \in Output /\ r.truncated \in BOOLEAN
  BY DEF Connection
<1>4. /\ t.kept = kept /\ t.seen = seen /\ t.truncated = (r.truncated \/ k < n)
      /\ t = [r EXCEPT !.kept = kept, !.seen = seen, !.truncated = r.truncated \/ k < n]
  BY DEF Capture, Connection
<1>5. /\ Total(kept) = Total(r.kept) + k /\ Total(seen) = Total(r.seen) + n
      /\ kept \in Output /\ seen \in Output
      /\ Total(r.kept) \in Nat /\ Total(r.seen) \in Nat
  BY <1>1, <1>2, <1>3, TotalGrows
<1>6. t \in Connection
  BY <1>3, <1>4, <1>5 DEF Connection
<1>7. Total(kept) = (IF Total(seen) <= Limit THEN Total(seen) ELSE Limit)
  BY <1>1, <1>2, <1>5 DEF Accounted, Captured, Remaining
<1>8. (r.truncated \/ k < n) <=> Total(seen) > Limit
  BY <1>1, <1>2, <1>5 DEF Accounted, Captured, Remaining
<1>9. \A x \in Stream : kept[x] <= seen[x]
  <2> SUFFICES ASSUME NEW x \in Stream PROVE kept[x] <= seen[x]
    OBVIOUS
  <2>1. r.kept[x] \in Nat /\ r.seen[x] \in Nat /\ r.kept[x] <= r.seen[x]
    BY <1>3 DEF Output, Accounted
  <2>2. /\ kept[x] = (IF x = s THEN r.kept[x] + k ELSE r.kept[x])
        /\ seen[x] = (IF x = s THEN r.seen[x] + n ELSE r.seen[x])
    BY <1>3 DEF Output
  <2>3. QED
    BY <1>1, <1>2, <2>1, <2>2
<1>10. QED
  BY <1>4, <1>6, <1>7, <1>8, <1>9 DEF Accounted

\* A connection's record after finish.
LEMMA FinishType ==
    ASSUME NEW r \in Connection, NEW outcome \in Outcome
    PROVE  /\ Finish(r, outcome) \in Connection
           /\ Finish(r, outcome).client = r.client
           /\ Finish(r, outcome).kept = r.kept
           /\ Finish(r, outcome).seen = r.seen
           /\ Finish(r, outcome).truncated = r.truncated
           /\ r.outcome # "pending" => Finish(r, outcome).outcome = r.outcome
           /\ r.outcome = "pending" => Finish(r, outcome).outcome = outcome
BY DEF Finish, Connection

\* What a callback may do to an execution, r and its command, m.
Works(r, m, r2, m2) ==
    /\ Accounted(r) => Accounted(r2)
    /\ m2 # m => \/ m \in {"asked", "running"} /\ m2 \notin {"none", "simulated"}
                 \/ m2 = "asked" /\ r.client = "connecting" /\ r.outcome = "pending"
    /\ m2 # m /\ m = "none" => r2.client # "connecting"
    /\ r.client = "none" => r2.client = "none" /\ r2.outcome = r.outcome
    /\ r2.client = "connecting" => r.client = "connecting"
    /\ r.outcome # "pending" => r2.outcome = r.outcome
    /\ r2.outcome = "exit0" => r.outcome = "exit0" \/ m = "zero"
    /\ m \in {"zero", "simulated"} /\ r.client # "connecting" => m2 = m

\* A callback changes one execution, as Works says.
LEMMA CallbackWorks ==
    ASSUME ExecTypeOK, NEW c \in Call, Callback(c)
    PROVE  \E r \in Connection, m \in Remote :
              /\ conn' = [conn EXCEPT ![c] = r]
              /\ remote' = [remote EXCEPT ![c] = m]
              /\ Works(conn[c], remote[c], r, m)
<1> DEFINE Goal == \E r \in Connection, m \in Remote :
                      /\ conn' = [conn EXCEPT ![c] = r]
                      /\ remote' = [remote EXCEPT ![c] = m]
                      /\ Works(conn[c], remote[c], r, m)
<1>0. /\ conn \in [Call -> Connection] /\ remote \in [Call -> Remote]
      /\ conn[c] \in Connection /\ remote[c] \in Remote
  BY ExecTypes
<1>a. remote = [remote EXCEPT ![c] = remote[c]] /\ conn = [conn EXCEPT ![c] = conn[c]]
  BY <1>0
<1>b. \A x \in Client : [conn[c] EXCEPT !.client = x] \in Connection
  BY <1>0 DEF Connection
<1>c. {"opening", "streaming", "closed"} \subseteq Client /\ "asked" \in Remote
      /\ {"exit0", "exitOther", "error"} \subseteq Outcome
  BY DEF Client, Remote, Outcome
<1>1. CASE Ready(c)
  <2> DEFINE r == [conn[c] EXCEPT !.client = "opening"]
  <2>1. conn' = [conn EXCEPT ![c] = r] /\ remote' = [remote EXCEPT ![c] = "asked"]
    BY <1>1, <1>0 DEF Ready
  <2>2. r \in Connection /\ r.client = "opening" /\ r.outcome = conn[c].outcome
        /\ r.kept = conn[c].kept /\ r.seen = conn[c].seen /\ r.truncated = conn[c].truncated
    BY <1>0, <1>b, <1>c DEF Connection
  <2>3. Works(conn[c], remote[c], r, "asked")
    BY <1>1, <2>2 DEF Works, Ready, Accounted
  <2>4. QED
    BY <1>c, <2>1, <2>2, <2>3
<1>2. CASE Opened(c)
  <2> DEFINE r == [conn[c] EXCEPT !.client = "streaming"]
  <2>1. conn' = [conn EXCEPT ![c] = r] /\ remote' = [remote EXCEPT ![c] = remote[c]]
    BY <1>2, <1>0, <1>a DEF Opened
  <2>2. r \in Connection /\ r.client = "streaming" /\ r.outcome = conn[c].outcome
        /\ r.kept = conn[c].kept /\ r.seen = conn[c].seen /\ r.truncated = conn[c].truncated
    BY <1>0, <1>b, <1>c DEF Connection
  <2>3. Works(conn[c], remote[c], r, remote[c])
    BY <1>2, <2>2 DEF Works, Opened, Accounted
  <2>4. QED
    BY <1>0, <2>1, <2>2, <2>3
<1>3. ASSUME NEW client \in {conn[c].client, "closed"}, NEW outcome \in {"exit0", "exitOther", "error"},
             conn[c].client # "none",
             conn[c].client = "connecting" => client = "closed" \/ outcome = "error",
             outcome = "exit0" => remote[c] = "zero",
             conn' = [conn EXCEPT ![c] = Finish([@ EXCEPT !.client = client], outcome)],
             UNCHANGED remote
      PROVE  Goal
  <2> DEFINE q == [conn[c] EXCEPT !.client = client]
             r == Finish(q, outcome)
  <2>1. conn' = [conn EXCEPT ![c] = r] /\ remote' = [remote EXCEPT ![c] = remote[c]]
    BY <1>3, <1>0, <1>a
  <2>2. q \in Connection /\ q.client = client /\ q.outcome = conn[c].outcome
        /\ q.kept = conn[c].kept /\ q.seen = conn[c].seen /\ q.truncated = conn[c].truncated
    BY <1>0, <1>b, <1>c DEF Connection
  <2>3. outcome \in Outcome
    BY <1>c
  <2> HIDE DEF q
  <2>4. /\ r \in Connection /\ r.client = client
        /\ r.kept = conn[c].kept /\ r.seen = conn[c].seen /\ r.truncated = conn[c].truncated
        /\ conn[c].outcome # "pending" => r.outcome = conn[c].outcome
        /\ conn[c].outcome = "pending" => r.outcome = outcome
    BY <2>2, <2>3, FinishType
  <2> HIDE DEF r
  <2>5. Works(conn[c], remote[c], r, remote[c])
    BY <1>3, <2>4 DEF Works, Accounted
  <2>6. QED
    BY <1>0, <2>1, <2>4, <2>5
<1>4. CASE OpenFails(c) \/ ClientError(c)
  BY <1>3, <1>4 DEF OpenFails, ClientError
<1>5. CASE StreamClose(c)
  <2>1. PICK outcome \in {"exit0", "exitOther"} :
          /\ outcome = "exit0" => remote[c] = "zero"
          /\ conn' = [conn EXCEPT ![c] = Finish([@ EXCEPT !.client = "closed"], outcome)]
    BY <1>5 DEF StreamClose
  <2>2. conn[c].client # "none" /\ UNCHANGED remote
    BY <1>5 DEF StreamClose
  <2>3. QED
    BY <1>3, <2>1, <2>2
<1>6. CASE StreamError(c) \/ TimeLimit(c)
  <2>1. conn[c] = [conn[c] EXCEPT !.client = conn[c].client]
    BY <1>0 DEF Connection
  <2>2. conn' = [conn EXCEPT ![c] = Finish([@ EXCEPT !.client = conn[c].client], "error")]
    BY <1>6, <2>1 DEF StreamError, TimeLimit
  <2>3. conn[c].client # "none" /\ UNCHANGED remote
    BY <1>6 DEF StreamError, TimeLimit
  <2>4. QED
    BY <1>3, <2>2, <2>3
<1>7. ASSUME NEW s \in Stream, NEW n \in Chunk, Data(c, s, n) PROVE Goal
  <2> DEFINE r == Capture(conn[c], s, n)
  <2>1. conn' = [conn EXCEPT ![c] = r] /\ remote' = [remote EXCEPT ![c] = remote[c]]
    BY <1>7, <1>0, <1>a DEF Data
  <2>2. r.client = conn[c].client /\ r.outcome = conn[c].outcome
    BY <1>0 DEF Capture, Connection
  <2>3. r \in Connection
    <3>1. n \in Nat
      BY OutputAssumption
    <3>2. Captured(conn[c], n) \in Nat
      BY <1>0, <3>1, CapturedNat
    <3>3. /\ [conn[c].seen EXCEPT ![s] = @ + n] \in Output
          /\ [conn[c].kept EXCEPT ![s] = @ + Captured(conn[c], n)] \in Output
      BY <1>0, <3>1, <3>2, TotalGrows DEF Connection
    <3>4. QED
      BY <1>0, <3>3 DEF Capture, Connection
  <2>4. Accounted(conn[c]) => Accounted(r)
    BY <1>0, CaptureAccounts
  <2> HIDE DEF r
  <2>5. Works(conn[c], remote[c], r, remote[c])
    BY <1>7, <2>2, <2>4 DEF Works, Data
  <2>6. QED
    BY <1>0, <2>1, <2>3, <2>5
<1>8. CASE HostWorks(c)
  <2>1. PICK step \in HostSteps : remote[c] = step[1] /\ remote' = [remote EXCEPT ![c] = step[2]]
    BY <1>8 DEF HostWorks
  <2>2. /\ remote[c] \in {"asked", "running"}
        /\ step[2] \in {"running", "refused", "zero", "other"}
    BY <2>1 DEF HostSteps
  <2>3. step[2] \in Remote
    BY <2>2 DEF Remote
  <2>4. conn' = [conn EXCEPT ![c] = conn[c]]
    BY <1>8, <1>a DEF HostWorks
  <2>5. QED
    BY <1>0, <2>1, <2>2, <2>3, <2>4 DEF Works
<1>9. QED
  BY <1>1, <1>2, <1>4, <1>5, <1>6, <1>7, <1>8 DEF Callback

-----------------------------------------------------------------------------
(* Types                                                                   *)

Tools == AgentTool \cup {"test"}
Hosts == Host \cup {Sim}
Calls == [pc : Phase, tool : Tools, host : Hosts, id : CommandId, approved : BOOLEAN,
          granted : BOOLEAN, text : Texts, row : Row, gone : BOOLEAN, lost : BOOLEAN]

AdminTypes ==
    /\ sim \in BOOLEAN
    /\ policy \in [inspect : InspectPolicy, command : CommandPolicy]
    /\ host \in [Host -> Row]
    /\ editor \in Host \cup {None}
    /\ edits \in 0 .. MaxEdit
Asking == {"askSim", "askPolicy", "waiting", "readPolicy", "readSim"}
Made(k) == /\ k \in Calls
           /\ k.id \in Command(k.tool)
           /\ k.pc \in Asking => k.tool \in AgentTool
CallTypes ==
    /\ call \in [Call -> Calls]
    /\ \A c \in Call : Made(call[c])
AuditTypes ==
    /\ trail \in [Call -> Seq(Event)]
    /\ sshLog \in [Call -> Seq(Status)]
    /\ evidence \in [Call -> BOOLEAN]
Types == ExecTypeOK /\ AdminTypes /\ CallTypes /\ AuditTypes

\* Types is TypeOK, and each call has a command of its tool.
LEMMA TypesImply == Types => TypeOK
BY DEF Types, TypeOK, AdminTypes, CallTypes, AuditTypes, Calls, Tools, Hosts

\* The phases the actions go to.
LEMMA Phases ==
    /\ {"idle", "waiting", "askSim", "askPolicy", "readPolicy", "readSim", "readSimHost",
        "readHost", "evaluate", "decide", "start", "execute", "running", "log", "finish",
        "evidence", "catchLog", "catchFinish", "returned", "failed", "declined",
        "dead"} \subseteq Phase
    /\ {"evaluated", "denied", "enforced", "allowed", "started", "completed",
        "failed"} \subseteq Event
    /\ {"success", "failed"} \subseteq Status
BY DEF Phase, Executing, Approving, Reading, Auditing, Ended, Event, Status

\* Each row a call or an administrator writes is one.
LEMMA Rows ==
    /\ Absent \in Row /\ SimulatedHost \in Row
    /\ \A b \in BOOLEAN : Managed(b) \in Row
    /\ [Absent EXCEPT !.status = "deleted"] \in Row
BY DEF Absent, SimulatedHost, Managed, Row

\* Each tool has its commands, and each command a text.
LEMMA Commands ==
    /\ Command("inspect") = Inspection /\ Command("command") = Configured
    /\ Command("test") = {ConnectionTest}
    /\ Inspection \subseteq CommandId /\ Configured \subseteq CommandId
    /\ Inspection \subseteq Texts /\ ConnectionTest \in CommandId
    /\ ConnectionTest \in Texts /\ None \in Texts /\ Text \subseteq Texts
    /\ \A id \in Configured : SimText[id] \in Texts
<1>1. SimText \in [Configured -> (Text \ Denied) \cup {None}]
  BY ToolAssumption
<1>2. QED
  BY <1>1 DEF Command, CommandId, Texts

\* The call nobody has made.
LEMMA NoCallType == Made(NoCall)
<1>1. ConnectionTest \in CommandId /\ None \in Texts /\ Absent \in Row /\ "idle" \in Phase
  BY Commands, Rows, Phases
<1>2. QED
  BY <1>1, Commands DEF NoCall, Calls, Tools, Hosts, Made, Asking

\* The changes the steps of a call make to its record.
LEMMA Changes ==
    ASSUME NEW k, Made(k), NEW pc \in Phase, pc \in Asking => k.tool \in AgentTool,
           NEW text \in Texts, NEW row \in Row, NEW b \in BOOLEAN
    PROVE  /\ Made([k EXCEPT !.pc = pc])
           /\ Made([k EXCEPT !.pc = pc, !.approved = TRUE])
           /\ Made([k EXCEPT !.pc = pc, !.granted = b, !.text = text])
           /\ Made([k EXCEPT !.pc = pc, !.text = text])
           /\ Made([k EXCEPT !.row = row, !.pc = pc])
           /\ Made([k EXCEPT !.pc = pc, !.lost = TRUE])
BY DEF Made, Calls

\* A call made, and a call whose record changes.
LEMMA CallsMade ==
    ASSUME CallTypes, NEW c \in Call
    PROVE  /\ Made(call[c])
           /\ \A k : Made(k) /\ call' = [call EXCEPT ![c] = k] => CallTypes'
BY DEF CallTypes, Made

\* A call that goes to another phase.
LEMMA GotoType ==
    ASSUME CallTypes, NEW c \in Call, NEW pc \in Phase, Goto(c, pc),
           pc \in Asking => call[c].tool \in AgentTool
    PROVE  CallTypes'
<1>1. Made(call[c])
  BY CallsMade
<1>2. Made([call[c] EXCEPT !.pc = pc])
  <2>1. Made(call[c]) /\ None \in Texts /\ Absent \in Row
    BY <1>1, Commands, Rows
  <2>2. QED
    BY <2>1, Changes
<1>3. call' = [call EXCEPT ![c] = [call[c] EXCEPT !.pc = pc]]
  BY DEF Goto, CallTypes
<1>4. QED
  BY <1>2, <1>3, CallsMade

\* An entry of an audit.
LEMMA InsertType ==
    /\ \A c \in Call, e \in Event :
          trail \in [Call -> Seq(Event)] /\ (Insert(trail, c, e) \/ InsertThrows(trail, c, e))
          => trail' \in [Call -> Seq(Event)]
    /\ \A c \in Call, e \in Status :
          sshLog \in [Call -> Seq(Status)] /\ (Insert(sshLog, c, e) \/ InsertThrows(sshLog, c, e))
          => sshLog' \in [Call -> Seq(Status)]
<1>2. ASSUME NEW c \in Call, NEW e \in Event, trail \in [Call -> Seq(Event)],
             Insert(trail, c, e) \/ InsertThrows(trail, c, e)
      PROVE  trail' \in [Call -> Seq(Event)]
  <2>1. Append(trail[c], e) \in Seq(Event)
    BY <1>2, AppendProperties
  <2>2. trail' = trail \/ trail' = [trail EXCEPT ![c] = Append(trail[c], e)]
    BY <1>2 DEF Insert, InsertThrows
  <2>3. QED
    BY <1>2, <2>1, <2>2
<1>3. ASSUME NEW c \in Call, NEW e \in Status, sshLog \in [Call -> Seq(Status)],
             Insert(sshLog, c, e) \/ InsertThrows(sshLog, c, e)
      PROVE  sshLog' \in [Call -> Seq(Status)]
  <2>1. Append(sshLog[c], e) \in Seq(Status)
    BY <1>3, AppendProperties
  <2>2. sshLog' = sshLog \/ sshLog' = [sshLog EXCEPT ![c] = Append(sshLog[c], e)]
    BY <1>3 DEF Insert, InsertThrows
  <2>3. QED
    BY <1>3, <2>1, <2>2
<1>4. QED
  BY <1>2, <1>3

\* The initial state has its types.
LEMMA TypesInit == Init => Types
<1> SUFFICES ASSUME Init PROVE Types
  OBVIOUS
<1>1. NoConnection \in Connection /\ "none" \in Remote
  BY DEF NoConnection, NoOutput, Connection, Output, Client, Outcome, Remote
<1>2. ExecTypeOK
  BY <1>1, ExecTypes DEF Init, ExecInit
<1>3. AdminTypes
  <2>1. {Absent} \cup [status : {"present"}, enabled : {TRUE}, root : BOOLEAN] \subseteq Row
    BY Rows DEF Row
  <2>2. 0 \in 0 .. MaxEdit
    BY ToolAssumption
  <2>3. QED
    BY <2>1, <2>2 DEF Init, AdminTypes
<1>4. CallTypes
  BY NoCallType DEF Init, CallTypes, Made
<1>5. AuditTypes
  BY DEF Init, AuditTypes
<1>6. QED
  BY <1>2, <1>3, <1>4, <1>5 DEF Types

\* The administrators' requests.
LEMMA AdministerTypes == AdminTypes /\ Administer => AdminTypes'
<1> SUFFICES ASSUME AdminTypes, Administer PROVE AdminTypes'
  OBVIOUS
<1>1. ASSUME Edit PROVE edits' \in 0 .. MaxEdit
  BY <1>1, ToolAssumption DEF Edit, AdminTypes
<1>2. ASSUME NEW h \in Host, NEW row \in Row, host' = [host EXCEPT ![h] = row]
      PROVE  host' \in [Host -> Row]
  BY <1>2 DEF AdminTypes
<1>3. CASE UpdateSimulation
  BY <1>1, <1>3 DEF UpdateSimulation, AdminTypes
<1>4. CASE UpdatePolicy
  <2>1. ASSUME NEW p \in InspectPolicy, policy' = [policy EXCEPT !.inspect = p]
        PROVE  policy' \in [inspect : InspectPolicy, command : CommandPolicy]
    BY <2>1 DEF AdminTypes
  <2>2. ASSUME NEW p \in CommandPolicy, policy' = [policy EXCEPT !.command = p]
        PROVE  policy' \in [inspect : InspectPolicy, command : CommandPolicy]
    BY <2>2 DEF AdminTypes
  <2>3. QED
    BY <1>1, <1>4, <2>1, <2>2 DEF UpdatePolicy, AdminTypes
<1>5. ASSUME NEW h \in Host, CreateHost(h) PROVE AdminTypes'
  BY <1>1, <1>2, <1>5, Rows DEF CreateHost, AdminTypes
<1>6. ASSUME NEW h \in Host, ReadForUpdate(h) PROVE AdminTypes'
  BY <1>1, <1>6 DEF ReadForUpdate, AdminTypes
<1>7. ASSUME NEW h \in Host, UpdateHost(h) PROVE AdminTypes'
  BY <1>2, <1>7, Rows DEF UpdateHost, AdminTypes
<1>8. ASSUME NEW h \in Host, DeleteHost(h) PROVE AdminTypes'
  BY <1>1, <1>2, <1>8, Rows DEF DeleteHost, AdminTypes
<1>9. QED
  BY <1>3, <1>4, <1>5, <1>6, <1>7, <1>8 DEF Administer

\* What an administrator does leaves the calls alone.
LEMMA AdministerOnly == Administer => UNCHANGED <<execVars, call, auditVars>>
BY DEF Administer, UpdateSimulation, UpdatePolicy, CreateHost, ReadForUpdate, UpdateHost, DeleteHost

\* What a policy offers is a text.
LEMMA Offers ==
    ASSUME AdminTypes, NEW t \in AgentTool, NEW id \in Command(t)
    PROVE  policy[t].offers[id] \in Texts
<1>1. CASE t = "inspect"
  BY <1>1, Commands DEF AdminTypes, InspectPolicy
<1>2. CASE t = "command"
  BY <1>2, Commands DEF AdminTypes, CommandPolicy
<1>3. QED
  BY <1>1, <1>2 DEF AgentTool

\* The steps of a call that read.
Reads(c) ==
    \/ AskSim(c) \/ AskPolicy(c) \/ Approve(c) \/ Decline(c) \/ ReadPolicy(c)
    \/ ReadSim(c) \/ ReadSimHost(c) \/ ReadHost(c) \/ ReadThrows(c)

\* The steps of a call that write an audit.
Writes(c) ==
    \/ Evaluate(c) \/ Decide(c) \/ Start(c) \/ Log(c) \/ FinishEvent(c)
    \/ RecordEvidence(c) \/ CatchLog(c) \/ CatchFinish(c)

\* What the reading steps leave alone.
LEMMA ReadsOnly ==
    ASSUME NEW c \in Call, Reads(c) PROVE UNCHANGED <<execVars, adminVars, auditVars>>
BY DEF Reads, AskSim, AskPolicy, Approve, Decline, ReadPolicy, ReadSim, ReadSimHost,
       ReadHost, ReadThrows

\* What the writing steps leave alone.
LEMMA WritesOnly ==
    ASSUME NEW c \in Call, Writes(c) PROVE UNCHANGED <<execVars, adminVars>>
BY DEF Writes, Evaluate, Decide, Start, Log, FinishEvent, RecordEvidence, CatchLog, CatchFinish

\* The reading steps.
LEMMA ReadsTypes ==
    ASSUME AdminTypes, CallTypes, NEW c \in Call, Reads(c)
    PROVE  CallTypes'
<1> DEFINE k == call[c]
<1>0. /\ Made(k) /\ call \in [Call -> Calls]
      /\ k.id \in Command(k.tool) /\ (k.pc \in Asking => k.tool \in AgentTool)
  BY CallsMade DEF CallTypes, Made
<1>1. None \in Texts /\ Absent \in Row
  BY Commands, Rows
<1>2. ASSUME NEW pc \in Phase, Goto(c, pc), pc \in Asking => k.pc \in Asking PROVE CallTypes'
  BY <1>0, <1>2, GotoType
<1>3. CASE AskSim(c)
  BY <1>2, <1>3, Phases DEF AskSim, At, Asking
<1>4. CASE AskPolicy(c)
  BY <1>2, <1>4, Phases DEF AskPolicy, At, Asking
<1>5. CASE Approve(c)
  <2>1. k.tool \in AgentTool
    BY <1>0, <1>5 DEF Approve, At, Asking
  <2>2. Made([k EXCEPT !.pc = "readPolicy", !.approved = TRUE])
    BY <1>0, <1>1, <2>1, Changes, Phases
  <2>3. call' = [call EXCEPT ![c] = [k EXCEPT !.pc = "readPolicy", !.approved = TRUE]]
    BY <1>0, <1>5 DEF Approve
  <2>4. QED
    BY <2>2, <2>3, CallsMade
<1>6. CASE Decline(c)
  BY <1>2, <1>6, Phases DEF Decline, Asking
<1>7. CASE ReadPolicy(c)
  <2> DEFINE offer == policy[k.tool].offers[k.id]
             k2 == [k EXCEPT !.pc = "readSim", !.granted = offer # None, !.text = offer]
  <2>1. k.tool \in AgentTool
    BY <1>0, <1>7 DEF ReadPolicy, At, Asking
  <2>2. offer \in Texts
    BY <1>0, <2>1, Offers
  <2>3. Made(k2)
    BY <1>0, <1>1, <2>1, <2>2, Changes, Phases
  <2>4. call' = [call EXCEPT ![c] = k2]
    BY <1>0, <1>7 DEF ReadPolicy
  <2>5. QED
    BY <2>3, <2>4, CallsMade
<1>8. CASE ReadSim(c)
  <2> DEFINE text == IF ~IsSimulated(c) THEN k.text
                     ELSE IF k.tool = "inspect" THEN k.id ELSE SimText[k.id]
             pc == IF text # None THEN "readSimHost" ELSE "failed"
             k2 == [k EXCEPT !.pc = pc, !.text = text]
  <2>1. k.tool \in AgentTool
    BY <1>0, <1>8 DEF ReadSim, At, Asking
  <2>2. text \in Texts
    <3>1. k.text \in Texts
      BY <1>0 DEF Made, Calls
    <3>2. k.tool = "inspect" => k.id \in Texts
      BY <1>0, Commands
    <3>3. k.tool = "command" => SimText[k.id] \in Texts
      BY <1>0, Commands
    <3>4. QED
      BY <2>1, <3>1, <3>2, <3>3 DEF AgentTool
  <2>3. pc \in Phase /\ pc \notin Asking
    BY Phases DEF Asking
  <2>4. Made(k2)
    <3> HIDE DEF pc, text
    <3>1. QED
      BY <1>0, <1>1, <2>2, <2>3, Changes
  <2>5. call' = [call EXCEPT ![c] = k2]
    BY <1>0, <1>8 DEF ReadSim
  <2>6. QED
    BY <2>4, <2>5, CallsMade
<1>9. ASSUME NEW row \in Row, Found(c, row) PROVE CallTypes'
  <2> DEFINE pc == IF k.tool = "test" THEN "execute"
                   ELSE IF row.enabled THEN "evaluate" ELSE "failed"
             k2 == [k EXCEPT !.row = row, !.pc = pc]
  <2>1. pc \in Phase /\ pc \notin Asking
    BY Phases DEF Asking
  <2>2. call' = [call EXCEPT ![c] = k2]
    BY <1>0, <1>9 DEF Found
  <2>3. Made(k2)
    <3> HIDE DEF pc
    <3>1. QED
      BY <1>0, <1>1, <2>1, Changes
  <2>4. QED
    BY <2>2, <2>3, CallsMade
<1>10. CASE ReadSimHost(c)
  BY <1>2, <1>9, <1>10, Phases, Rows DEF ReadSimHost, Asking
<1>11. CASE ReadHost(c)
  <2>1. k.host \in Host => host[k.host] \in Row
    BY DEF AdminTypes
  <2>2. QED
    BY <1>2, <1>9, <1>11, <2>1, Phases DEF ReadHost, Asking
<1>12. CASE ReadThrows(c)
  BY <1>2, <1>12, Phases DEF ReadThrows, Asking
<1>13. QED
  BY <1>3, <1>4, <1>5, <1>6, <1>7, <1>8, <1>10, <1>11, <1>12 DEF Reads

\* The writing steps.
LEMMA WritesTypes ==
    ASSUME CallTypes, AuditTypes, NEW c \in Call, Writes(c)
    PROVE  CallTypes' /\ AuditTypes'
<1> DEFINE k == call[c]
<1>0. Made(k) /\ call \in [Call -> Calls]
  BY CallsMade DEF CallTypes, Made
<1>1. ASSUME NEW pc \in Phase, pc \notin Asking, Goto(c, pc) PROVE CallTypes'
  BY <1>1, GotoType
<1>2. ASSUME CatchThrows(c) PROVE CallTypes'
  <2>1. None \in Texts /\ Absent \in Row
    BY Commands, Rows
  <2>2. "failed" \in Phase /\ "failed" \notin Asking
    BY Phases DEF Asking
  <2>3. Made([k EXCEPT !.pc = "failed", !.lost = TRUE])
    BY <1>0, <2>1, <2>2, Changes
  <2>4. call' = [call EXCEPT ![c] = [k EXCEPT !.pc = "failed", !.lost = TRUE]]
    BY <1>0, <1>2 DEF CatchThrows
  <2>5. QED
    BY <2>3, <2>4, CallsMade
<1>3. ASSUME NEW e \in Event, Insert(trail, c, e) \/ InsertThrows(trail, c, e),
             UNCHANGED <<sshLog, evidence>>
      PROVE  AuditTypes'
  BY <1>3, InsertType DEF AuditTypes
<1>4. ASSUME NEW e \in Status, Insert(sshLog, c, e) \/ InsertThrows(sshLog, c, e),
             UNCHANGED <<trail, evidence>>
      PROVE  AuditTypes'
  BY <1>4, InsertType DEF AuditTypes
<1>5. CASE Evaluate(c)
  <2>1. CallTypes'
    BY <1>1, <1>5, Phases DEF Evaluate, Asking
  <2>2. QED
    BY <1>3, <1>5, <2>1, Phases DEF Evaluate
<1>6. CASE Decide(c)
  <2>1. Decision(k.tool, k.row, k.text) \in {"denied", "enforced", "allowed"}
    BY DEF Decision
  <2>2. CallTypes'
    BY <1>1, <1>6, Phases DEF Decide, Asking
  <2> DEFINE e == Decision(k.tool, k.row, k.text)
  <2>3. Insert(trail, c, e) \/ InsertThrows(trail, c, e)
    BY <1>6 DEF Decide
  <2>4. e \in Event /\ UNCHANGED <<sshLog, evidence>>
    BY <1>6, <2>1, Phases DEF Decide
  <2> HIDE DEF e
  <2>5. QED
    BY <1>3, <2>2, <2>3, <2>4 DEF Insert, InsertThrows
<1>7. CASE Start(c)
  <2>1. CallTypes'
    BY <1>1, <1>7, Phases DEF Start, Asking
  <2>2. QED
    BY <1>3, <1>7, <2>1, Phases DEF Start
<1>8. CASE Log(c)
  <2>1. CallTypes'
    BY <1>1, <1>8, Phases DEF Log, Asking
  <2>2. QED
    BY <1>4, <1>8, <2>1, Phases DEF Log
<1>9. CASE FinishEvent(c)
  <2>1. CallTypes'
    BY <1>1, <1>9, Phases DEF FinishEvent, Asking
  <2> DEFINE e == IF conn[c].outcome = "exit0" THEN "completed" ELSE "failed"
  <2>2. Insert(trail, c, e) \/ InsertThrows(trail, c, e)
    BY <1>9 DEF FinishEvent
  <2>3. e \in Event /\ UNCHANGED <<sshLog, evidence>>
    BY <1>9, Phases DEF FinishEvent
  <2> HIDE DEF e
  <2>4. QED
    BY <1>3, <2>1, <2>2, <2>3 DEF Insert, InsertThrows
<1>10. CASE RecordEvidence(c)
  <2>1. CallTypes'
    BY <1>1, <1>10, Phases DEF RecordEvidence, Asking
  <2>2. QED
    BY <1>10, <2>1 DEF RecordEvidence, AuditTypes
<1>11. CASE CatchLog(c)
  <2>1. CallTypes'
    BY <1>1, <1>2, <1>11, Phases DEF CatchLog, Asking
  <2>2. QED
    BY <1>4, <1>11, <2>1, Phases DEF CatchLog
<1>12. CASE CatchFinish(c)
  <2>1. CallTypes'
    BY <1>1, <1>2, <1>12, Phases DEF CatchFinish, Asking
  <2>2. QED
    BY <1>3, <1>12, <2>1, Phases DEF CatchFinish
<1>13. QED
  BY <1>5, <1>6, <1>7, <1>8, <1>9, <1>10, <1>11, <1>12 DEF Writes

\* A simulated execution.
LEMMA SimulateBegins ==
    ASSUME ExecTypeOK, NEW c \in Call, Simulate(c)
    PROVE  \E r \in Connection :
              /\ conn' = [conn EXCEPT ![c] = r]
              /\ remote' = [remote EXCEPT ![c] = "simulated"]
              /\ "simulated" \in Remote
              /\ Accounted(conn[c]) => Accounted(r)
              /\ r.client = conn[c].client
              /\ conn[c].outcome = "pending" => r.outcome = "exit0"
<1>0. conn \in [Call -> Connection] /\ remote \in [Call -> Remote] /\ conn[c] \in Connection
  BY ExecTypes
<1> DEFINE r == Finish(conn[c], "exit0")
<1>1. conn' = [conn EXCEPT ![c] = r] /\ remote' = [remote EXCEPT ![c] = "simulated"]
  BY <1>0 DEF Simulate
<1>2. "exit0" \in Outcome /\ "simulated" \in Remote
  BY DEF Outcome, Remote
<1>3. /\ r \in Connection /\ r.client = conn[c].client
      /\ r.kept = conn[c].kept /\ r.seen = conn[c].seen /\ r.truncated = conn[c].truncated
      /\ conn[c].outcome = "pending" => r.outcome = "exit0"
  BY <1>0, <1>2, FinishType
<1> HIDE DEF r
<1>4. Accounted(conn[c]) => Accounted(r)
  BY <1>3 DEF Accounted
<1>5. QED
  BY <1>1, <1>2, <1>3, <1>4

\* An execution on a host.
LEMMA ConnectBegins ==
    ASSUME ExecTypeOK, NEW c \in Call, Connect(c)
    PROVE  \E r \in Connection :
              /\ conn' = [conn EXCEPT ![c] = r]
              /\ remote' = remote
              /\ Accounted(conn[c]) => Accounted(r)
              /\ r.client = "connecting" /\ r.outcome = conn[c].outcome
<1>0. conn \in [Call -> Connection] /\ conn[c] \in Connection
  BY ExecTypes
<1> DEFINE r == [conn[c] EXCEPT !.client = "connecting"]
<1>1. conn' = [conn EXCEPT ![c] = r] /\ remote' = remote
  BY <1>0 DEF Connect
<1>2. /\ r \in Connection /\ r.client = "connecting" /\ r.outcome = conn[c].outcome
      /\ r.kept = conn[c].kept /\ r.seen = conn[c].seen /\ r.truncated = conn[c].truncated
  BY <1>0 DEF Connection, Client
<1> HIDE DEF r
<1>3. Accounted(conn[c]) => Accounted(r)
  BY <1>2 DEF Accounted
<1>4. QED
  BY <1>1, <1>2, <1>3

\* What a death leaves of an execution.
LEMMA DieConnections ==
    ASSUME ExecTypeOK, Die
    PROVE  /\ conn' \in [Call -> Connection]
           /\ \A c \in Call :
                 /\ Accounted(conn[c]) => Accounted(conn'[c])
                 /\ conn'[c].client = "none"
                 /\ conn'[c].outcome = IF call[c].pc \in Executing THEN "pending"
                                       ELSE conn[c].outcome
<1>0. conn \in [Call -> Connection]
  BY ExecTypes
<1>1. /\ NoConnection \in Connection /\ Accounted(NoConnection)
      /\ NoConnection.client = "none" /\ NoConnection.outcome = "pending"
  BY OutputAssumption DEF NoConnection, NoOutput, Connection, Output, Client, Outcome,
     Accounted, Total, Stream
<1>2. ASSUME NEW c \in Call
      PROVE  LET r == [conn[c] EXCEPT !.client = "none"]
             IN  /\ r \in Connection
                 /\ Accounted(conn[c]) => Accounted(r)
                 /\ r.client = "none" /\ r.outcome = conn[c].outcome
  <2> DEFINE r == [conn[c] EXCEPT !.client = "none"]
  <2>1. /\ r \in Connection /\ r.client = "none" /\ r.outcome = conn[c].outcome
        /\ r.kept = conn[c].kept /\ r.seen = conn[c].seen /\ r.truncated = conn[c].truncated
    BY <1>0 DEF Connection, Client
  <2> HIDE DEF r
  <2>2. Accounted(conn[c]) => Accounted(r)
    BY <2>1 DEF Accounted
  <2>3. QED
    BY <2>1, <2>2 DEF r
<1>3. conn' = [c \in Call |-> IF call[c].pc \in Executing THEN NoConnection
                              ELSE [conn[c] EXCEPT !.client = "none"]]
  BY DEF Die
<1> HIDE DEF Die
<1>4. QED
  BY <1>1, <1>2, <1>3

\* A call made, or tested.
LEMMA RequestTypes ==
    ASSUME CallTypes, NEW c \in Call, NEW t \in Tools, NEW h \in Hosts, NEW id \in Command(t),
           Request(c, t, h, id)
    PROVE  CallTypes'
<1> DEFINE pc == CASE t = "inspect" -> "askSim"
                   [] t = "command" -> "waiting"
                   [] t = "test" -> "readSimHost"
           text == IF t = "command" THEN None ELSE id
           gone == h \in Host /\ host[h].status = "deleted"
           k == [NoCall EXCEPT !.pc = pc, !.tool = t, !.host = h, !.id = id, !.text = text,
                               !.gone = gone]
<1>1. call' = [call EXCEPT ![c] = k]
  BY DEF Request
<1>2. t \in {"inspect", "command", "test"}
  BY DEF Tools, AgentTool
<1>3. pc \in Phase /\ (pc \in Asking => t \in AgentTool)
  BY <1>2, Phases DEF Asking, AgentTool
<1>4. text \in Texts
  BY <1>2, Commands
<1>5. id \in CommandId
  BY <1>2, Commands
<1>6. Made(k)
  <2>1. NoCall \in Calls /\ gone \in BOOLEAN
    BY NoCallType DEF Made
  <2> HIDE DEF pc, text, gone
  <2>2. QED
    BY <1>3, <1>4, <1>5, <2>1 DEF Made, Calls
<1>7. QED
  BY <1>1, <1>6, CallsMade

\* A death leaves calls.
LEMMA DieCalls == CallTypes /\ Die => CallTypes'
<1> SUFFICES ASSUME CallTypes, Die PROVE CallTypes'
  OBVIOUS
<1>1. "dead" \in Phase /\ "dead" \notin Asking /\ None \in Texts /\ Absent \in Row
  BY Phases, Commands, Rows DEF Asking
<1>2. \A c \in Call : Made(call[c]) /\ Made([call[c] EXCEPT !.pc = "dead"])
  BY <1>1, Changes, CallsMade
<1>3. call' = [c \in Call |-> IF call[c].pc \in Executing
                              THEN [call[c] EXCEPT !.pc = "dead"] ELSE call[c]]
  BY DEF Die
<1>4. \A c \in Call : Made(call'[c])
  BY <1>2, <1>3
<1>5. QED
  BY <1>3, <1>4 DEF CallTypes, Made

\* The types hold of every step, and with them what OutputAccounted says.
AllAccounted == \A c \in Call : Accounted(conn[c])

\* OutputAccounted, and AllAccounted.
LEMMA AccountedSame == OutputAccounted <=> AllAccounted
BY DEF OutputAccounted, AllAccounted, Accounted

\* One execution changes.
LEMMA OneChanges ==
    ASSUME ExecTypeOK, AllAccounted, NEW c \in Call, NEW r \in Connection, NEW m \in Remote,
           conn' = [conn EXCEPT ![c] = r], remote' = [remote EXCEPT ![c] = m],
           Accounted(conn[c]) => Accounted(r)
    PROVE  ExecTypeOK' /\ AllAccounted'
<1>1. conn \in [Call -> Connection] /\ remote \in [Call -> Remote]
  BY ExecTypes
<1>2. conn' \in [Call -> Connection] /\ remote' \in [Call -> Remote]
  BY <1>1
<1>3. ExecTypeOK'
  BY <1>2 DEF ExecTypeOK, Connection, Output
<1>4. ASSUME NEW d \in Call PROVE Accounted(conn'[d])
  BY <1>1 DEF AllAccounted
<1>5. AllAccounted'
  BY <1>4 DEF AllAccounted, Accounted
<1>6. QED
  BY <1>3, <1>5

\* No execution changes.
LEMMA NoneChanges ==
    ASSUME ExecTypeOK, AllAccounted, UNCHANGED execVars
    PROVE  ExecTypeOK' /\ AllAccounted'
BY DEF execVars, ExecTypeOK, AllAccounted, Accounted

\* Every step keeps the types and the account of the output.
LEMMA TypesNext ==
    Types /\ AllAccounted /\ [Next]_vars => Types' /\ AllAccounted'
<1> SUFFICES ASSUME Types, AllAccounted, [Next]_vars PROVE Types' /\ AllAccounted'
  OBVIOUS
<1>0. ExecTypeOK /\ AdminTypes /\ CallTypes /\ AuditTypes
      /\ remote \in [Call -> Remote] /\ call \in [Call -> Calls]
  BY ExecTypes DEF Types, CallTypes
<1>1. UNCHANGED adminVars => AdminTypes'
  BY <1>0 DEF adminVars, AdminTypes
<1>2. UNCHANGED auditVars => AuditTypes'
  BY <1>0 DEF auditVars, AuditTypes
<1>3. UNCHANGED call => CallTypes'
  BY <1>0 DEF CallTypes
<1>4. UNCHANGED execVars => ExecTypeOK' /\ AllAccounted'
  BY <1>0, NoneChanges
<1>5. CASE UNCHANGED vars
  <2>1. UNCHANGED <<execVars, adminVars, call, auditVars>>
    BY <1>5 DEF vars
  <2>2. QED
    BY <1>1, <1>2, <1>3, <1>4, <2>1 DEF Types
<1>6. CASE Administer
  BY <1>0, <1>2, <1>3, <1>4, <1>6, AdministerTypes, AdministerOnly DEF Types
<1>7. CASE Die
  <2>1. CallTypes'
    BY <1>0, <1>7, DieCalls
  <2>2. conn' \in [Call -> Connection] /\ \A c \in Call : Accounted(conn'[c])
    BY <1>0, <1>7, DieConnections DEF AllAccounted
  <2>3. ExecTypeOK' /\ AllAccounted'
    <3>1. remote' = remote
      BY <1>7 DEF Die
    <3>2. ExecTypeOK'
      BY <1>0, <2>2, <3>1 DEF ExecTypeOK, Connection, Output
    <3>3. AllAccounted'
      BY <2>2 DEF AllAccounted, Accounted
    <3>4. QED
      BY <3>2, <3>3
  <2>4. AdminTypes'
    BY <1>0, <1>7 DEF Die, AdminTypes
  <2>5. UNCHANGED auditVars
    BY <1>7 DEF Die
  <2>6. QED
    BY <1>2, <2>1, <2>3, <2>4, <2>5 DEF Types
<1>8. ASSUME NEW c \in Call, NEW t \in Tools, NEW h \in Hosts, NEW id \in Command(t),
             Request(c, t, h, id)
      PROVE  Types' /\ AllAccounted'
  <2>1. UNCHANGED <<execVars, adminVars, auditVars>>
    BY <1>8 DEF Request
  <2>2. CallTypes'
    BY <1>0, <1>8, RequestTypes
  <2>3. QED
    BY <1>1, <1>2, <1>4, <2>1, <2>2 DEF Types
<1>9. ASSUME NEW c \in Call, Reads(c) PROVE Types' /\ AllAccounted'
  BY <1>0, <1>1, <1>2, <1>4, <1>9, ReadsOnly, ReadsTypes DEF Types
<1>10. ASSUME NEW c \in Call, Writes(c) PROVE Types' /\ AllAccounted'
  BY <1>0, <1>1, <1>4, <1>10, WritesOnly, WritesTypes DEF Types
<1>11. ASSUME NEW c \in Call, Exec(c) PROVE Types' /\ AllAccounted'
  <2>1. PICK r \in Connection, m \in Remote :
           /\ conn' = [conn EXCEPT ![c] = r] /\ remote' = [remote EXCEPT ![c] = m]
           /\ Works(conn[c], remote[c], r, m)
    BY <1>0, <1>11, CallbackWorks DEF Exec
  <2>2. ExecTypeOK' /\ AllAccounted'
    BY <1>0, <2>1, OneChanges DEF Works
  <2>3. UNCHANGED <<adminVars, call, auditVars>>
    BY <1>11 DEF Exec
  <2>4. QED
    BY <1>1, <1>2, <1>3, <2>2, <2>3 DEF Types
<1>12. ASSUME NEW c \in Call, Execute(c) PROVE Types' /\ AllAccounted'
  <2>1. CallTypes'
    BY <1>0, <1>12, GotoType, Phases DEF Execute, Asking
  <2>2. ASSUME Simulate(c) PROVE ExecTypeOK' /\ AllAccounted'
    <3>1. PICK r \in Connection :
             /\ conn' = [conn EXCEPT ![c] = r] /\ remote' = [remote EXCEPT ![c] = "simulated"]
             /\ "simulated" \in Remote /\ (Accounted(conn[c]) => Accounted(r))
      BY <1>0, <2>2, SimulateBegins
    <3>2. QED
      BY <1>0, <3>1, OneChanges
  <2>3. ASSUME Connect(c) PROVE ExecTypeOK' /\ AllAccounted'
    <3>1. PICK r \in Connection :
             /\ conn' = [conn EXCEPT ![c] = r] /\ remote' = remote
             /\ Accounted(conn[c]) => Accounted(r)
      BY <1>0, <2>3, ConnectBegins
    <3>2. remote' = [remote EXCEPT ![c] = remote[c]] /\ remote[c] \in Remote
      BY <1>0, <3>1
    <3>3. QED
      BY <1>0, <3>1, <3>2, OneChanges
  <2>4. ExecTypeOK' /\ AllAccounted'
    BY <1>12, <2>2, <2>3 DEF Execute
  <2>5. UNCHANGED <<adminVars, auditVars>>
    BY <1>12 DEF Execute
  <2>6. QED
    BY <1>1, <1>2, <2>1, <2>4, <2>5 DEF Types
<1>13. ASSUME NEW c \in Call, Settled(c) PROVE Types' /\ AllAccounted'
  <2>1. CallTypes'
    BY <1>0, <1>13, GotoType, Phases DEF Settled, Asking
  <2>2. UNCHANGED <<execVars, adminVars, auditVars>>
    BY <1>13 DEF Settled
  <2>3. QED
    BY <1>1, <1>2, <1>4, <2>1, <2>2 DEF Types
<1>14. QED
  BY <1>5, <1>6, <1>7, <1>8, <1>9, <1>10, <1>11, <1>12, <1>13
     DEF Next, Reads, Writes, Proceed, Tools, Hosts

\* The initial state has its types, and no output.
LEMMA AccountedInit == Init => Types /\ AllAccounted
<1>1. Accounted(NoConnection)
  BY OutputAssumption DEF Accounted, NoConnection, NoOutput, Total, Stream
<1>2. Init => AllAccounted
  BY <1>1 DEF Init, ExecInit, AllAccounted
<1>3. QED
  BY <1>2, TypesInit

\* The types of TypeOK hold throughout.
THEOREM TypeCorrect == Spec => []TypeOK
BY AccountedInit, TypesNext, TypesImply, PTL DEF Spec

\* OutputAccounted, for every limit and every size of chunks (append,
\* tools/ssh.ts).
THEOREM OutputIsAccounted == Spec => []OutputAccounted
BY AccountedInit, TypesNext, AccountedSame, PTL DEF Spec

-----------------------------------------------------------------------------
(* Who may reach a host                                                    *)

BeforeRun == {"idle", "waiting", "askSim", "askPolicy", "readPolicy", "readSim",
              "readSimHost", "readHost", "evaluate", "decide", "start", "execute"}

\* Nothing of a call's execution exists before it begins.
Quiet(k, r, m) ==
    k.pc \in BeforeRun => r.client = "none" /\ r.outcome = "pending" /\ m = "none"

\* What a call of a tool has passed where it stands.
Checked(k) ==
    /\ k.pc \in Approving => k.tool = "inspect"
    /\ k.tool = "command" /\ k.pc \in BeforeRun \ {"idle", "waiting", "askSim", "askPolicy"}
          => k.approved
    /\ k.tool # "test" /\ k.pc = "readSim" /\ k.text # None => k.granted
    /\ k.tool # "test" /\ k.pc \in {"readSimHost", "readHost", "evaluate", "decide", "start", "execute"}
          => k.text # None /\ (k.host \in Host => k.granted)
    /\ k.tool # "test" /\ k.pc \in {"evaluate", "decide", "start", "execute"}
          => k.row.enabled /\ (k.row.status # "simulated" => k.host \in Host)
    /\ k.tool # "test" /\ k.pc \in {"start", "execute"} => ~k.row.root /\ k.text \notin Denied

Permitted(k) ==
    /\ k.granted /\ k.host \in Host
    /\ k.row.enabled /\ ~k.row.root
    /\ k.text \notin Denied \cup {None}
    /\ k.tool = "command" => k.approved

\* A call with a client, or a command on a host, was permitted.
Cleared(k, r, m) ==
    k.tool # "test" /\ (r.client # "none" \/ m \notin {"none", "simulated"}) => Permitted(k)

\* A call made after its host was deleted finds no row.
Lost(k, r, m, rows) ==
    k.gone =>
        /\ k.host \in Host /\ rows[k.host].status = "deleted"
        /\ r.client = "none" /\ m = "none"
        /\ k.pc \notin {"evaluate", "decide", "start", "execute", "running"}

Lawful(k, r, m, rows) == Quiet(k, r, m) /\ Checked(k) /\ Cleared(k, r, m) /\ Lost(k, r, m, rows)
AllLawful == \A c \in Call : Lawful(call[c], conn[c], remote[c], host)

\* A call's record, moved to another phase.
LEMMA Moved ==
    ASSUME NEW k \in Calls, NEW pc
    PROVE  /\ [k EXCEPT !.pc = pc].pc = pc
           /\ [k EXCEPT !.pc = pc].tool = k.tool
           /\ [k EXCEPT !.pc = pc].host = k.host
           /\ [k EXCEPT !.pc = pc].id = k.id
           /\ [k EXCEPT !.pc = pc].approved = k.approved
           /\ [k EXCEPT !.pc = pc].granted = k.granted
           /\ [k EXCEPT !.pc = pc].text = k.text
           /\ [k EXCEPT !.pc = pc].row = k.row
           /\ [k EXCEPT !.pc = pc].gone = k.gone
           /\ [k EXCEPT !.pc = pc].lost = k.lost
BY DEF Calls

\* A call whose execution is over, or that never had one, stays lawful.
LEMMA PastLawful ==
    ASSUME NEW k, NEW k2, NEW r, NEW m, NEW rows, Lawful(k, r, m, rows),
           k2.pc \notin BeforeRun \cup {"running"},
           k2.tool = k.tool, k2.host = k.host, k2.approved = k.approved, k2.granted = k.granted,
           k2.text = k.text, k2.row = k.row, k2.gone = k.gone
    PROVE  Lawful(k2, r, m, rows)
BY DEF Lawful, Quiet, Checked, Cleared, Permitted, Lost, BeforeRun, Approving

\* A reading step keeps its call lawful.
LEMMA ReadsLawful ==
    ASSUME AdminTypes, CallTypes, NEW c \in Call, Reads(c), NEW r, NEW m,
           Lawful(call[c], r, m, host)
    PROVE  Lawful(call'[c], r, m, host)
<1> DEFINE k == call[c]
           k2 == call'[c]
           Same == /\ k2.tool = k.tool /\ k2.host = k.host /\ k2.gone = k.gone
                   /\ k2.granted \in BOOLEAN /\ k2.approved \in BOOLEAN
<1>0. k \in Calls /\ k.tool \in Tools /\ call \in [Call -> Calls]
      /\ k.granted \in BOOLEAN /\ k.approved \in BOOLEAN
      /\ (k.pc \in Asking => k.tool \in AgentTool)
  BY DEF CallTypes, Made, Calls
<1>1. ASSUME NEW pc, Goto(c, pc)
      PROVE  /\ Same /\ k2.pc = pc /\ k2.approved = k.approved /\ k2.granted = k.granted
             /\ k2.text = k.text /\ k2.row = k.row
  <2>1. k2 = [k EXCEPT !.pc = pc]
    BY <1>0, <1>1 DEF Goto
  <2>2. QED
    BY <1>0, <2>1, Moved
<1>2. ASSUME NEW pc, Goto(c, pc), pc \notin BeforeRun \cup {"running"} PROVE Lawful(k2, r, m, host)
  BY <1>1, <1>2, PastLawful
<1>3. CASE AskSim(c) \/ AskPolicy(c)
  <2>1. PICK pc \in {"waiting", "askPolicy", "readPolicy"} : Goto(c, pc)
    BY <1>3 DEF AskSim, AskPolicy
  <2>2. k.pc \in {"askSim", "askPolicy"} /\ k.tool = "inspect"
    BY <1>3 DEF AskSim, AskPolicy, At, Lawful, Checked, Approving
  <2>3. QED
    BY <1>1, <2>1, <2>2
       DEF Lawful, Quiet, Checked, Cleared, Permitted, Lost, BeforeRun, Approving
<1>4. CASE Approve(c)
  <2>1. k2 = [k EXCEPT !.pc = "readPolicy", !.approved = TRUE]
    BY <1>0, <1>4 DEF Approve
  <2>2. /\ Same /\ k2.pc = "readPolicy" /\ k2.approved /\ k2.granted = k.granted
        /\ k2.text = k.text /\ k2.row = k.row
    BY <1>0, <2>1 DEF Calls
  <2>3. k.pc = "waiting"
    BY <1>4 DEF Approve, At
  <2>4. QED
    BY <2>2, <2>3
       DEF Lawful, Quiet, Checked, Cleared, Permitted, Lost, BeforeRun, Approving
<1>5. CASE Decline(c) \/ ReadThrows(c)
  BY <1>2, <1>5 DEF Decline, ReadThrows, BeforeRun
<1>6. CASE ReadPolicy(c)
  <2> DEFINE offer == policy[k.tool].offers[k.id]
             granted == offer # None
  <2>1. k2 = [k EXCEPT !.pc = "readSim", !.granted = granted, !.text = offer]
    BY <1>0, <1>6 DEF ReadPolicy
  <2> HIDE DEF offer
  <2>2. /\ k2.tool = k.tool /\ k2.host = k.host /\ k2.gone = k.gone
        /\ k2.pc = "readSim" /\ k2.approved = k.approved /\ k2.granted = granted
        /\ k2.text = offer /\ k2.row = k.row
    BY <1>0, <2>1 DEF Calls
  <2>3. k.pc = "readPolicy"
    BY <1>6 DEF ReadPolicy, At
  <2>4. QED
    BY <2>2, <2>3
       DEF Lawful, Quiet, Checked, Cleared, Permitted, Lost, BeforeRun, Approving
<1>7. CASE ReadSim(c)
  <2> DEFINE text == IF ~IsSimulated(c) THEN k.text
                     ELSE IF k.tool = "inspect" THEN k.id ELSE SimText[k.id]
             pc == IF text # None THEN "readSimHost" ELSE "failed"
  <2>1. k2 = [k EXCEPT !.pc = pc, !.text = text]
    BY <1>0, <1>7 DEF ReadSim
  <2>2. k.host \in Host => text = k.text
    BY ToolAssumption DEF IsSimulated
  <2>3. k.pc = "readSim" /\ k.tool # "test"
    BY <1>0, <1>7 DEF ReadSim, At, Asking, AgentTool
  <2>4. pc \in {"readSimHost", "failed"} /\ (pc = "readSimHost" => text # None)
    OBVIOUS
  <2> HIDE DEF pc, text
  <2>5. /\ k2.tool = k.tool /\ k2.host = k.host /\ k2.gone = k.gone
        /\ k2.pc = pc /\ k2.approved = k.approved /\ k2.granted = k.granted
        /\ k2.text = text /\ k2.row = k.row
    BY <1>0, <2>1 DEF Calls
  <2>6. QED
    BY <2>2, <2>3, <2>4, <2>5
       DEF Lawful, Quiet, Checked, Cleared, Permitted, Lost, BeforeRun, Approving
<1>8. ASSUME NEW row, Found(c, row), k.pc \in {"readSimHost", "readHost"}, ~k.gone,
             row.status # "simulated" => k.host \in Host
      PROVE  Lawful(k2, r, m, host)
  <2> DEFINE pc == IF k.tool = "test" THEN "execute"
                   ELSE IF row.enabled THEN "evaluate" ELSE "failed"
  <2>1. k2 = [k EXCEPT !.row = row, !.pc = pc]
    BY <1>0, <1>8 DEF Found
  <2>2. pc \in {"execute", "evaluate", "failed"}
        /\ (pc = "execute" => k.tool = "test") /\ (pc = "evaluate" => row.enabled)
    OBVIOUS
  <2> HIDE DEF pc
  <2>3. /\ k2.tool = k.tool /\ k2.host = k.host /\ k2.gone = k.gone
        /\ k2.pc = pc /\ k2.approved = k.approved /\ k2.granted = k.granted
        /\ k2.text = k.text /\ k2.row = row
    BY <1>0, <2>1 DEF Calls
  <2>4. QED
    BY <1>8, <2>2, <2>3
       DEF Lawful, Quiet, Checked, Cleared, Permitted, Lost, BeforeRun, Approving
<1>9. CASE ReadSimHost(c)
  <2>1. CASE IsSimulated(c) /\ Found(c, SimulatedHost)
    <3>1. k.host \notin Host /\ ~k.gone
      BY <2>1, ToolAssumption DEF IsSimulated, Lawful, Lost
    <3>2. SimulatedHost.status = "simulated"
      BY DEF SimulatedHost
    <3>3. QED
      BY <1>8, <1>9, <2>1, <3>1, <3>2 DEF ReadSimHost, At
  <2>2. CASE Goto(c, "readHost")
    <3>1. k.pc = "readSimHost"
      BY <1>9 DEF ReadSimHost, At
    <3>2. QED
      BY <1>1, <2>2, <3>1
         DEF Lawful, Quiet, Checked, Cleared, Permitted, Lost, BeforeRun, Approving
  <2>3. QED
    BY <1>9, <2>1, <2>2 DEF ReadSimHost
<1>10. CASE ReadHost(c)
  <2>1. CASE k.host \in Host /\ host[k.host].status = "present"
    <3>1. ~k.gone
      BY <2>1 DEF Lawful, Lost
    <3>2. Found(c, host[k.host]) /\ k.pc = "readHost"
      BY <1>10, <2>1 DEF ReadHost, At
    <3>3. QED
      BY <1>8, <2>1, <3>1, <3>2
  <2>2. CASE ~(k.host \in Host /\ host[k.host].status = "present")
    BY <1>2, <1>10, <2>2 DEF ReadHost, BeforeRun
  <2>3. QED
    BY <2>1, <2>2
<1>11. QED
  BY <1>3, <1>4, <1>5, <1>6, <1>7, <1>9, <1>10 DEF Reads

\* A writing step keeps its call lawful.
LEMMA WritesLawful ==
    ASSUME CallTypes, NEW c \in Call, Writes(c), NEW r, NEW m, Lawful(call[c], r, m, host)
    PROVE  Lawful(call'[c], r, m, host)
<1> DEFINE k == call[c]
           k2 == call'[c]
<1>0. k \in Calls /\ call \in [Call -> Calls]
  BY DEF CallTypes
<1>1. ASSUME NEW pc, Goto(c, pc)
      PROVE  /\ k2.pc = pc /\ k2.tool = k.tool /\ k2.host = k.host /\ k2.gone = k.gone
             /\ k2.approved = k.approved /\ k2.granted = k.granted
             /\ k2.text = k.text /\ k2.row = k.row
  <2>1. k2 = [k EXCEPT !.pc = pc]
    BY <1>0, <1>1 DEF Goto
  <2>2. QED
    BY <1>0, <2>1, Moved
<1>2. ASSUME NEW pc, Goto(c, pc), pc \notin BeforeRun \cup {"running"} PROVE Lawful(k2, r, m, host)
  BY <1>1, <1>2, PastLawful
<1>3. ASSUME CatchThrows(c) PROVE Lawful(k2, r, m, host)
  <2>1. k2 = [k EXCEPT !.pc = "failed", !.lost = TRUE]
    BY <1>0, <1>3 DEF CatchThrows
  <2>2. /\ k2.pc = "failed" /\ k2.tool = k.tool /\ k2.host = k.host /\ k2.gone = k.gone
        /\ k2.approved = k.approved /\ k2.granted = k.granted
        /\ k2.text = k.text /\ k2.row = k.row
    BY <1>0, <2>1 DEF Calls
  <2>3. QED
    BY <2>2, PastLawful DEF BeforeRun
<1>4. CASE Evaluate(c)
  <2>1. CASE Goto(c, "decide")
    <3>1. k.pc = "evaluate"
      BY <1>4 DEF Evaluate, At
    <3>2. QED
      BY <1>1, <2>1, <3>1
         DEF Lawful, Quiet, Checked, Cleared, Permitted, Lost, BeforeRun, Approving
  <2>2. QED
    BY <1>2, <1>4, <2>1 DEF Evaluate, BeforeRun
<1>5. CASE Decide(c)
  <2>1. CASE Goto(c, "start") /\ Decision(k.tool, k.row, k.text) # "denied"
    <3>1. k.pc = "decide"
      BY <1>5 DEF Decide, At
    <3>2. ~k.row.root /\ k.text \notin Denied
      BY <2>1 DEF Decision
    <3>3. QED
      BY <1>1, <2>1, <3>1, <3>2
         DEF Lawful, Quiet, Checked, Cleared, Permitted, Lost, BeforeRun, Approving
  <2>2. (Goto(c, "start") /\ Decision(k.tool, k.row, k.text) # "denied") \/ Goto(c, "failed")
    BY <1>5 DEF Decide
  <2>3. QED
    BY <1>2, <2>1, <2>2 DEF BeforeRun
<1>6. CASE Start(c)
  <2>1. CASE Goto(c, "execute")
    <3>1. k.pc = "start"
      BY <1>6 DEF Start, At
    <3>2. QED
      BY <1>1, <2>1, <3>1
         DEF Lawful, Quiet, Checked, Cleared, Permitted, Lost, BeforeRun, Approving
  <2>2. QED
    BY <1>2, <1>6, <2>1 DEF Start, BeforeRun
<1>7. CASE Log(c)
  <2>1. Goto(c, "returned") \/ Goto(c, "finish") \/ Goto(c, "catchLog")
    BY <1>7 DEF Log
  <2>2. QED
    BY <1>2, <2>1 DEF BeforeRun
<1>8. CASE FinishEvent(c)
  <2>1. Goto(c, "evidence") \/ Goto(c, "catchLog")
    BY <1>8 DEF FinishEvent
  <2>2. QED
    BY <1>2, <2>1 DEF BeforeRun
<1>9. CASE RecordEvidence(c)
  BY <1>2, <1>9 DEF RecordEvidence, BeforeRun
<1>10. CASE CatchLog(c)
  <2>1. Goto(c, "failed") \/ Goto(c, "catchFinish") \/ CatchThrows(c)
    BY <1>10 DEF CatchLog
  <2>2. QED
    BY <1>2, <1>3, <2>1 DEF BeforeRun
<1>11. CASE CatchFinish(c)
  BY <1>2, <1>3, <1>11 DEF CatchFinish, BeforeRun
<1>12. QED
  BY <1>4, <1>5, <1>6, <1>7, <1>8, <1>9, <1>10, <1>11 DEF Writes

\* A request starts a lawful call.
LEMMA RequestLawful ==
    ASSUME CallTypes, NEW c \in Call, NEW t \in Tools, NEW h \in Hosts, NEW id,
           Request(c, t, h, id), NEW r, NEW m, Lawful(call[c], r, m, host)
    PROVE  Lawful(call'[c], r, m, host)
<1> DEFINE k2 == call'[c]
           pc == CASE t = "inspect" -> "askSim"
                   [] t = "command" -> "waiting"
                   [] t = "test" -> "readSimHost"
           text == IF t = "command" THEN None ELSE id
           gone == h \in Host /\ host[h].status = "deleted"
<1>1. k2 = [NoCall EXCEPT !.pc = pc, !.tool = t, !.host = h, !.id = id, !.text = text, !.gone = gone]
  BY DEF Request, CallTypes
<1>2. t \in {"inspect", "command", "test"}
  BY DEF Tools, AgentTool
<1>3. /\ k2.pc = pc /\ k2.tool = t /\ k2.host = h /\ k2.gone = gone
  <2> HIDE DEF pc, text, gone
  <2>1. QED
    BY <1>1 DEF NoCall
<1>4. call[c].pc = "idle"
  BY DEF Request, At
<1>5. <<t, pc>> \in {<<"inspect", "askSim">>, <<"command", "waiting">>, <<"test", "readSimHost">>}
  BY <1>2
<1> HIDE DEF pc
<1>6. QED
  BY <1>3, <1>4, <1>5
     DEF Lawful, Quiet, Checked, Cleared, Permitted, Lost, BeforeRun, Approving

\* The beginning of an execution keeps its call lawful.
LEMMA ExecuteLawful ==
    ASSUME ExecTypeOK, CallTypes, NEW c \in Call, Execute(c),
           Lawful(call[c], conn[c], remote[c], host)
    PROVE  Lawful(call'[c], conn'[c], remote'[c], host)
<1> DEFINE k == call[c]
           k2 == call'[c]
<1>0. /\ k \in Calls /\ call \in [Call -> Calls]
      /\ conn \in [Call -> Connection] /\ remote \in [Call -> Remote]
  BY ExecTypes DEF CallTypes
<1>1. k.pc = "execute" /\ Goto(c, "running")
  BY DEF Execute, At
<1>2. /\ k2.pc = "running" /\ k2.tool = k.tool /\ k2.host = k.host /\ k2.gone = k.gone
      /\ k2.approved = k.approved /\ k2.granted = k.granted
      /\ k2.text = k.text /\ k2.row = k.row
  <2>1. k2 = [k EXCEPT !.pc = "running"]
    BY <1>0, <1>1 DEF Goto
  <2>2. QED
    BY <1>0, <2>1, Moved
<1>3. CASE Simulate(c)
  <2>1. remote'[c] = "simulated" /\ conn'[c].client = conn[c].client
    BY <1>0, <1>3, SimulateBegins
  <2>2. conn[c].client = "none"
    BY <1>1 DEF Lawful, Quiet, BeforeRun
  <2>3. QED
    BY <1>1, <1>2, <2>1, <2>2
       DEF Lawful, Quiet, Checked, Cleared, Permitted, Lost, BeforeRun, Approving
<1>4. CASE Connect(c) /\ k.row.status # "simulated"
  <2>1. k.tool # "test" => Permitted(k2)
    BY <1>1, <1>2, <1>4 DEF Lawful, Checked, Permitted, BeforeRun
  <2>2. ~k.gone
    BY <1>1 DEF Lawful, Lost
  <2>3. QED
    BY <1>1, <1>2, <2>1, <2>2
       DEF Lawful, Quiet, Checked, Cleared, Lost, BeforeRun, Approving
<1>5. QED
  BY <1>3, <1>4 DEF Execute

\* A callback keeps its call lawful.
LEMMA CallbackLawful ==
    ASSUME NEW k, NEW r, NEW m, NEW r2, NEW m2, Lawful(k, r, m, host), Works(r, m, r2, m2)
    PROVE  Lawful(k, r2, m2, host)
<1>1. Quiet(k, r2, m2)
  BY DEF Lawful, Quiet, Works
<1>2. Cleared(k, r2, m2)
  BY DEF Lawful, Cleared, Works
<1>3. Lost(k, r2, m2, host)
  BY DEF Lawful, Lost, Works
<1>4. QED
  BY <1>1, <1>2, <1>3 DEF Lawful

\* A death keeps calls lawful.
LEMMA DieLawful ==
    ASSUME ExecTypeOK, CallTypes, Die, NEW c \in Call, Lawful(call[c], conn[c], remote[c], host)
    PROVE  Lawful(call'[c], conn'[c], remote[c], host)
<1> DEFINE k == call[c]
           k2 == call'[c]
           r2 == conn'[c]
<1>0. k \in Calls
  BY DEF CallTypes
<1>1. /\ r2.client = "none"
      /\ r2.outcome = IF k.pc \in Executing THEN "pending" ELSE conn[c].outcome
  BY DieConnections
<1>2. k2 = IF k.pc \in Executing THEN [k EXCEPT !.pc = "dead"] ELSE k
  BY DEF Die
<1> HIDE DEF Die
<1>3. /\ k2.pc = (IF k.pc \in Executing THEN "dead" ELSE k.pc)
      /\ k2.tool = k.tool /\ k2.host = k.host /\ k2.gone = k.gone
      /\ k2.approved = k.approved /\ k2.granted = k.granted
      /\ k2.text = k.text /\ k2.row = k.row
  <2>1. CASE k.pc \in Executing
    BY <1>0, <1>2, <2>1, Moved
  <2>2. CASE k.pc \notin Executing
    BY <1>2, <2>2
  <2>3. QED
    BY <2>1, <2>2
<1>4. CASE k.pc \in Executing
  <2>1. k2.pc = "dead"
    BY <1>3, <1>4
  <2>2. Lawful(k2, conn[c], remote[c], host)
    BY <1>3, <2>1, PastLawful DEF BeforeRun
  <2>3. QED
    BY <1>1, <2>1, <2>2 DEF Lawful, Quiet, Cleared, Lost, BeforeRun
<1>5. CASE k.pc \notin Executing
  <2>1. k2 = k
    BY <1>2, <1>5
  <2>2. QED
    BY <1>1, <1>5, <2>1 DEF Lawful, Quiet, Cleared, Lost
<1>6. QED
  BY <1>4, <1>5

\* A deleted host stays deleted.
LEMMA DeletedStays ==
    ASSUME AdminTypes, Administer, NEW h \in Host, host[h].status = "deleted"
    PROVE  host'[h].status = "deleted"
<1>1. [Absent EXCEPT !.status = "deleted"].status = "deleted"
  BY DEF Absent
<1>2. QED
  BY <1>1 DEF AdminTypes, Administer, UpdateSimulation, UpdatePolicy, CreateHost, ReadForUpdate,
     UpdateHost, DeleteHost

\* Every call is lawful from the start.
LEMMA LawfulInit == Init => AllLawful
<1> SUFFICES ASSUME Init, NEW c \in Call PROVE Lawful(call[c], conn[c], remote[c], host)
  BY DEF AllLawful
<1>1. call[c] = NoCall /\ conn[c] = NoConnection /\ remote[c] = "none"
  BY DEF Init, ExecInit
<1>2. NoCall.pc = "idle" /\ NoCall.gone = FALSE /\ NoCall.tool = "test"
  BY DEF NoCall
<1>3. NoConnection.client = "none" /\ NoConnection.outcome = "pending"
  BY DEF NoConnection
<1>4. QED
  BY <1>1, <1>2, <1>3 DEF Lawful, Quiet, Checked, Cleared, Lost, Approving

\* And every step keeps it so.
LEMMA LawfulNext == Types /\ AllLawful /\ [Next]_vars => AllLawful'
<1> SUFFICES ASSUME Types, AllLawful, [Next]_vars, NEW d \in Call
             PROVE  Lawful(call'[d], conn'[d], remote'[d], host')
  BY DEF AllLawful
<1>0. /\ ExecTypeOK /\ AdminTypes /\ CallTypes /\ AuditTypes
      /\ remote \in [Call -> Remote] /\ call \in [Call -> Calls] /\ conn \in [Call -> Connection]
      /\ \A c \in Call : Lawful(call[c], conn[c], remote[c], host)
  BY ExecTypes DEF Types, CallTypes, AllLawful
<1>1. ASSUME NEW c \in Call, NEW k, call' = [call EXCEPT ![c] = k], UNCHANGED <<execVars, host>>,
             Lawful(call'[c], conn[c], remote[c], host)
      PROVE  Lawful(call'[d], conn'[d], remote'[d], host')
  BY <1>0, <1>1 DEF execVars
<1>2. CASE UNCHANGED vars
  <2>1. UNCHANGED <<call, conn, remote, host>>
    BY <1>2 DEF vars, execVars, adminVars
  <2>2. QED
    BY <1>0, <2>1
<1>3. CASE Administer
  <2>1. UNCHANGED <<call, conn, remote>>
    BY <1>3, AdministerOnly DEF execVars
  <2>2. call[d].gone => call[d].host \in Host /\ host'[call[d].host].status = "deleted"
    BY <1>0, <1>3, DeletedStays DEF Lawful, Lost
  <2>3. QED
    BY <1>0, <2>1, <2>2 DEF Lawful, Lost
<1>4. CASE Die
  <2>1. UNCHANGED <<remote, host>>
    BY <1>4 DEF Die
  <2>2. Lawful(call'[d], conn'[d], remote[d], host)
    BY <1>0, <1>4, DieLawful
  <2>3. QED
    BY <2>1, <2>2
<1>5. ASSUME NEW c \in Call, NEW t \in Tools, NEW h \in Hosts, NEW id \in Command(t),
             Request(c, t, h, id)
      PROVE  Lawful(call'[d], conn'[d], remote'[d], host')
  <2>1. Lawful(call'[c], conn[c], remote[c], host)
    BY <1>0, <1>5, RequestLawful
  <2>2. UNCHANGED <<execVars, host>> /\ \E k : call' = [call EXCEPT ![c] = k]
    BY <1>5 DEF Request, adminVars
  <2>3. QED
    BY <1>1, <2>1, <2>2
<1>6. ASSUME NEW c \in Call, Reads(c) \/ Writes(c) \/ Settled(c)
      PROVE  Lawful(call'[d], conn'[d], remote'[d], host')
  <2>1. UNCHANGED <<execVars, host>>
    BY <1>6, ReadsOnly, WritesOnly DEF Settled, adminVars
  <2>2. \E k : call' = [call EXCEPT ![c] = k]
    BY <1>6, <1>0 DEF Reads, AskSim, AskPolicy, Approve, Decline, ReadPolicy, ReadSim, ReadSimHost,
       ReadHost, ReadThrows, Found, Goto, Writes, Evaluate, Decide, Start, Log, FinishEvent,
       RecordEvidence, CatchLog, CatchFinish, CatchThrows, Settled
  <2>3. ASSUME Settled(c) PROVE Lawful(call'[c], conn[c], remote[c], host)
    <3>1. PICK pc \in {"catchLog", "log"} : Goto(c, pc)
      BY <2>3 DEF Settled
    <3>2. call'[c] = [call[c] EXCEPT !.pc = pc] /\ call[c] \in Calls
      BY <1>0, <3>1 DEF Goto
    <3>3. pc \notin BeforeRun \cup {"running"}
      BY DEF BeforeRun
    <3>4. Lawful(call[c], conn[c], remote[c], host)
      BY <1>0
    <3>5. QED
      <4> DEFINE k == call[c]
                 k2 == call'[c]
      <4>1. /\ k2.pc = pc /\ k2.tool = k.tool /\ k2.host = k.host /\ k2.gone = k.gone
            /\ k2.approved = k.approved /\ k2.granted = k.granted
            /\ k2.text = k.text /\ k2.row = k.row
        BY <3>2, Moved
      <4> HIDE DEF k, k2
      <4>2. QED
        BY <3>3, <3>4, <4>1, PastLawful DEF k, k2
  <2>4. Lawful(call'[c], conn[c], remote[c], host)
    BY <1>0, <1>6, <2>3, ReadsLawful, WritesLawful
  <2>5. QED
    BY <1>1, <2>1, <2>2, <2>4
<1>7. ASSUME NEW c \in Call, Exec(c) PROVE Lawful(call'[d], conn'[d], remote'[d], host')
  <2>1. PICK r \in Connection, m \in Remote :
           /\ conn' = [conn EXCEPT ![c] = r] /\ remote' = [remote EXCEPT ![c] = m]
           /\ Works(conn[c], remote[c], r, m)
    BY <1>0, <1>7, CallbackWorks DEF Exec
  <2>2. UNCHANGED <<call, host>>
    BY <1>7 DEF Exec, adminVars
  <2>3. Lawful(call[c], r, m, host)
    BY <1>0, <2>1, CallbackLawful
  <2>4. QED
    BY <1>0, <2>1, <2>2, <2>3
<1>8. ASSUME NEW c \in Call, Execute(c) PROVE Lawful(call'[d], conn'[d], remote'[d], host')
  <2>1. Lawful(call'[c], conn'[c], remote'[c], host)
    BY <1>0, <1>8, ExecuteLawful
  <2>2. host' = host /\ call' = [call EXCEPT ![c].pc = "running"]
    BY <1>8 DEF Execute, adminVars, Goto
  <2>3. d # c => conn'[d] = conn[d] /\ remote'[d] = remote[d]
    BY <1>0, <1>8 DEF Execute, Simulate, Connect
  <2>4. QED
    BY <1>0, <2>1, <2>2, <2>3
<1>9. QED
  BY <1>2, <1>3, <1>4, <1>5, <1>6, <1>7, <1>8
     DEF Next, Reads, Writes, Proceed, Tools, Hosts

-----------------------------------------------------------------------------
(* What the audits hold                                                    *)

Entries(s) == {s[i] : i \in DOMAIN s}
ResultEvent(r) == IF r.outcome = "exit0" THEN "completed" ELSE "failed"
ResultStatus(r) == IF r.outcome = "exit0" THEN "success" ELSE "failed"

\* A promise and its command.
Kept(k, r, m) ==
    /\ r.outcome = "exit0" => m \in {"zero", "simulated"}
    /\ r.client = "connecting" /\ r.outcome = "pending" => m = "none"
    /\ r.outcome = "pending" /\ r.client # "none" => k.pc = "running"
    /\ k.pc \in {"log", "finish", "evidence", "catchLog", "catchFinish", "returned"}
          => r.outcome # "pending"

\* The audits of a call of a tool, where it stands.
Trail(k, r, tr) ==
    /\ k.pc \in BeforeRun \ {"decide", "start", "execute"} => tr = <<>>
    /\ k.pc = "decide" => Len(tr) = 1 /\ tr[1] = "evaluated"
    /\ k.pc = "start" => Len(tr) = 2 /\ tr[2] \in {"enforced", "allowed"}
    /\ k.pc \in {"execute", "running", "log", "finish"} => Len(tr) = 3 /\ tr[3] = "started"
    /\ k.pc \in {"evidence", "returned"} =>
          Len(tr) = 4 /\ tr[3] = "started" /\ tr[4] = ResultEvent(r)
    /\ k.pc \in {"catchLog", "catchFinish"} =>
          Len(tr) > 0 /\ tr[Len(tr)] \in {"started", "completed", "failed"}
Rowed(k, r, lg) ==
    /\ k.pc \in {"running", "log"} => lg = <<>>
    /\ k.pc \in {"finish", "evidence", "returned"} => lg = <<ResultStatus(r)>>
    /\ k.pc = "catchFinish" => EndsWith(lg, "failed")
FailedIsRecorded(k, r, tr, lg) ==
    k.pc = "failed" /\ r.outcome # "pending" /\ ~k.lost =>
        EndsWith(tr, "failed") /\ EndsWith(lg, "failed")

Told(k, r, m, tr, lg, ev) ==
    /\ Kept(k, r, m)
    /\ "success" \in Entries(lg) \/ "completed" \in Entries(tr) => m \in {"zero", "simulated"}
    /\ k.pc \in BeforeRun => lg = <<>> /\ ~ev
    /\ k.tool = "test" =>
          tr = <<>> /\ k.pc \notin {"evaluate", "decide", "start", "finish", "evidence", "catchFinish"}
    /\ k.tool # "test" =>
          /\ Trail(k, r, tr) /\ Rowed(k, r, lg) /\ FailedIsRecorded(k, r, tr, lg)
          /\ ev => k.pc = "returned"
AllTold == \A c \in Call : Told(call[c], conn[c], remote[c], trail[c], sshLog[c], evidence[c])

\* A sequence and what is appended to it.
LEMMA Appended ==
    ASSUME NEW S, NEW s \in Seq(S), NEW e \in S
    PROVE  /\ Append(s, e) \in Seq(S) /\ Append(s, e) # <<>>
           /\ Len(s) \in Nat /\ Len(Append(s, e)) = Len(s) + 1
           /\ \A i \in 1 .. Len(s) : Append(s, e)[i] = s[i]
           /\ Append(s, e)[Len(Append(s, e))] = e
           /\ EndsWith(Append(s, e), e)
           /\ Entries(Append(s, e)) = Entries(s) \cup {e}
           /\ s = <<>> => Append(s, e) = <<e>>
<1> DEFINE t == Append(s, e)
<1>1. /\ t \in Seq(S) /\ t # <<>> /\ Len(t) = Len(s) + 1 /\ Len(s) \in Nat
      /\ \A i \in 1 .. Len(s) : t[i] = s[i]
      /\ t[Len(s) + 1] = e
  BY AppendProperties, LenProperties
<1>2. DOMAIN t = 1 .. Len(s) + 1 /\ DOMAIN s = 1 .. Len(s)
  BY <1>1, LenProperties
<1>3. s = <<>> => t = <<e>>
  OBVIOUS
<1> HIDE DEF t
<1>4. Entries(t) = Entries(s) \cup {e}
  <2>1. 1 .. Len(s) + 1 = (1 .. Len(s)) \cup {Len(s) + 1}
    BY <1>1
  <2>2. QED
    BY <1>1, <1>2, <2>1 DEF Entries
<1>5. EndsWith(t, e)
  BY <1>1 DEF EndsWith
<1>6. QED
  BY <1>1, <1>3, <1>4, <1>5 DEF t

\* An audit and its new entry.
LEMMA AppendedEvent ==
    ASSUME AuditTypes, NEW c \in Call, NEW e \in Event
    PROVE  LET t == Append(trail[c], e)
           IN  /\ Len(trail[c]) \in Nat /\ Len(t) = Len(trail[c]) + 1
               /\ \A i \in 1 .. Len(trail[c]) : t[i] = trail[c][i]
               /\ t # <<>> /\ t[Len(t)] = e /\ EndsWith(t, e)
               /\ Entries(t) = Entries(trail[c]) \cup {e}
<1>1. trail[c] \in Seq(Event)
  BY DEF AuditTypes
<1>2. QED
  BY <1>1, Appended

\* A row and the rows before it.
LEMMA AppendedStatus ==
    ASSUME AuditTypes, NEW c \in Call, NEW e \in Status
    PROVE  LET t == Append(sshLog[c], e)
           IN  /\ EndsWith(t, e) /\ Entries(t) = Entries(sshLog[c]) \cup {e}
               /\ sshLog[c] = <<>> => t = <<e>>
<1>1. sshLog[c] \in Seq(Status)
  BY DEF AuditTypes
<1>2. QED
  BY <1>1, Appended

\* Where a reading step leads.
LEMMA ReadsLead ==
    ASSUME CallTypes, NEW c \in Call, Reads(c)
    PROVE  /\ call[c].pc \in Asking \cup {"readSimHost", "readHost"}
           /\ call'[c].tool = call[c].tool /\ call'[c].lost = call[c].lost
           /\ call'[c].pc \in Asking \cup {"readSimHost", "readHost", "evaluate", "failed", "declined"}
              \/ (call'[c].pc = "execute" /\ call[c].tool = "test")
           /\ call'[c].pc = "evaluate" => call[c].tool # "test"
<1> DEFINE k == call[c]
           k2 == call'[c]
<1>0. k \in Calls /\ call \in [Call -> Calls]
  BY DEF CallTypes
<1>1. /\ k.pc \in Asking \cup {"readSimHost", "readHost"}
  BY DEF Reads, AskSim, AskPolicy, Approve, Decline, ReadPolicy, ReadSim, ReadSimHost,
         ReadHost, ReadThrows, At, Asking, Approving, Reading
<1>2. ASSUME NEW pc, Goto(c, pc) PROVE k2.pc = pc /\ k2.tool = k.tool /\ k2.lost = k.lost
  <2>1. k2 = [k EXCEPT !.pc = pc]
    BY <1>0, <1>2 DEF Goto
  <2>2. QED
    BY <1>0, <2>1, Moved
<1>3. CASE AskSim(c) \/ AskPolicy(c) \/ Decline(c) \/ ReadThrows(c)
  <2>1. PICK pc \in {"waiting", "askPolicy", "readPolicy", "declined", "failed"} : Goto(c, pc)
    BY <1>3 DEF AskSim, AskPolicy, Decline, ReadThrows
  <2>2. QED
    BY <1>1, <1>2, <2>1 DEF Asking
<1>4. CASE Approve(c)
  <2>1. k2 = [k EXCEPT !.pc = "readPolicy", !.approved = TRUE]
    BY <1>0, <1>4 DEF Approve
  <2>2. QED
    BY <1>0, <1>1, <2>1 DEF Calls, Asking
<1>5. CASE ReadPolicy(c)
  <2> DEFINE offer == policy[k.tool].offers[k.id]
             granted == offer # None
  <2>1. k2 = [k EXCEPT !.pc = "readSim", !.granted = granted, !.text = offer]
    BY <1>0, <1>5 DEF ReadPolicy
  <2> HIDE DEF offer, granted
  <2>2. QED
    BY <1>0, <1>1, <2>1 DEF Calls, Asking
<1>6. CASE ReadSim(c)
  <2> DEFINE text == IF ~IsSimulated(c) THEN k.text
                     ELSE IF k.tool = "inspect" THEN k.id ELSE SimText[k.id]
             pc == IF text # None THEN "readSimHost" ELSE "failed"
  <2>1. k2 = [k EXCEPT !.pc = pc, !.text = text]
    BY <1>0, <1>6 DEF ReadSim
  <2>2. pc \in {"readSimHost", "failed"}
    OBVIOUS
  <2> HIDE DEF pc, text
  <2>3. QED
    BY <1>0, <1>1, <2>1, <2>2 DEF Calls
<1>7. ASSUME NEW row, Found(c, row)
      PROVE  /\ k2.tool = k.tool /\ k2.lost = k.lost
             /\ k2.pc \in {"evaluate", "failed"} \/ (k2.pc = "execute" /\ k.tool = "test")
             /\ k2.pc = "evaluate" => k.tool # "test"
  <2> DEFINE pc == IF k.tool = "test" THEN "execute"
                   ELSE IF row.enabled THEN "evaluate" ELSE "failed"
  <2>1. k2 = [k EXCEPT !.row = row, !.pc = pc]
    BY <1>0, <1>7 DEF Found
  <2>2. /\ pc \in {"evaluate", "failed"} \/ (pc = "execute" /\ k.tool = "test")
        /\ pc = "evaluate" => k.tool # "test"
    OBVIOUS
  <2> HIDE DEF pc
  <2>3. QED
    BY <1>0, <2>1, <2>2 DEF Calls
<1>8. CASE ReadSimHost(c)
  <2>1. Found(c, SimulatedHost) \/ Goto(c, "readHost")
    BY <1>8 DEF ReadSimHost
  <2>2. QED
    BY <1>1, <1>2, <1>7, <2>1
<1>9. CASE ReadHost(c)
  <2>1. Found(c, host[k.host]) \/ Goto(c, "failed")
    BY <1>9 DEF ReadHost
  <2>2. QED
    BY <1>1, <1>2, <1>7, <2>1
<1>10. QED
  BY <1>3, <1>4, <1>5, <1>6, <1>8, <1>9 DEF Reads

\* A reading step writes nothing.
LEMMA ReadsTold ==
    ASSUME CallTypes, NEW c \in Call, Reads(c),
           NEW r, NEW m, NEW tr, NEW lg, NEW ev \in BOOLEAN,
           Quiet(call[c], r, m), Told(call[c], r, m, tr, lg, ev)
    PROVE  Told(call'[c], r, m, tr, lg, ev)
<1> DEFINE k == call[c]
           k2 == call'[c]
<1>1. /\ k.pc \in Asking \cup {"readSimHost", "readHost"}
      /\ k2.tool = k.tool /\ k2.lost = k.lost
      /\ k2.pc \in Asking \cup {"readSimHost", "readHost", "evaluate", "failed", "declined"}
         \/ (k2.pc = "execute" /\ k.tool = "test")
      /\ k2.pc = "evaluate" => k.tool # "test"
  BY ReadsLead
<1> HIDE DEF k, k2
<1>2. r.client = "none" /\ r.outcome = "pending" /\ m = "none" /\ lg = <<>> /\ ~ev /\ k.pc \in BeforeRun
  BY <1>1 DEF k, Quiet, Told, BeforeRun, Asking
<1>3. tr = <<>> /\ "success" \notin Entries(lg) /\ "completed" \notin Entries(tr)
  BY <1>1, <1>2 DEF k, Told, Trail, BeforeRun, Asking
<1>4. Kept(k2, r, m)
  BY <1>1, <1>2 DEF Kept, Asking
<1>5. Trail(k2, r, tr) \/ k.tool = "test"
  BY <1>1, <1>3 DEF Trail, BeforeRun, Asking
<1>6. Rowed(k2, r, lg) /\ FailedIsRecorded(k2, r, tr, lg)
  BY <1>1, <1>2 DEF Rowed, FailedIsRecorded, Asking
<1>7. k2.tool = "test" => k2.pc \notin {"evaluate", "decide", "start", "finish", "evidence", "catchFinish"}
  BY <1>1 DEF Asking
<1>8. k2.pc \in BeforeRun => lg = <<>> /\ ~ev
  BY <1>2
<1>9. QED
  BY <1>1, <1>2, <1>3, <1>4, <1>5, <1>6, <1>7, <1>8 DEF Told, k, k2

\* What a writing step does to its call's record.
LEMMA WritesLead ==
    ASSUME CallTypes, NEW c \in Call
    PROVE  /\ \A pc : Goto(c, pc) => /\ call'[c].pc = pc /\ call'[c].tool = call[c].tool
                                     /\ call'[c].lost = call[c].lost
           /\ CatchThrows(c) => /\ call'[c].pc = "failed" /\ call'[c].tool = call[c].tool
                                /\ call'[c].lost
<1>0. call[c] \in Calls /\ call \in [Call -> Calls]
  BY DEF CallTypes
<1>1. ASSUME NEW pc, Goto(c, pc)
      PROVE  call'[c].pc = pc /\ call'[c].tool = call[c].tool /\ call'[c].lost = call[c].lost
  <2>1. call'[c] = [call[c] EXCEPT !.pc = pc]
    BY <1>0, <1>1 DEF Goto
  <2>2. QED
    BY <1>0, <2>1, Moved
<1>2. ASSUME CatchThrows(c)
      PROVE  call'[c].pc = "failed" /\ call'[c].tool = call[c].tool /\ call'[c].lost
  <2>1. call'[c] = [call[c] EXCEPT !.pc = "failed", !.lost = TRUE]
    BY <1>0, <1>2 DEF CatchThrows
  <2>2. QED
    BY <1>0, <2>1 DEF Calls
<1>3. QED
  BY <1>1, <1>2

\* What an INSERT leaves, answered or not.
LEMMA InsertedEvent ==
    ASSUME AuditTypes, NEW c \in Call, NEW e
    PROVE  /\ Insert(trail, c, e) => trail'[c] = Append(trail[c], e)
           /\ InsertThrows(trail, c, e) => trail'[c] \in {trail[c], Append(trail[c], e)}
           /\ Insert(sshLog, c, e) => sshLog'[c] = Append(sshLog[c], e)
           /\ InsertThrows(sshLog, c, e) => sshLog'[c] \in {sshLog[c], Append(sshLog[c], e)}
BY DEF Insert, InsertThrows, AuditTypes

\* The decision and the start are recorded in their order.
LEMMA DecisionsTold ==
    ASSUME CallTypes, AuditTypes, NEW c \in Call, Evaluate(c) \/ Decide(c) \/ Start(c),
           NEW r, NEW m, Quiet(call[c], r, m),
           Told(call[c], r, m, trail[c], sshLog[c], evidence[c])
    PROVE  Told(call'[c], r, m, trail'[c], sshLog[c], evidence[c])
<1> DEFINE k == call[c]
           k2 == call'[c]
           tr == trail[c]
           tr2 == trail'[c]
           d == Decision(k.tool, k.row, k.text)
<1>1. /\ k.pc \in {"evaluate", "decide", "start"}
      /\ r.client = "none" /\ r.outcome = "pending" /\ m = "none" /\ sshLog[c] = <<>>
      /\ ~evidence[c] /\ k.tool # "test"
  BY DEF Evaluate, Decide, Start, At, Quiet, Told, BeforeRun
<1>2. "completed" \notin Entries(tr) /\ "success" \notin Entries(sshLog[c])
  BY <1>1 DEF Told
<1>3. d \in {"denied", "enforced", "allowed"}
  BY DEF Decision
<1> HIDE DEF d
<1>4. \E e \in {"evaluated", "denied", "enforced", "allowed", "started"} :
         \/ k2.pc = "failed" /\ tr2 \in {tr, Append(tr, e)}
         \/ /\ tr2 = Append(tr, e)
            /\ \/ k.pc = "evaluate" /\ e = "evaluated" /\ k2.pc = "decide"
               \/ k.pc = "decide" /\ e = "denied" /\ k2.pc = "failed"
               \/ k.pc = "decide" /\ e \in {"enforced", "allowed"} /\ k2.pc = "start"
               \/ k.pc = "start" /\ e = "started" /\ k2.pc = "execute"
  <2>1. CASE Evaluate(c)
    BY <2>1, WritesLead, InsertedEvent DEF Evaluate, At
  <2>2. CASE Decide(c)
    <3>1. \/ Insert(trail, c, d) /\ Goto(c, IF d = "denied" THEN "failed" ELSE "start")
          \/ InsertThrows(trail, c, d) /\ Goto(c, "failed")
      BY <2>2 DEF Decide, d
    <3>2. \/ tr2 = Append(tr, d) /\ Goto(c, IF d = "denied" THEN "failed" ELSE "start")
          \/ tr2 \in {tr, Append(tr, d)} /\ Goto(c, "failed")
      BY <3>1 DEF Insert, InsertThrows, AuditTypes
    <3>3. k.pc = "decide"
      BY <2>2 DEF Decide, At
    <3>4. QED
      BY <1>3, <3>2, <3>3, WritesLead
  <2>3. CASE Start(c)
    BY <2>3, WritesLead, InsertedEvent DEF Start, At
  <2>4. QED
    BY <2>1, <2>2, <2>3
<1>5. k2.tool = k.tool
  BY WritesLead DEF Evaluate, Decide, Start
<1>6. PICK e \in {"evaluated", "denied", "enforced", "allowed", "started"} :
         \/ k2.pc = "failed" /\ tr2 \in {tr, Append(tr, e)}
         \/ /\ tr2 = Append(tr, e)
            /\ \/ k.pc = "evaluate" /\ e = "evaluated" /\ k2.pc = "decide"
               \/ k.pc = "decide" /\ e = "denied" /\ k2.pc = "failed"
               \/ k.pc = "decide" /\ e \in {"enforced", "allowed"} /\ k2.pc = "start"
               \/ k.pc = "start" /\ e = "started" /\ k2.pc = "execute"
  BY <1>4
<1>7. LET t == Append(tr, e)
      IN  /\ Len(tr) \in Nat /\ Len(t) = Len(tr) + 1 /\ t[Len(t)] = e
          /\ Entries(t) = Entries(tr) \cup {e}
  BY <1>6, AppendedEvent, Phases
<1>8. Trail(k, r, tr)
  BY <1>1 DEF Told
<1>9. "completed" \notin Entries(tr2)
  <2>1. tr2 = tr \/ tr2 = Append(tr, e)
    BY <1>6
  <2>2. "completed" \notin Entries(Append(tr, e))
    BY <1>2, <1>7
  <2> HIDE DEF tr, tr2
  <2>3. QED
    BY <1>2, <2>1, <2>2
<1>10. k2.pc \in {"failed", "decide", "start", "execute"}
  BY <1>6
<1>11. Trail(k2, r, tr2)
  <2>1. CASE k2.pc = "failed"
    BY <2>1 DEF Trail, BeforeRun
  <2>2. CASE k2.pc = "decide"
    <3>1. tr2 = Append(tr, "evaluated") /\ tr = <<>> /\ e = "evaluated"
      BY <1>6, <1>8, <2>2 DEF Trail, BeforeRun
    <3>2. Len(tr2) = 1 /\ tr2[1] = "evaluated"
      BY <1>7, <3>1
    <3>3. QED
      BY <2>2, <3>2 DEF Trail, BeforeRun
  <2>3. CASE k2.pc = "start"
    <3>1. tr2 = Append(tr, e) /\ Len(tr) = 1 /\ e \in {"enforced", "allowed"}
      BY <1>6, <1>8, <2>3 DEF Trail, BeforeRun
    <3>2. Len(tr2) = 2 /\ tr2[2] = e
      BY <1>7, <3>1
    <3>3. QED
      BY <2>3, <3>1, <3>2 DEF Trail, BeforeRun
  <2>4. CASE k2.pc = "execute"
    <3>1. tr2 = Append(tr, e) /\ Len(tr) = 2 /\ e = "started"
      BY <1>6, <1>8, <2>4 DEF Trail, BeforeRun
    <3>2. Len(tr2) = 3 /\ tr2[3] = "started"
      BY <1>7, <3>1
    <3>3. QED
      BY <2>4, <3>2 DEF Trail, BeforeRun
  <2>5. QED
    BY <1>10, <2>1, <2>2, <2>3, <2>4
<1> HIDE DEF k, k2, tr, tr2
<1>12. Kept(k2, r, m) /\ Rowed(k2, r, sshLog[c]) /\ FailedIsRecorded(k2, r, tr2, sshLog[c])
  BY <1>1, <1>10 DEF Kept, Rowed, FailedIsRecorded
<1>13. QED
  BY <1>1, <1>2, <1>5, <1>9, <1>11, <1>12 DEF Told, k, k2, tr, tr2

\* The row of the result.
LEMMA LogTold ==
    ASSUME CallTypes, AuditTypes, NEW c \in Call, Log(c), NEW m,
           Told(call[c], conn[c], m, trail[c], sshLog[c], evidence[c])
    PROVE  Told(call'[c], conn[c], m, trail[c], sshLog'[c], evidence[c])
<1> DEFINE k == call[c]
           k2 == call'[c]
           r == conn[c]
           lg == sshLog[c]
           lg2 == sshLog'[c]
           tr == trail[c]
           ev == evidence[c]
<1>1. k.pc = "log" /\ r.outcome # "pending" /\ (r.outcome = "exit0" => m \in {"zero", "simulated"})
  BY DEF Log, At, Told, Kept
<1>2. PICK s \in Status :
         /\ s = "success" => r.outcome = "exit0"
         /\ s = "failed" => r.outcome # "exit0" \/ k.tool = "test"
         /\ \/ Insert(sshLog, c, s) /\ Goto(c, IF k.tool = "test" THEN "returned" ELSE "finish")
            \/ InsertThrows(sshLog, c, s) /\ Goto(c, "catchLog")
  BY DEF Log, Status
<1>3. \/ lg2 = Append(lg, s) /\ Goto(c, IF k.tool = "test" THEN "returned" ELSE "finish")
      \/ lg2 \in {lg, Append(lg, s)} /\ Goto(c, "catchLog")
  BY <1>2, InsertedEvent
<1>4. /\ k2.tool = k.tool
      /\ \/ lg2 = Append(lg, s) /\ k2.pc = (IF k.tool = "test" THEN "returned" ELSE "finish")
         \/ lg2 \in {lg, Append(lg, s)} /\ k2.pc = "catchLog"
  BY <1>3, WritesLead
<1>5. EndsWith(Append(lg, s), s) /\ Entries(Append(lg, s)) = Entries(lg) \cup {s}
      /\ (lg = <<>> => Append(lg, s) = <<s>>)
  BY AppendedStatus
<1>6. Told(k, r, m, tr, lg, ev)
  OBVIOUS
<1> HIDE DEF k, k2, r, lg, lg2, tr, ev
<1>7. lg2 = lg \/ lg2 = Append(lg, s)
  BY <1>4
<1>8. "success" \in Entries(lg2) \/ "completed" \in Entries(tr) => m \in {"zero", "simulated"}
  <2>1. "success" \in Entries(Append(lg, s)) => m \in {"zero", "simulated"}
    BY <1>1, <1>2, <1>5, <1>6 DEF Told
  <2>2. QED
    BY <1>6, <1>7, <2>1 DEF Told
<1>9. k2.pc \in {"returned", "finish", "catchLog"} /\ (k2.pc = "returned" => k.tool = "test")
      /\ (k2.pc = "finish" => k.tool # "test")
  BY <1>4
<1>10. Kept(k2, r, m)
  BY <1>1 DEF Kept
<1>11. ASSUME k.tool # "test"
       PROVE  Trail(k2, r, tr) /\ Rowed(k2, r, lg2) /\ FailedIsRecorded(k2, r, tr, lg2) /\ ~ev
  <2>1. Len(tr) = 3 /\ tr[3] = "started" /\ lg = <<>> /\ ~ev
    BY <1>1, <1>6, <1>11 DEF Told, Trail, Rowed
  <2>2. Trail(k2, r, tr)
    BY <1>9, <1>11, <2>1 DEF Trail, BeforeRun
  <2>3. k2.pc = "finish" => lg2 = <<ResultStatus(r)>>
    BY <1>2, <1>4, <1>5, <1>11, <2>1 DEF ResultStatus, Status
  <2>4. Rowed(k2, r, lg2) /\ FailedIsRecorded(k2, r, tr, lg2)
    BY <1>9, <1>11, <2>3 DEF Rowed, FailedIsRecorded
  <2>5. QED
    BY <2>1, <2>2, <2>4
<1>12. Told(k2, r, m, tr, lg2, ev)
  BY <1>4, <1>6, <1>8, <1>9, <1>10, <1>11 DEF Told, BeforeRun
<1>13. QED
  BY <1>12 DEF k, k2, r, lg, lg2, tr, ev

\* The event of the result.
LEMMA FinishTold ==
    ASSUME CallTypes, AuditTypes, NEW c \in Call, FinishEvent(c), NEW m,
           Told(call[c], conn[c], m, trail[c], sshLog[c], evidence[c])
    PROVE  Told(call'[c], conn[c], m, trail'[c], sshLog[c], evidence[c])
<1> DEFINE k == call[c]
           k2 == call'[c]
           r == conn[c]
           lg == sshLog[c]
           tr == trail[c]
           tr2 == trail'[c]
           ev == evidence[c]
           e == ResultEvent(r)
<1>1. k.pc = "finish" /\ r.outcome # "pending" /\ (r.outcome = "exit0" => m \in {"zero", "simulated"})
      /\ k.tool # "test"
  BY DEF FinishEvent, At, Told, Kept
<1>2. \/ Insert(trail, c, e) /\ Goto(c, "evidence")
      \/ InsertThrows(trail, c, e) /\ Goto(c, "catchLog")
  BY DEF FinishEvent, ResultEvent
<1>3. /\ k2.tool = k.tool
      /\ \/ tr2 = Append(tr, e) /\ k2.pc = "evidence"
         \/ tr2 \in {tr, Append(tr, e)} /\ k2.pc = "catchLog"
  <2>1. \/ tr2 = Append(tr, e) /\ Goto(c, "evidence")
        \/ tr2 \in {tr, Append(tr, e)} /\ Goto(c, "catchLog")
    BY <1>2 DEF Insert, InsertThrows, AuditTypes
  <2>2. QED
    BY <2>1, WritesLead
<1>4. e \in Event /\ e \in {"completed", "failed"} /\ (e = "completed" => r.outcome = "exit0")
  BY Phases DEF ResultEvent
<1>5. /\ Len(tr) \in Nat /\ Len(Append(tr, e)) = Len(tr) + 1
      /\ \A i \in 1 .. Len(tr) : Append(tr, e)[i] = tr[i]
      /\ Append(tr, e)[Len(Append(tr, e))] = e
      /\ Entries(Append(tr, e)) = Entries(tr) \cup {e}
  BY <1>4, AppendedEvent
<1>6. Told(k, r, m, tr, lg, ev)
  OBVIOUS
<1>7. ResultEvent(r) = e
  OBVIOUS
<1> HIDE DEF k, k2, r, lg, tr, tr2, ev, e
<1>8. tr2 = tr \/ tr2 = Append(tr, e)
  BY <1>3
<1>9. "success" \in Entries(lg) \/ "completed" \in Entries(tr2) => m \in {"zero", "simulated"}
  <2>1. "completed" \in Entries(Append(tr, e)) => m \in {"zero", "simulated"}
    BY <1>1, <1>4, <1>5, <1>6 DEF Told
  <2>2. QED
    BY <1>6, <1>8, <2>1 DEF Told
<1>10. Len(tr) = 3 /\ tr[3] = "started" /\ lg = <<ResultStatus(r)>> /\ ~ev
  BY <1>1, <1>6 DEF Told, Trail, Rowed
<1>11. Len(Append(tr, e)) = 4 /\ Append(tr, e)[3] = "started" /\ Append(tr, e)[4] = e
  BY <1>5, <1>10
<1>12. k2.pc \in {"evidence", "catchLog"}
  BY <1>3
<1>13. Trail(k2, r, tr2)
  <2>1. CASE k2.pc = "evidence"
    <3>1. tr2 = Append(tr, e)
      BY <1>3, <2>1
    <3>2. QED
      BY <1>7, <1>11, <2>1, <3>1 DEF Trail, BeforeRun
  <2>2. CASE k2.pc = "catchLog"
    <3>1. Len(tr2) > 0 /\ tr2[Len(tr2)] \in {"started", "completed", "failed"}
      BY <1>4, <1>8, <1>10, <1>11
    <3>2. QED
      BY <2>2, <3>1 DEF Trail, BeforeRun
  <2>3. QED
    BY <1>12, <2>1, <2>2
<1>14. Kept(k2, r, m) /\ Rowed(k2, r, lg) /\ FailedIsRecorded(k2, r, tr2, lg)
  BY <1>1, <1>10, <1>12 DEF Kept, Rowed, FailedIsRecorded
<1>15. Told(k2, r, m, tr2, lg, ev)
  BY <1>1, <1>3, <1>9, <1>10, <1>12, <1>13, <1>14 DEF Told, BeforeRun
<1>16. QED
  BY <1>15 DEF k, k2, r, lg, tr, tr2, ev

\* The return.
LEMMA EvidenceTold ==
    ASSUME CallTypes, AuditTypes, NEW c \in Call, RecordEvidence(c), NEW m,
           Told(call[c], conn[c], m, trail[c], sshLog[c], evidence[c])
    PROVE  Told(call'[c], conn[c], m, trail[c], sshLog[c], evidence'[c])
<1> DEFINE k == call[c]
           k2 == call'[c]
           r == conn[c]
<1>1. k.pc = "evidence" /\ k2.pc = "returned" /\ k2.tool = k.tool /\ k.tool # "test"
  BY WritesLead DEF RecordEvidence, At, Told
<1>2. Told(k, r, m, trail[c], sshLog[c], evidence[c])
  OBVIOUS
<1> HIDE DEF k, k2, r
<1>3. Kept(k2, r, m)
  BY <1>1, <1>2 DEF Told, Kept
<1>4. Trail(k2, r, trail[c]) /\ Rowed(k2, r, sshLog[c]) /\ FailedIsRecorded(k2, r, trail[c], sshLog[c])
  BY <1>1, <1>2 DEF Told, Trail, Rowed, FailedIsRecorded, BeforeRun
<1>5. Told(k2, r, m, trail[c], sshLog[c], evidence'[c])
  BY <1>1, <1>2, <1>3, <1>4 DEF Told, BeforeRun
<1>6. QED
  BY <1>5 DEF k, k2, r

\* The row and the event of the catch clause.
LEMMA CatchTold ==
    ASSUME CallTypes, AuditTypes, NEW c \in Call, CatchLog(c) \/ CatchFinish(c), NEW m,
           Told(call[c], conn[c], m, trail[c], sshLog[c], evidence[c])
    PROVE  Told(call'[c], conn[c], m, trail'[c], sshLog'[c], evidence[c])
<1> DEFINE k == call[c]
           k2 == call'[c]
           r == conn[c]
           lg == sshLog[c]
           lg2 == sshLog'[c]
           tr == trail[c]
           tr2 == trail'[c]
           ev == evidence[c]
<1>1. /\ k.pc \in {"catchLog", "catchFinish"} /\ r.outcome # "pending"
      /\ r.outcome = "exit0" => m \in {"zero", "simulated"}
  BY DEF CatchLog, CatchFinish, At, Told, Kept
<1>2. /\ k2.tool = k.tool
      /\ \/ /\ k.pc = "catchLog" /\ tr2 = tr
            /\ \/ lg2 = Append(lg, "failed") /\ k2.pc = (IF k.tool = "test" THEN "failed" ELSE "catchFinish")
               \/ lg2 \in {lg, Append(lg, "failed")} /\ k2.pc = "failed" /\ k2.lost
         \/ /\ k.pc = "catchFinish" /\ lg2 = lg
            /\ \/ tr2 = Append(tr, "failed") /\ k2.pc = "failed"
               \/ tr2 \in {tr, Append(tr, "failed")} /\ k2.pc = "failed" /\ k2.lost
  <2>1. CASE CatchLog(c)
    BY <2>1, WritesLead, InsertedEvent DEF CatchLog, At
  <2>2. CASE CatchFinish(c)
    BY <2>2, WritesLead, InsertedEvent DEF CatchFinish, At
  <2>3. QED
    BY <2>1, <2>2
<1>3. /\ EndsWith(Append(lg, "failed"), "failed")
      /\ Entries(Append(lg, "failed")) = Entries(lg) \cup {"failed"}
  BY AppendedStatus, Phases
<1>4. /\ EndsWith(Append(tr, "failed"), "failed")
      /\ Entries(Append(tr, "failed")) = Entries(tr) \cup {"failed"}
  BY AppendedEvent, Phases
<1>5. Told(k, r, m, tr, lg, ev)
  OBVIOUS
<1> HIDE DEF k, k2, r, lg, lg2, tr, tr2, ev
<1>6. /\ lg2 = lg \/ lg2 = Append(lg, "failed")
      /\ tr2 = tr \/ tr2 = Append(tr, "failed")
  BY <1>2
<1>7. "success" \in Entries(lg2) \/ "completed" \in Entries(tr2) => m \in {"zero", "simulated"}
  <2>1. "success" \in Entries(lg2) => "success" \in Entries(lg)
    <3>1. "success" \in Entries(Append(lg, "failed")) => "success" \in Entries(lg)
      BY <1>3
    <3>2. QED
      BY <1>6, <3>1
  <2>2. "completed" \in Entries(tr2) => "completed" \in Entries(tr)
    <3>1. "completed" \in Entries(Append(tr, "failed")) => "completed" \in Entries(tr)
      BY <1>4
    <3>2. QED
      BY <1>6, <3>1
  <2>3. QED
    BY <1>5, <2>1, <2>2 DEF Told
<1>8. k2.pc \in {"failed", "catchFinish"} /\ (k2.pc = "catchFinish" => k.tool # "test" /\ k.pc = "catchLog")
  BY <1>2
<1>9. Kept(k2, r, m)
  BY <1>1 DEF Kept
<1>10. k.tool = "test" => k.pc = "catchLog"
  BY <1>1, <1>5 DEF Told
<1>11. ASSUME k.tool # "test"
       PROVE  /\ Trail(k2, r, tr2) /\ Rowed(k2, r, lg2) /\ FailedIsRecorded(k2, r, tr2, lg2)
              /\ ~ev
  <2>1. ~ev /\ Trail(k, r, tr) /\ Rowed(k, r, lg)
    BY <1>1, <1>5, <1>11 DEF Told
  <2>2. Trail(k2, r, tr2)
    <3>1. k2.pc = "catchFinish" => tr2 = tr
      BY <1>2
    <3>2. QED
      BY <1>8, <2>1, <3>1 DEF Trail, BeforeRun
  <2>3. Rowed(k2, r, lg2)
    BY <1>2, <1>3, <1>8 DEF Rowed
  <2>4. FailedIsRecorded(k2, r, tr2, lg2)
    <3>1. k.pc = "catchFinish" => EndsWith(lg, "failed")
      BY <2>1 DEF Rowed
    <3>2. k2.pc = "failed" /\ ~k2.lost => tr2 = Append(tr, "failed") /\ lg2 = lg /\ k.pc = "catchFinish"
      BY <1>2, <1>11
    <3>3. QED
      BY <1>4, <3>1, <3>2 DEF FailedIsRecorded
  <2>5. QED
    BY <2>1, <2>2, <2>3, <2>4
<1>12. k.tool = "test" => tr2 = <<>>
  BY <1>2, <1>5, <1>10 DEF Told
<1>13. Told(k2, r, m, tr2, lg2, ev)
  BY <1>2, <1>7, <1>8, <1>9, <1>11, <1>12 DEF Told, BeforeRun
<1>14. QED
  BY <1>13 DEF k, k2, r, lg, lg2, tr, tr2, ev

\* A request finds nothing recorded.
LEMMA RequestTold ==
    ASSUME CallTypes, NEW c \in Call, NEW t \in Tools, NEW h \in Hosts, NEW id,
           Request(c, t, h, id), NEW r, NEW m, NEW tr, NEW lg, NEW ev \in BOOLEAN,
           Quiet(call[c], r, m), Told(call[c], r, m, tr, lg, ev)
    PROVE  Told(call'[c], r, m, tr, lg, ev)
<1> DEFINE k == call[c]
           k2 == call'[c]
           pc == CASE t = "inspect" -> "askSim"
                   [] t = "command" -> "waiting"
                   [] t = "test" -> "readSimHost"
           text == IF t = "command" THEN None ELSE id
           gone == h \in Host /\ host[h].status = "deleted"
<1>1. k2 = [NoCall EXCEPT !.pc = pc, !.tool = t, !.host = h, !.id = id, !.text = text, !.gone = gone]
  BY DEF Request, CallTypes
<1>2. pc \in {"askSim", "waiting", "readSimHost"}
  BY DEF Tools, AgentTool
<1>3. k2.pc = pc /\ k2.tool = t
  <2> HIDE DEF pc, text, gone
  <2>1. QED
    BY <1>1 DEF NoCall
<1>4. k.pc = "idle"
  BY DEF Request, At
<1> HIDE DEF k, k2, pc, text, gone
<1>5. Told(k, r, m, tr, lg, ev) /\ Quiet(k, r, m)
  BY DEF k
<1>6. tr = <<>> /\ lg = <<>> /\ ~ev /\ r.client = "none" /\ r.outcome = "pending" /\ m = "none"
  BY <1>4, <1>5 DEF Told, Trail, Quiet, BeforeRun
<1>7. /\ Kept(k2, r, m) /\ Trail(k2, r, tr) /\ Rowed(k2, r, lg)
      /\ FailedIsRecorded(k2, r, tr, lg)
  BY <1>2, <1>3, <1>6 DEF Kept, Trail, Rowed, FailedIsRecorded, BeforeRun
<1>8. Told(k2, r, m, tr, lg, ev)
  BY <1>2, <1>3, <1>5, <1>6, <1>7 DEF Told, BeforeRun
<1>9. QED
  BY <1>8 DEF k2

\* The beginning of an execution.
LEMMA ExecuteTold ==
    ASSUME ExecTypeOK, CallTypes, NEW c \in Call, Execute(c), NEW tr, NEW lg, NEW ev \in BOOLEAN,
           Quiet(call[c], conn[c], remote[c]), Told(call[c], conn[c], remote[c], tr, lg, ev)
    PROVE  Told(call'[c], conn'[c], remote'[c], tr, lg, ev)
<1> DEFINE k == call[c]
           k2 == call'[c]
           r == conn[c]
           r2 == conn'[c]
           m == remote[c]
           m2 == remote'[c]
<1>0. conn \in [Call -> Connection] /\ remote \in [Call -> Remote]
  BY ExecTypes
<1>1. k.pc = "execute" /\ k2.pc = "running" /\ k2.tool = k.tool
  BY WritesLead DEF Execute, At
<1>2. r.client = "none" /\ r.outcome = "pending" /\ m = "none" /\ lg = <<>> /\ ~ev
  BY <1>1 DEF Told, Quiet, BeforeRun
<1>3. \/ m2 = "simulated" /\ r2.client = "none" /\ r2.outcome = "exit0"
      \/ m2 = "none" /\ r2.client = "connecting" /\ r2.outcome = "pending"
  <2>1. CASE Simulate(c)
    BY <1>0, <1>2, <2>1, SimulateBegins
  <2>2. CASE Connect(c)
    BY <1>0, <1>2, <2>2, ConnectBegins
  <2>3. QED
    BY <2>1, <2>2 DEF Execute
<1>4. Told(k, r, m, tr, lg, ev)
  OBVIOUS
<1> HIDE DEF k, k2, r, r2, m, m2
<1>5. "success" \notin Entries(lg) /\ "completed" \notin Entries(tr)
  BY <1>2, <1>4 DEF Told
<1>6. Kept(k2, r2, m2) /\ Rowed(k2, r2, lg) /\ FailedIsRecorded(k2, r2, tr, lg)
  BY <1>1, <1>2, <1>3 DEF Kept, Rowed, FailedIsRecorded
<1>7. k.tool # "test" => Trail(k2, r2, tr)
  BY <1>1, <1>4 DEF Told, Trail, BeforeRun
<1>8. Told(k2, r2, m2, tr, lg, ev)
  BY <1>1, <1>2, <1>4, <1>5, <1>6, <1>7 DEF Told, BeforeRun
<1>9. QED
  BY <1>8 DEF k2, r2, m2

\* The await of the promise.
LEMMA SettledTold ==
    ASSUME CallTypes, NEW c \in Call, Settled(c), NEW m, NEW tr, NEW lg, NEW ev \in BOOLEAN,
           Told(call[c], conn[c], m, tr, lg, ev)
    PROVE  Told(call'[c], conn[c], m, tr, lg, ev)
<1> DEFINE k == call[c]
           k2 == call'[c]
           r == conn[c]
<1>1. /\ k.pc = "running" /\ r.outcome # "pending" /\ k2.tool = k.tool
      /\ k2.pc \in {"log", "catchLog"}
  BY WritesLead DEF Settled, At
<1>2. Told(k, r, m, tr, lg, ev)
  OBVIOUS
<1> HIDE DEF k, k2, r
<1>3. Kept(k2, r, m)
  BY <1>1, <1>2 DEF Told, Kept
<1>4. k.tool # "test" =>
         Trail(k2, r, tr) /\ Rowed(k2, r, lg) /\ FailedIsRecorded(k2, r, tr, lg)
  BY <1>1, <1>2 DEF Told, Trail, Rowed, FailedIsRecorded, BeforeRun
<1>5. Told(k2, r, m, tr, lg, ev)
  BY <1>1, <1>2, <1>3, <1>4 DEF Told, BeforeRun
<1>6. QED
  BY <1>5 DEF k2, r

\* A callback.
LEMMA CallbackTold ==
    ASSUME NEW k, NEW r, NEW m, NEW r2, NEW m2, NEW tr, NEW lg, NEW ev \in BOOLEAN,
           Quiet(k, r, m), Told(k, r, m, tr, lg, ev), Works(r, m, r2, m2)
    PROVE  Told(k, r2, m2, tr, lg, ev)
<1>1. m \in {"zero", "simulated"} => m2 = m
  BY DEF Told, Kept, Works
<1>2. r2.outcome = "pending" => r.outcome = "pending"
  BY DEF Works
<1>3. r.outcome # "pending" => r2.outcome = r.outcome
  BY DEF Works
<1>4. Kept(k, r2, m2)
  BY <1>1, <1>2, <1>3 DEF Told, Kept, Works
<1>5. r.outcome = "pending" /\ r2.outcome # "pending" => k.pc = "running"
  BY DEF Told, Kept, Works
<1>6. k.tool # "test" =>
         Trail(k, r2, tr) /\ Rowed(k, r2, lg) /\ FailedIsRecorded(k, r2, tr, lg)
  <2>1. CASE r.outcome = "pending" /\ r2.outcome # "pending"
    BY <1>5, <2>1 DEF Told, Trail, Rowed, FailedIsRecorded, BeforeRun
  <2>2. CASE r2.outcome = r.outcome
    BY <2>2 DEF Told, Trail, Rowed, FailedIsRecorded, ResultEvent, ResultStatus
  <2>3. QED
    BY <1>2, <1>3, <2>1, <2>2
<1>7. QED
  BY <1>1, <1>4, <1>6 DEF Told

\* A death.
LEMMA DieTold ==
    ASSUME ExecTypeOK, CallTypes, Die, NEW c \in Call, NEW m, NEW tr, NEW lg, NEW ev \in BOOLEAN,
           Told(call[c], conn[c], m, tr, lg, ev)
    PROVE  Told(call'[c], conn'[c], m, tr, lg, ev)
<1> DEFINE k == call[c]
           k2 == call'[c]
           r == conn[c]
           r2 == conn'[c]
<1>0. k \in Calls
  BY DEF CallTypes
<1>1. r2.client = "none" /\ r2.outcome = IF k.pc \in Executing THEN "pending" ELSE r.outcome
  BY DieConnections
<1>2. k2 = IF k.pc \in Executing THEN [k EXCEPT !.pc = "dead"] ELSE k
  BY DEF Die
<1>3. Told(k, r, m, tr, lg, ev)
  OBVIOUS
<1> HIDE DEF Die, k, k2, r, r2
<1>4. CASE k.pc \in Executing
  <2>1. k2.pc = "dead" /\ k2.tool = k.tool /\ r2.outcome = "pending"
    BY <1>0, <1>1, <1>2, <1>4, Moved
  <2>2. k.tool # "test" => ~ev
    BY <1>3, <1>4 DEF Told, Executing, Approving, Reading, Auditing
  <2>3. /\ Kept(k2, r2, m) /\ Trail(k2, r2, tr) /\ Rowed(k2, r2, lg)
        /\ FailedIsRecorded(k2, r2, tr, lg)
    BY <1>1, <2>1 DEF Kept, Trail, Rowed, FailedIsRecorded, BeforeRun
  <2>4. Told(k2, r2, m, tr, lg, ev)
    BY <1>3, <2>1, <2>2, <2>3 DEF Told, BeforeRun
  <2>5. QED
    BY <2>4 DEF k2, r2
<1>5. CASE k.pc \notin Executing
  <2>1. k2 = k /\ r2.outcome = r.outcome
    BY <1>1, <1>2, <1>5
  <2>2. Kept(k, r2, m)
    BY <1>1, <1>3, <2>1 DEF Told, Kept
  <2>3. k.tool # "test" =>
           Trail(k, r2, tr) /\ Rowed(k, r2, lg) /\ FailedIsRecorded(k, r2, tr, lg)
    BY <1>3, <2>1 DEF Told, Trail, Rowed, FailedIsRecorded, ResultEvent, ResultStatus
  <2>4. Told(k, r2, m, tr, lg, ev)
    BY <1>3, <2>2, <2>3 DEF Told
  <2>5. QED
    BY <2>1, <2>4 DEF k2, r2
<1>6. QED
  BY <1>4, <1>5

\* The audits tell of every call from the start.
LEMMA ToldInit == Init => AllTold
<1> SUFFICES ASSUME Init, NEW c \in Call
             PROVE  Told(call[c], conn[c], remote[c], trail[c], sshLog[c], evidence[c])
  BY DEF AllTold
<1>1. /\ call[c] = NoCall /\ conn[c] = NoConnection /\ remote[c] = "none"
      /\ trail[c] = <<>> /\ sshLog[c] = <<>> /\ evidence[c] = FALSE
  BY DEF Init, ExecInit
<1>2. NoCall.pc = "idle" /\ NoCall.tool = "test"
  BY DEF NoCall
<1>3. NoConnection.client = "none" /\ NoConnection.outcome = "pending"
  BY DEF NoConnection
<1>4. Entries(<<>>) = {}
  BY DEF Entries
<1>5. QED
  BY <1>1, <1>2, <1>3, <1>4 DEF Told, Kept

\* And after every step.
LEMMA ToldNext == Types /\ AllLawful /\ AllTold /\ [Next]_vars => AllTold'
<1> SUFFICES ASSUME Types, AllLawful, AllTold, [Next]_vars, NEW d \in Call
             PROVE  Told(call'[d], conn'[d], remote'[d], trail'[d], sshLog'[d], evidence'[d])
  BY DEF AllTold
<1> DEFINE Goal == Told(call'[d], conn'[d], remote'[d], trail'[d], sshLog'[d], evidence'[d])
<1>0. /\ ExecTypeOK /\ AdminTypes /\ CallTypes /\ AuditTypes
      /\ remote \in [Call -> Remote] /\ call \in [Call -> Calls] /\ conn \in [Call -> Connection]
      /\ trail \in [Call -> Seq(Event)] /\ sshLog \in [Call -> Seq(Status)]
      /\ evidence \in [Call -> BOOLEAN]
      /\ \A c \in Call : Quiet(call[c], conn[c], remote[c])
      /\ \A c \in Call : Told(call[c], conn[c], remote[c], trail[c], sshLog[c], evidence[c])
  BY ExecTypes DEF Types, CallTypes, AuditTypes, AllLawful, Lawful, AllTold
<1>1. ASSUME NEW c \in Call, d # c => /\ call'[d] = call[d] /\ conn'[d] = conn[d]
                                      /\ remote'[d] = remote[d] /\ trail'[d] = trail[d]
                                      /\ sshLog'[d] = sshLog[d] /\ evidence'[d] = evidence[d],
             Told(call'[c], conn'[c], remote'[c], trail'[c], sshLog'[c], evidence'[c])
      PROVE  Goal
  BY <1>0, <1>1
<1>2. CASE UNCHANGED vars \/ Administer
  <2>1. UNCHANGED <<call, conn, remote, trail, sshLog, evidence>>
    BY <1>2, AdministerOnly DEF vars, execVars, auditVars
  <2>2. QED
    BY <1>0, <2>1
<1>3. CASE Die
  <2>1. UNCHANGED <<remote, trail, sshLog, evidence>>
    BY <1>3 DEF Die, auditVars
  <2>2. Told(call'[d], conn'[d], remote[d], trail[d], sshLog[d], evidence[d])
    BY <1>0, <1>3, DieTold
  <2>3. QED
    BY <2>1, <2>2
<1>4. ASSUME NEW c \in Call, NEW t \in Tools, NEW h \in Hosts, NEW id \in Command(t),
             Request(c, t, h, id)
      PROVE  Goal
  <2>1. UNCHANGED <<conn, remote, trail, sshLog, evidence>>
    BY <1>4 DEF Request, execVars, auditVars
  <2>2. d # c => call'[d] = call[d]
    BY <1>0, <1>4 DEF Request
  <2>3. Told(call'[c], conn[c], remote[c], trail[c], sshLog[c], evidence[c])
    BY <1>0, <1>4, RequestTold
  <2>4. QED
    BY <1>1, <2>1, <2>2, <2>3
<1>5. ASSUME NEW c \in Call, Reads(c) PROVE Goal
  <2>1. UNCHANGED <<conn, remote, trail, sshLog, evidence>>
    BY <1>5, ReadsOnly DEF execVars, auditVars
  <2>2. d # c => call'[d] = call[d]
    BY <1>0, <1>5 DEF Reads, AskSim, AskPolicy, Approve, Decline, ReadPolicy, ReadSim,
       ReadSimHost, ReadHost, ReadThrows, Found, Goto
  <2>3. Told(call'[c], conn[c], remote[c], trail[c], sshLog[c], evidence[c])
    BY <1>0, <1>5, ReadsTold
  <2>4. QED
    BY <1>1, <2>1, <2>2, <2>3
<1>6. ASSUME NEW c \in Call, Writes(c) PROVE Goal
  <2>1. UNCHANGED <<conn, remote>>
    BY <1>6, WritesOnly DEF execVars
  <2>2. d # c => /\ call'[d] = call[d] /\ trail'[d] = trail[d]
                 /\ sshLog'[d] = sshLog[d] /\ evidence'[d] = evidence[d]
    BY <1>0, <1>6 DEF Writes, Evaluate, Decide, Start, Log, FinishEvent,
       RecordEvidence, CatchLog, CatchFinish, CatchThrows, Goto, Insert, InsertThrows
  <2>3. Told(call'[c], conn[c], remote[c], trail'[c], sshLog'[c], evidence'[c])
    <3>1. CASE Evaluate(c) \/ Decide(c) \/ Start(c)
      <4>1. UNCHANGED <<sshLog, evidence>>
        BY <3>1 DEF Evaluate, Decide, Start
      <4>2. QED
        BY <1>0, <3>1, <4>1, DecisionsTold
    <3>2. CASE Log(c)
      <4>1. UNCHANGED <<trail, evidence>>
        BY <3>2 DEF Log
      <4>2. QED
        BY <1>0, <3>2, <4>1, LogTold
    <3>3. CASE FinishEvent(c)
      <4>1. UNCHANGED <<sshLog, evidence>>
        BY <3>3 DEF FinishEvent
      <4>2. QED
        BY <1>0, <3>3, <4>1, FinishTold
    <3>4. CASE RecordEvidence(c)
      <4>1. UNCHANGED <<trail, sshLog>>
        BY <3>4 DEF RecordEvidence
      <4>2. QED
        BY <1>0, <3>4, <4>1, EvidenceTold
    <3>5. CASE CatchLog(c) \/ CatchFinish(c)
      <4>1. UNCHANGED evidence
        BY <3>5 DEF CatchLog, CatchFinish
      <4>2. QED
        BY <1>0, <3>5, <4>1, CatchTold
    <3>6. QED
      BY <1>6, <3>1, <3>2, <3>3, <3>4, <3>5 DEF Writes
  <2>4. QED
    BY <1>1, <2>1, <2>2, <2>3
<1>7. ASSUME NEW c \in Call, Settled(c) PROVE Goal
  <2>1. UNCHANGED <<conn, remote, trail, sshLog, evidence>>
    BY <1>7 DEF Settled, execVars, auditVars
  <2>2. d # c => call'[d] = call[d]
    BY <1>0, <1>7 DEF Settled, Goto
  <2>3. Told(call'[c], conn[c], remote[c], trail[c], sshLog[c], evidence[c])
    BY <1>0, <1>7, SettledTold
  <2>4. QED
    BY <1>1, <2>1, <2>2, <2>3
<1>8. ASSUME NEW c \in Call, Execute(c) PROVE Goal
  <2>1. UNCHANGED <<trail, sshLog, evidence>>
    BY <1>8 DEF Execute, auditVars
  <2>2. d # c => call'[d] = call[d] /\ conn'[d] = conn[d] /\ remote'[d] = remote[d]
    BY <1>0, <1>8 DEF Execute, Simulate, Connect, Goto
  <2>3. Told(call'[c], conn'[c], remote'[c], trail[c], sshLog[c], evidence[c])
    BY <1>0, <1>8, ExecuteTold
  <2>4. QED
    BY <1>1, <2>1, <2>2, <2>3
<1>9. ASSUME NEW c \in Call, Exec(c) PROVE Goal
  <2>1. PICK r \in Connection, m \in Remote :
           /\ conn' = [conn EXCEPT ![c] = r] /\ remote' = [remote EXCEPT ![c] = m]
           /\ Works(conn[c], remote[c], r, m)
    BY <1>0, <1>9, CallbackWorks DEF Exec
  <2>2. UNCHANGED <<call, trail, sshLog, evidence>>
    BY <1>9 DEF Exec, auditVars
  <2>3. Told(call[c], r, m, trail[c], sshLog[c], evidence[c])
    BY <1>0, <2>1, CallbackTold
  <2>4. QED
    BY <1>0, <1>1, <2>1, <2>2, <2>3
<1>10. QED
  BY <1>2, <1>3, <1>4, <1>5, <1>6, <1>7, <1>8, <1>9
     DEF Next, Reads, Writes, Proceed, Tools, Hosts

\* The inductive invariant: the types, what each call may do where it stands, and
\* what the audits hold of it.
THEOREM Invariant == Spec => [](Types /\ AllAccounted /\ AllLawful /\ AllTold)
<1>1. Init => Types /\ AllAccounted /\ AllLawful /\ AllTold
  BY AccountedInit, LawfulInit, ToldInit
<1>2. Types /\ AllAccounted /\ AllLawful /\ AllTold /\ [Next]_vars
         => (Types /\ AllAccounted /\ AllLawful /\ AllTold)'
  BY TypesNext, LawfulNext, ToldNext
<1>3. QED
  BY <1>1, <1>2, PTL DEF Spec

\* No command of a tool runs on a host without what RunsAuthorised asks for
\* (auditedExecution and the execute functions, tools/ssh-tools.ts).
THEOREM OnlyAuthorisedRun == Spec => []RunsAuthorised
<1>1. AllLawful => RunsAuthorised
  BY DEF AllLawful, Lawful, Cleared, Permitted, RunsAuthorised, OnHost
<1>2. QED
  BY <1>1, Invariant, PTL

\* A call made after a host was deleted never reaches it (ssh/repository.ts).
THEOREM DeletedIsUnreachable == Spec => []DeletedNeverReached
<1>1. AllLawful => DeletedNeverReached
  BY DEF AllLawful, Lawful, Lost, DeletedNeverReached, OnHost
<1>2. QED
  BY <1>1, Invariant, PTL

\* A success in either audit is a command that ended with exit code 0
\* (auditedExecution, tools/ssh-tools.ts, and executeSSHCommand, tools/ssh.ts).
THEOREM SuccessIsReal == Spec => []SuccessIsTrue
<1>1. AllTold => SuccessIsTrue
  BY DEF AllTold, Told, SuccessIsTrue, Entries
<1>2. QED
  BY <1>1, Invariant, PTL

\* A tool that returns has recorded its result in both audits, and one that fails
\* after its execution began its failure (auditedExecution, tools/ssh-tools.ts).
THEOREM EndIsAudited == Spec => []EndedIsAudited
<1>1. ASSUME Types, AllTold, NEW c \in Call, call[c].tool # "test"
      PROVE  /\ At(c, "returned") => Agrees(c)
             /\ (At(c, "failed") /\ conn[c].outcome # "pending" /\ ~call[c].lost) =>
                    EndsWith(sshLog[c], "failed") /\ EndsWith(trail[c], "failed")
             /\ evidence[c] => At(c, "returned")
  <2>1. Told(call[c], conn[c], remote[c], trail[c], sshLog[c], evidence[c])
    BY <1>1 DEF AllTold
  <2>2. QED
    BY <1>1, <2>1 DEF Told, Trail, Rowed, FailedIsRecorded, ResultEvent, ResultStatus, Agrees, At
<1>2. Types /\ AllTold => EndedIsAudited
  BY <1>1 DEF EndedIsAudited
<1>3. QED
  BY <1>2, Invariant, PTL

-----------------------------------------------------------------------------
(* The order of the audit                                                  *)

Asked(c) == remote[c] # "none" /\ call[c].tool # "test"

EventStage(e) ==
    CASE e = "evaluated" -> "evaluated"
      [] e = "denied" -> "denied"
      [] e \in {"enforced", "allowed"} -> "cleared"
      [] e = "started" -> "started"
      [] OTHER -> "ended"

\* The stage of a record is the stage of its last event.
LEMMA StageOfLast ==
    ASSUME NEW s, NEW e \in Event, s # <<>>, s[Len(s)] = e PROVE StageOf(s) = EventStage(e)
BY DEF StageOf, EventStage, EndsWith, Event

\* An event moves the stage of its record.
LEMMA StageAppended ==
    ASSUME AuditTypes, NEW c \in Call, NEW e \in Event
    PROVE  StageOf(Append(trail[c], e)) = EventStage(e)
<1>1. Append(trail[c], e) # <<>> /\ Append(trail[c], e)[Len(Append(trail[c], e))] = e
  BY AppendedEvent
<1> DEFINE t == Append(trail[c], e)
<1>2. t # <<>> /\ t[Len(t)] = e
  BY <1>1
<1> HIDE DEF t
<1>3. StageOf(t) = EventStage(e)
  BY <1>2, StageOfLast
<1>4. QED
  BY <1>3 DEF t

\* A step that records.
LEMMA RecordStep ==
    ASSUME NEW c \in Call, NEW from, NEW to,
           StageOf(trail[c]) = from, StageOf(trail'[c]) = to,
           \A d \in Call : d # c => trail'[d] = trail[d],
           \A d \in Call : Asked(d)' <=> Asked(d)
    PROVE  Audit!Record(c, from, to)
<1>1. [d \in Call |-> StageOf(trail'[d])]
         = [[d \in Call |-> StageOf(trail[d])] EXCEPT ![c] = to]
  OBVIOUS
<1>2. [d \in Call |-> remote'[d] # "none" /\ call'[d].tool # "test"]
         = [d \in Call |-> remote[d] # "none" /\ call[d].tool # "test"]
  BY DEF Asked
<1>3. QED
  BY <1>1, <1>2 DEF Audit!Record

\* A step that neither records nor asks.
LEMMA SilentStep ==
    ASSUME \A d \in Call : StageOf(trail'[d]) = StageOf(trail[d]),
           \A d \in Call : Asked(d)' <=> Asked(d)
    PROVE  UNCHANGED Audit!vars
<1>1. [d \in Call |-> remote'[d] # "none" /\ call'[d].tool # "test"]
         = [d \in Call |-> remote[d] # "none" /\ call[d].tool # "test"]
  BY DEF Asked
<1>2. QED
  BY <1>1 DEF Audit!vars

\* A step that asks a host.
LEMMA AskStep ==
    ASSUME NEW c \in Call, StageOf(trail[c]) = "started", ~Asked(c), Asked(c)',
           trail' = trail, \A d \in Call : d # c => (Asked(d)' <=> Asked(d))
    PROVE  Audit!Ask(c)
<1>1. [d \in Call |-> remote'[d] # "none" /\ call'[d].tool # "test"]
         = [[d \in Call |-> remote[d] # "none" /\ call[d].tool # "test"] EXCEPT ![c] = TRUE]
  BY DEF Asked
<1>2. QED
  BY <1>1 DEF Audit!Ask, Asked

\* An INSERT, answered or not, leaves a record at its stage or at its event's.
LEMMA InsertedStage ==
    ASSUME AuditTypes, NEW c \in Call, NEW e \in Event,
           Insert(trail, c, e) \/ InsertThrows(trail, c, e)
    PROVE  StageOf(trail'[c]) \in {StageOf(trail[c]), EventStage(e)}
<1>1. trail'[c] = trail[c] \/ trail'[c] = Append(trail[c], e)
  BY InsertedEvent
<1>2. QED
  BY <1>1, StageAppended

\* The stages an event takes a record to.
LEMMA Stages ==
    /\ EventStage("evaluated") = "evaluated" /\ EventStage("denied") = "denied"
    /\ EventStage("enforced") = "cleared" /\ EventStage("allowed") = "cleared"
    /\ EventStage("started") = "started" /\ EventStage("completed") = "ended"
    /\ EventStage("failed") = "ended" /\ StageOf(<<>>) = "new"
BY DEF EventStage, StageOf, EndsWith

Moves == {<<"new", "evaluated">>, <<"evaluated", "denied">>, <<"evaluated", "cleared">>,
          <<"cleared", "started">>, <<"started", "ended">>}

\* A write moves a record to its next stage, or leaves it at its stage.
LEMMA WritesMove ==
    ASSUME AuditTypes, NEW c \in Call, Writes(c), NEW r, NEW m, Quiet(call[c], r, m),
           Told(call[c], r, m, trail[c], sshLog[c], evidence[c])
    PROVE  \/ StageOf(trail'[c]) = StageOf(trail[c])
           \/ <<StageOf(trail[c]), StageOf(trail'[c])>> \in Moves
<1>0. /\ \A e \in Event : trail[c] # <<>> /\ trail[c][Len(trail[c])] = e
                          => StageOf(trail[c]) = EventStage(e)
      /\ {"evaluated", "denied", "enforced", "allowed", "started", "completed",
          "failed"} \subseteq Event
  BY StageOfLast, Phases
<1>a. Len(trail[c]) > 0 => trail[c] # <<>>
  OBVIOUS
<1>1. CASE Evaluate(c)
  <2>1. StageOf(trail[c]) = "new"
    BY <1>1, Stages DEF Evaluate, At, Told, Trail, BeforeRun
  <2>2. StageOf(trail'[c]) \in {"new", "evaluated"}
    BY <1>0, <1>1, <2>1, InsertedStage, Stages DEF Evaluate
  <2>3. QED
    BY <2>1, <2>2 DEF Moves
<1>2. CASE Decide(c)
  <2>1. StageOf(trail[c]) = "evaluated"
    <3>1. Len(trail[c]) = 1 /\ trail[c][1] = "evaluated"
      BY <1>2 DEF Decide, At, Told, Trail
    <3>2. QED
      BY <1>0, <1>a, <3>1, Stages
  <2> DEFINE e == Decision(call[c].tool, call[c].row, call[c].text)
  <2>2. e \in {"denied", "enforced", "allowed"}
    BY DEF Decision
  <2>a. trail'[c] = trail[c] \/ trail'[c] = Append(trail[c], e)
    BY <1>2 DEF Decide, Insert, InsertThrows, AuditTypes
  <2> HIDE DEF e
  <2>3. StageOf(trail'[c]) \in {"evaluated", "denied", "cleared"}
    BY <1>0, <2>1, <2>2, <2>a, StageAppended, Stages
  <2>4. QED
    BY <2>1, <2>3 DEF Moves
<1>3. CASE Start(c)
  <2>1. StageOf(trail[c]) = "cleared"
    <3>1. Len(trail[c]) = 2 /\ trail[c][2] \in {"enforced", "allowed"}
      BY <1>3 DEF Start, At, Told, Trail
    <3>2. QED
      BY <1>0, <1>a, <3>1, Stages
  <2>2. StageOf(trail'[c]) \in {"cleared", "started"}
    BY <1>0, <1>3, <2>1, InsertedStage, Stages DEF Start
  <2>3. QED
    BY <2>1, <2>2 DEF Moves
<1>4. CASE FinishEvent(c)
  <2>1. StageOf(trail[c]) = "started"
    <3>1. Len(trail[c]) = 3 /\ trail[c][3] = "started"
      BY <1>4 DEF FinishEvent, At, Told, Trail
    <3>2. QED
      BY <1>0, <1>a, <3>1, Stages
  <2> DEFINE e == IF conn[c].outcome = "exit0" THEN "completed" ELSE "failed"
  <2>2. e \in {"completed", "failed"}
    OBVIOUS
  <2>a. trail'[c] = trail[c] \/ trail'[c] = Append(trail[c], e)
    BY <1>4 DEF FinishEvent, Insert, InsertThrows, AuditTypes
  <2> HIDE DEF e
  <2>3. StageOf(trail'[c]) \in {"started", "ended"}
    BY <1>0, <2>1, <2>2, <2>a, StageAppended, Stages
  <2>4. QED
    BY <2>1, <2>3 DEF Moves
<1>5. CASE CatchFinish(c)
  <2>1. StageOf(trail[c]) \in {"started", "ended"}
    <3>1. Len(trail[c]) > 0 /\ trail[c][Len(trail[c])] \in {"started", "completed", "failed"}
      BY <1>5 DEF CatchFinish, At, Told, Trail
    <3>2. QED
      BY <1>0, <1>a, <3>1, Stages
  <2>2. StageOf(trail'[c]) \in {StageOf(trail[c]), "ended"}
    BY <1>0, <1>5, InsertedStage, Stages DEF CatchFinish
  <2>3. QED
    BY <2>1, <2>2 DEF Moves
<1>6. CASE Log(c) \/ RecordEvidence(c) \/ CatchLog(c)
  BY <1>6 DEF Log, RecordEvidence, CatchLog
<1>7. QED
  BY <1>1, <1>2, <1>3, <1>4, <1>5, <1>6 DEF Writes

\* A step that moves one record at most, and asks nothing of a host.
LEMMA MoveStep ==
    ASSUME NEW c \in Call,
           StageOf(trail'[c]) = StageOf(trail[c])
              \/ <<StageOf(trail[c]), StageOf(trail'[c])>> \in Moves,
           \A d \in Call : d # c => trail'[d] = trail[d],
           \A d \in Call : Asked(d)' <=> Asked(d)
    PROVE  [Audit!Next]_(Audit!vars)
<1>1. CASE StageOf(trail'[c]) = StageOf(trail[c])
  BY <1>1, SilentStep
<1>2. CASE <<StageOf(trail[c]), StageOf(trail'[c])>> \in Moves
  <2>1. Audit!Record(c, StageOf(trail[c]), StageOf(trail'[c]))
    BY RecordStep
  <2>2. \/ StageOf(trail[c]) = "new" /\ StageOf(trail'[c]) = "evaluated"
        \/ StageOf(trail[c]) = "evaluated" /\ StageOf(trail'[c]) = "denied"
        \/ StageOf(trail[c]) = "evaluated" /\ StageOf(trail'[c]) = "cleared"
        \/ StageOf(trail[c]) = "cleared" /\ StageOf(trail'[c]) = "started"
        \/ StageOf(trail[c]) = "started" /\ StageOf(trail'[c]) = "ended"
    BY <1>2 DEF Moves
  <2>3. QED
    BY <2>1, <2>2 DEF Audit!Next
<1>3. QED
  BY <1>1, <1>2

\* A step that asks one host at most, and records nothing.
LEMMA SpeakStep ==
    ASSUME NEW c \in Call, trail' = trail,
           \A d \in Call : d # c => (Asked(d)' <=> Asked(d)),
           (Asked(c)' <=> Asked(c)) \/ (~Asked(c) /\ Asked(c)' /\ StageOf(trail[c]) = "started")
    PROVE  [Audit!Next]_(Audit!vars)
<1>1. CASE Asked(c)' <=> Asked(c)
  <2>1. \A d \in Call : Asked(d)' <=> Asked(d)
    BY <1>1
  <2>2. \A d \in Call : StageOf(trail'[d]) = StageOf(trail[d])
    OBVIOUS
  <2>3. QED
    BY <2>1, <2>2, SilentStep
<1>2. CASE ~Asked(c) /\ Asked(c)' /\ StageOf(trail[c]) = "started"
  <2>1. Audit!Ask(c)
    BY <1>2, AskStep
  <2>2. QED
    BY <2>1 DEF Audit!Next
<1>3. QED
  BY <1>1, <1>2

\* A call that is executed has a started record.
LEMMA StartedStage ==
    ASSUME NEW c \in Call, call[c].pc \in {"execute", "running"}, call[c].tool # "test",
           NEW r, NEW m, NEW lg, NEW ev, Told(call[c], r, m, trail[c], lg, ev)
    PROVE  StageOf(trail[c]) = "started"
<1>1. Len(trail[c]) = 3 /\ trail[c][3] = "started"
  BY DEF Told, Trail
<1>2. trail[c] # <<>> /\ trail[c][Len(trail[c])] = "started" /\ "started" \in Event
  BY <1>1, Phases
<1>3. QED
  BY <1>2, StageOfLast, Stages

\* Each step of the calls is a step of the audit's promise, or none of it.
LEMMA AuditStep ==
    ASSUME Types, AllLawful, AllTold, [Next]_vars PROVE [Audit!Next]_(Audit!vars)
<1> DEFINE Goal == [Audit!Next]_(Audit!vars)
<1>0. /\ ExecTypeOK /\ CallTypes /\ AuditTypes
      /\ remote \in [Call -> Remote] /\ call \in [Call -> Calls] /\ conn \in [Call -> Connection]
      /\ \A c \in Call : Quiet(call[c], conn[c], remote[c])
      /\ \A c \in Call : Told(call[c], conn[c], remote[c], trail[c], sshLog[c], evidence[c])
  BY ExecTypes DEF Types, CallTypes, AuditTypes, AllLawful, Lawful, AllTold
<1>1. ASSUME UNCHANGED <<remote, trail>>, \A d \in Call : call'[d].tool = call[d].tool
      PROVE  Goal
  <2>1. \A d \in Call : Asked(d)' <=> Asked(d)
    BY <1>1 DEF Asked
  <2>2. \A d \in Call : StageOf(trail'[d]) = StageOf(trail[d])
    BY <1>1
  <2>3. QED
    BY <2>1, <2>2, SilentStep
<1>2. CASE UNCHANGED vars \/ Administer
  <2>1. UNCHANGED <<call, remote, trail>>
    BY <1>2, AdministerOnly DEF vars, execVars, auditVars
  <2>2. QED
    BY <1>1, <2>1
<1>3. CASE Die
  <2>1. UNCHANGED <<remote, trail>>
    BY <1>3 DEF Die, auditVars
  <2>2. \A d \in Call : call'[d].tool = call[d].tool
    BY <1>0, <1>3 DEF Die, Calls
  <2>3. QED
    BY <1>1, <2>1, <2>2
<1>4. ASSUME NEW c \in Call, NEW t \in Tools, NEW h \in Hosts, NEW id \in Command(t),
             Request(c, t, h, id)
      PROVE  Goal
  <2>1. UNCHANGED <<remote, trail>>
    BY <1>4 DEF Request, execVars, auditVars
  <2>2. remote[c] = "none"
    BY <1>0, <1>4 DEF Request, At, Quiet, BeforeRun
  <2>3. \A d \in Call : d # c => call'[d] = call[d]
    BY <1>0, <1>4 DEF Request
  <2>4. \A d \in Call : Asked(d)' <=> Asked(d)
    BY <2>1, <2>2, <2>3 DEF Asked
  <2>5. \A d \in Call : StageOf(trail'[d]) = StageOf(trail[d])
    BY <2>1
  <2>6. QED
    BY <2>4, <2>5, SilentStep
<1>5. ASSUME NEW c \in Call, Reads(c) PROVE Goal
  <2>1. UNCHANGED <<remote, trail>>
    BY <1>5, ReadsOnly DEF execVars, auditVars
  <2>2. \A d \in Call : d # c => call'[d] = call[d]
    BY <1>0, <1>5 DEF Reads, AskSim, AskPolicy, Approve, Decline, ReadPolicy, ReadSim,
       ReadSimHost, ReadHost, ReadThrows, Found, Goto
  <2>3. call'[c].tool = call[c].tool
    BY <1>0, <1>5 DEF Reads, AskSim, AskPolicy, Approve, Decline, ReadPolicy, ReadSim,
       ReadSimHost, ReadHost, ReadThrows, Found, Goto, Calls
  <2>4. QED
    BY <1>1, <2>1, <2>2, <2>3
<1>6. ASSUME NEW c \in Call, Writes(c) PROVE Goal
  <2>1. UNCHANGED remote
    BY <1>6, WritesOnly DEF execVars
  <2>2. \A d \in Call : d # c => call'[d] = call[d] /\ trail'[d] = trail[d]
    BY <1>0, <1>6 DEF Writes, Evaluate, Decide, Start, Log, FinishEvent,
       RecordEvidence, CatchLog, CatchFinish, CatchThrows, Goto, Insert, InsertThrows, AuditTypes
  <2>3. call'[c].tool = call[c].tool
    BY <1>0, <1>6 DEF Writes, Evaluate, Decide, Start, Log, FinishEvent,
       RecordEvidence, CatchLog, CatchFinish, CatchThrows, Goto, Calls
  <2>4. \A d \in Call : Asked(d)' <=> Asked(d)
    BY <2>1, <2>2, <2>3 DEF Asked
  <2>5. \/ StageOf(trail'[c]) = StageOf(trail[c])
        \/ <<StageOf(trail[c]), StageOf(trail'[c])>> \in Moves
    BY <1>0, <1>6, WritesMove
  <2>6. QED
    BY <2>2, <2>4, <2>5, MoveStep
<1>7. ASSUME NEW c \in Call, Settled(c) PROVE Goal
  <2>1. UNCHANGED <<remote, trail>>
    BY <1>7 DEF Settled, execVars, auditVars
  <2>2. \A d \in Call : call'[d].tool = call[d].tool
    BY <1>0, <1>7 DEF Settled, Goto, Calls
  <2>3. QED
    BY <1>1, <2>1, <2>2
<1>8. ASSUME NEW c \in Call, Execute(c) PROVE Goal
  <2>1. UNCHANGED trail /\ call[c].pc = "execute"
    BY <1>8 DEF Execute, auditVars, At
  <2>2. \A d \in Call : call'[d].tool = call[d].tool
    BY <1>0, <1>8 DEF Execute, Goto, Calls
  <2>3. \A d \in Call : d # c => remote'[d] = remote[d]
    BY <1>0, <1>8 DEF Execute, Simulate, Connect
  <2>4. remote[c] = "none"
    BY <1>0, <2>1 DEF Quiet, BeforeRun
  <2>5. call[c].tool # "test" => StageOf(trail[c]) = "started"
    BY <1>0, <2>1, StartedStage
  <2>6. \A d \in Call : d # c => (Asked(d)' <=> Asked(d))
    BY <2>2, <2>3 DEF Asked
  <2>7. (Asked(c)' <=> Asked(c)) \/ (~Asked(c) /\ Asked(c)' /\ StageOf(trail[c]) = "started")
    BY <2>4, <2>5, <2>2 DEF Asked
  <2>8. QED
    BY <2>1, <2>6, <2>7, SpeakStep
<1>9. ASSUME NEW c \in Call, Exec(c) PROVE Goal
  <2>1. PICK r \in Connection, m \in Remote :
           /\ conn' = [conn EXCEPT ![c] = r] /\ remote' = [remote EXCEPT ![c] = m]
           /\ Works(conn[c], remote[c], r, m)
    BY <1>0, <1>9, CallbackWorks DEF Exec
  <2>2. UNCHANGED <<call, trail>>
    BY <1>9 DEF Exec, auditVars
  <2>3. \A d \in Call : d # c => (Asked(d)' <=> Asked(d))
    BY <1>0, <2>1, <2>2 DEF Asked
  <2>4. remote'[c] = m /\ remote[c] \in Remote
    BY <1>0, <2>1
  <2>5. CASE m = remote[c] \/ remote[c] # "none"
    <3>1. m # "none" <=> remote[c] # "none"
      BY <2>1, <2>5 DEF Works
    <3>2. Asked(c)' <=> Asked(c)
      BY <2>2, <2>4, <3>1 DEF Asked
    <3>3. QED
      BY <2>2, <2>3, <3>2, SpeakStep
  <2>6. CASE m # remote[c] /\ remote[c] = "none"
    <3>1. m = "asked" /\ conn[c].client = "connecting" /\ conn[c].outcome = "pending"
      BY <2>1, <2>6 DEF Works
    <3>2. call[c].pc = "running"
      BY <1>0, <3>1 DEF Told, Kept
    <3>3. call[c].tool # "test" => StageOf(trail[c]) = "started"
      BY <1>0, <3>2, StartedStage
    <3>4. (Asked(c)' <=> Asked(c)) \/ (~Asked(c) /\ Asked(c)' /\ StageOf(trail[c]) = "started")
      BY <2>2, <2>4, <2>6, <3>1, <3>3 DEF Asked
    <3>5. QED
      BY <2>2, <2>3, <3>4, SpeakStep
  <2>7. QED
    BY <2>5, <2>6
<1>10. QED
  BY <1>2, <1>3, <1>4, <1>5, <1>6, <1>7, <1>8, <1>9
     DEF Next, Reads, Writes, Proceed, Tools, Hosts

\* Before any call nothing is recorded or asked.
LEMMA AuditInit == Init => Audit!Init
BY Stages DEF Init, ExecInit, Audit!Init

\* The calls keep the order of the security audit: a host is asked to run a tool's
\* command only after the evaluation, a decision that is not a denial and the start
\* are recorded, and before the end is (auditedExecution, tools/ssh-tools.ts).
THEOREM KeepsTheAudit == Spec => ImplementsAudit
<1>1. [](Types /\ AllAccounted /\ AllLawful /\ AllTold) /\ [][Next]_vars
         => [][Audit!Next]_(Audit!vars)
  BY AuditStep, PTL
<1>2. QED
  BY <1>1, AuditInit, Invariant, PTL DEF Spec, ImplementsAudit, Audit!Spec
=============================================================================
