# A verification of the Scry agent service

Scry (BoringPanel) is an observability product built on a fork of SigNoz. What its own team wrote is the
**agent service** (`src/agent-service/src`, TypeScript on Hono and Mastra): an assistant that answers questions
about a user's systems, runs tools and commands on hosts over SSH, keeps the evidence its answers rest on,
remembers, and runs *Loops*, which are workflows with approvals. This directory holds TLA+ models of it, the TLC
configurations that check them and the TLAPS proofs of what holds for every instance.

All source paths below are under `src/agent-service/src` unless they begin with `src/`.

## The system

One Node process, one event loop. A request is a sequence of awaits; between any two of them every other request
may run. There are two stores. The engine's state (threads, messages, suspended runs) is in PostgreSQL, under
Mastra. Everything of the service's own (settings, Loops and their runs, evidence, memory, audit, SSH hosts) is in a
SQLite database *in memory* (sql.js), which is written to one file after every write. There is no transaction
across two statements unless they are in one `batch`.

| Component | State | Operations | Interacts with |
|---|---|---|---|
| SQLite client, `database/wasm-sqlite.ts` | image in the heap, file, temporary file, promise chain | `execute`, `batch`, `close`, open | everything below calls it |
| Loops, `workflows/compiler.ts`, `runtime.ts`, routes of `server.ts`, rows of `db.ts` | workflow row with version, run row with step states and suspended step, the engine's run | start, resume, edit, delete, the compiled steps, `finalize` | engine; tools; audit; memory |
| Evidence, `evidence.ts`, routes of `server.ts` | items, actions, relations, revisions | record, relate, dispose, revise an answer, backfill, delete with the thread | every tool; chat; audit; memory |
| Memory, `memory/index.ts`, `memory/samples.ts` | items with status and scores, chunks, relations, actions, retrieval runs, counts of trace edges | create or reinforce, update, forget, hydrate, maintain, learn, retrieve, generate and delete samples | evidence; Loops; chat |
| SSH, `tools/ssh.ts`, `tools/ssh-tools.ts`, `ssh/repository.ts`, `debug/simulation.ts` | host rows, tool policies, the simulated host's switch, a connection and a promise per command, two audits | ask for approval, authorise, execute with a time limit and an output limit, audit, record evidence; create, update, delete, test a host | policy; evidence; audit; Mastra's approvals |
| Security, `security/*.ts` | policy row, audit rows | classify, analyse, decide, record | SSH, Loops, evidence |
| Chat, `server.ts`, `agent.ts` | threads, messages | stream, persist, title, traces | evidence; memory |
| Settings and MCP, `db.ts`, `mcp/*.ts`, `model.ts` | model settings, MCP servers | read, then write | chat; Loops |
| Debug data (Go), `src/pkg/query-service/app/debugmode` | mode, state file, ticker | start, stop, tick | the query service |

What makes it hard, and makes each component correct:

- **SQLite client.** Calls overlap, SQL throws, file operations fail, the process dies between any two of them.
  Correct when a write that was acknowledged survives, a batch is whole or absent everywhere, a failed call leaves
  nothing, no older image overwrites a newer one, and no caller waits for ever.
- **Loops.** Parallel branches update one row by reading, awaiting and writing back; two users may answer one
  approval; the workflow may be edited, disabled or deleted while its run is suspended; steps are retried.
  Correct when nothing behind an approval runs without it, one answer counts, and the row tells what the engine did.
- **Evidence.** The same output reaches it from a tool call, from a message and from the backfill; dispositions
  write rows read earlier; an answer is revised while items are rejected. Correct when an item is captured once,
  withheld items are not used, suspect ones need a user, and what an answer rests on can be traced.
- **Memory.** Forgetting races hydration, which writes chunks back; maintenance and updates write from what they read
  earlier; two creations of one content do not see each other. Correct when what was forgotten stays gone, an injected
  text is not retrieved, and chunks, relations and actions agree with the rows.
- **SSH.** Ready, close, error and a time limit settle one promise; output arrives on two streams; a call reads the
  simulation, the policy and the host at different awaits, while administrators edit each; a write of an audit may throw
  after the command has run. Correct when what runs on a host is authorised whatever is edited, both audits say what
  happened and in order, the output is accounted for, and every call ends.
- **Security, ranking, Loop conditions.** Pure functions with thresholds and boundaries: correct against a
  reference definition.

`PROJECT.json` lists every component, including those not modelled, and every hazard at its line.

## Modules

| Module | What it is |
|---|---|
| `WasmSqlite` | the database client as it is written |
| `DurableStore` | what the client promises: calls take effect whole, in some order, and are durable when answered |
| `WasmSqliteRefinement` | the mapping from the first to the second |
| `WasmSqliteProofs` | its theorems |
| `LoopRun` | one run of one Loop: handlers, compiled steps, run row, process |
| `LoopRunProofs` | its theorems on approvals |
| `LoopRecordProofs` | its theorems on the run record and the end of a run |
| `Evidence` | the evidence of one conversation |
| `EvidenceProofs` | its theorems |
| `Memory` | the life of memories, samples among them |
| `MemoryProofs` | its theorems on texts: what is injected, what was forgotten |
| `MemoryRecordProofs` | its theorems on what the tables hold when requests have ended |
| `SshExec` | one command on one host: the promise, its callbacks, its output |
| `SshTools` | the tools and the connection test that run commands, the policy and hosts they read, the audits they write |
| `CommandAudit` | what the security audit promises of commands |
| `SshToolsProofs` | the theorems of the three |
| `MCWasmSqlite`, `MCLoopRun`, `MCEvidence`, `MCMemory`, `MCSshTools` | instances for TLC |

A definition whose comment begins with `mutant:` is a plausible bug in the definition that follows it. No
specification uses it; `PROJECT.json` names, for every checked property, a mutant that breaks it.

### WasmSqlite

`queue` is the promise chain of `locked`: a call appends itself in the turn that makes it, and its head holds the
lock. A call's SQL runs in one synchronous turn (`Read`, `Write`, `StatementThrows`). `persist` is three awaited
file operations, and `stage` says which one a call waits for: `mkdir`, then `writing` the temporary file (torn until
`Written`), then `renaming`. `PersistThrows` is the rejection of any of the three: the caller sees an error, and
the write stays in memory and is saved by the next persist. An image is the set of the statements whose effects it
holds. `Crash` may come between any two steps, `Restart` loads the file.

*External:* sql.js implements `export()` by closing and reopening the connection, which resets its pragmas. A process
death is modelled; a crash of the operating system is not (the code calls no `fsync`).

### LoopRun

A definition is a constant: its compiled nodes, what each is (`leaf`, `verify`, `approval`, the markers of a
parallel step, `finalize`), which nodes complete before each is entered, and its retries. Every step writes the run
row through `updateWorkflowRunRecord`, which is a SELECT (`Select`), an await, and an UPDATE of all step states
(`Update`). `PatchedStatus`, `PatchedSteps` and `PatchedSuspended` are the three fields of the patches that
`compileLeafStep` and `finalize` write. The start and resume routes are sequences of steps of `starter` and
`handler[h]`. `shown` and `ran` are history variables, for one property.

*External:* the engine, as the code uses it. It enters a step when all before it have completed, runs the branches of
a parallel step to their ends, keeps a suspended run in PostgreSQL, and takes a resume of a step that it holds
suspended, once. Whether it enters the other suspended steps again on a resume is left open (`again` in
`EngineResume`). *Not in the module:* which branch a condition takes and how often a loop's body runs (a definition
here is an order of steps), and the deletion of runs with their conversation.

### Evidence

An item stands for its deduplication key (trace, source, hash). A recorder is a tool call or a message with one or
all items, `updateEvidence` is a chain of one read, one write, two statements per action, a reread and the learning;
the revise route reads the evidence twice, awaits the model, and writes a revision, its marks, the answer and the
audit one after another. Deleting the conversation is one batch and may come anywhere.

*Abstracted:* texts, scores, and relations other than those within a trace (the others depend on token similarity);
`createRelations`' LIMIT of 200. A statement that throws ends its request where a death would end it, so it is no
step of its own.

### Memory

A memory is named by the request that inserted it, and a request is a record that says which statement comes next
(`at`), what follows the hydration (`then`), the rows it has seen, and what it has left to do. `SelectChunks`,
`ClearChunks` and `InsertChunk` are `hydrateMemories` with `persistMemoryChunks`, which every request passes that reads
a memory, from the rows in `seen` and not from the table; so a read writes. `req`, `row`, `chunks`, `relations` and
`actions` are the code's, `offered`, `asked`, `forgot` and `crashed` are history variables. A text is a model value:
its title, summary, content and hash together.

*Abstracted:* scores, owners, scopes, pins and dates. Where they choose what maintenance does with a memory of its list
(`Archive`, `MoveOfPair`), it may do either, and retrieval may hand out any of its candidates (`Offer` takes all of them,
the most that a property can meet). Only the relations between equal texts are kept. The rows that the sources of a memory are
kept in, and the audit, are not in the module.

### SshExec, SshTools and CommandAudit

`SshTools` EXTENDS `SshExec`, so that one module has the whole call. A call's `pc` names the await it is at. It starts in
`requireApproval` (`AskSim`, `AskPolicy`; a configured command always waits), is suspended by Mastra (`waiting`), and
once approved looks up the policy, the simulation and the host (`ReadPolicy`, `ReadSim`, `ReadSimHost`, `ReadHost`):
`IsSimulated` is read three times, and may differ each time. `auditedExecution` is `Evaluate`, `Decide` (both
`authorizeSSHExecution`), `Start`, `Execute`, `Settled`, `Log`, `FinishEvent`, `RecordEvidence`, and its catch clause
`CatchLog`, `CatchFinish`. Each of these database calls may throw, and its row may be there nevertheless, as
`WasmSqlite` shows of a persist that fails (`InsertThrows`). The connection test takes the same path without approval,
decision and security audit. `trail` and `sshLog` are one call's rows in the two audits. `gone` (was the host deleted before
the call was made) and `lost` (did a write of the catch clause throw) are history variables of the call.

`SshExec` is the promise: `Finish` is `finish`, `Capture` is `append`, the other actions are the callbacks and the timer.
`remote` is what became of the command on the host, whatever the client knows of it: an exit code 0 is reported only if
the host has ended with 0, but a lost connection or the time limit may come at any moment before or after it.

`CommandAudit` is the abstract specification: evaluated, denied or cleared, started, ended, and a host is asked only
between the last two. The refinement maps a call's rows to their last stage, and `asked` to a tool's command that was asked of
a host. A row that is not written is a stutter, a row out of order is not a step of it.

*External:* ssh2, as the code uses it (ready once; output before close; a lost or ended connection closes streams without a
code; an ended client sends no new command), the host, and Mastra's approvals. *Abstracted:* command texts are model
values, and a policy offers one or none for each id (a disabled policy offers none); what `analyzeCommandRisk` denies is
the constant `Denied`; a host row is whether it exists, is enabled, and names root; secrets, fingerprints, the length of the time limit,
and the organisation (one). Rows may be older than today's rules for texts and user names (`Init`); edits keep the rules.

## Runs

| Run | Expected | Instance | What it shows |
|---|---|---|---|
| `sqlite` | holds, 130,755 states | two writes, a batch of two statements, a read, a close, each at most once; unbounded deaths and restarts | `TypeOK`, `AckedDurable`, `AtomicImage`, `FailedLeavesNothing`, `DiskGrows`, the refinement `ImplementsStore`, and `EveryCallAnswered` |
| `sqlite_foreign_keys` | violated | the same | the first persist switches foreign keys off |
| `loop_sequence` | holds, 145,380 states | check (one retry), approval, operation, verification, finalize; two answers, two versions | the gate, one decision, the row against the engine, `RunSettles` |
| `loop_parallel` | holds, 1,695,930 states | a parallel step with two approvals, one before an operation; two answers | what survives parallel branches: `ApprovalGates`, `CompletedMeansDone`, `EndedWell` |
| `loop_parallel_approvals` | violated | the same, one answer at a time | one of two parallel approvals cannot be answered |
| `loop_edited` | violated | the sequence, two versions | an approval shown for version 1 lets version 2 run |
| `evidence_capture` | holds, 32,988 states | two recorders and the backfill, three items, two traces | `CapturedOnce`, `SameTraceRelated` |
| `evidence_use` | holds, 1,698,031 states | a clean and a suspect item, a recorder, an update, a revision | `WithheldUnselected`, `SuspectNeedsUser`, `AnswerTraceable`, `RejectionRecorded` |
| `evidence_stale` | violated | two updates of one item | a note or a selection revives a rejected item |
| `memory` | holds, 2,871,110 states | three requests of any kind, two texts (a sample, and one with an injection), two chunks each | `InjectedNeedsUser`, `ChunksComplete`, `StatusRecorded`, `CopiesRelated`, `ForgottenStaysGone` |
| `memory_forgotten` | violated | the same | a read writes the chunks of a forgotten memory back |
| `ssh_tools` | holds, 984,696 states | one call of any kind, on a managed or the simulated host, one inspection, one configured command of two texts, one of them denied; two edits; a limit of one byte, chunks of one and two, two bytes of output | `OutputAccounted`, `RunsAuthorised`, `DeletedNeverReached`, `SuccessIsTrue`, `EndedIsAudited`, `CallsEnd`, the refinement `ImplementsAudit` |

Why the bounds are enough: the client serialises, so the interesting interactions are of a call with the one before
it, and two single writes, a batch, a read and a close give every ordered pair of kinds in which an earlier image
could meet a later one. In a Loop the races are of two branches on one row and of two answers to one approval, and
two of each are there; one retry is enough for the row to go back from failed to running. In evidence the
races are of one request's read with another's write; the theorems below remove the bound from the two properties
for which a third request could matter. In memory a request has to create before another can forget and a third can hold an
older row: three is the least that meets all of them, and one is left over when two create the same text. SSH calls share
nothing but the rows that administrators edit: no call writes what another reads, so one call meets every behaviour that matters,
and two edits give what a call can find changed between two of its reads, and changed back. A limit of one byte with chunks of one and
two has output below, at and above the limit, on either stream. The artificial bounds are `MaxVersion`, on edits of a
workflow, `MaxEdit`, on edits of administrators, and `MaxOutput`, on the bytes of a command;
`captures` counts to two because the property only tells one from more.
The Evidence, LoopRun, Memory and SSH configurations switch deadlock checking off: requests end, and the system rests.

**Fairness.** `WasmSqlite`: weak fairness of serving the call that holds the lock; callbacks run and file operations
settle. `LoopRun`: weak fairness of each node's own steps, of the engine coming to rest and of requests in
progress; nobody has to start a run or answer an approval. The code gives tools and queries time limits, but
`agent.generate` (`workflows/compiler.ts:243`) has none: that a provider answers or drops the connection is an assumption.
`SshTools`: weak fairness of a call's own steps, since the database answers every call (`EveryCallAnswered` of `WasmSqlite`),
and of the timer of `executeSSHCommand`, which is armed before the client connects. Nothing is assumed of hosts,
connections, users and administrators: `CallsEnd` holds although a host never answers.

## Proofs

All theorems are for every value of the constants, under the one assumption each module names
(`OpAssumption`, `DefinitionAssumption`, `ItemAssumption`, `TextAssumption`; `OutputAssumption` and `ToolAssumption`).

- **WasmSqliteProofs**: `TypeCorrect`, `Durability` (AckedDurable), `Atomicity`, `FailureIsClean`, `NoOlderImage`
  (DiskGrows), `Refinement`. None of the properties is inductive. The invariant adds `LockInv`, that only the head of
  the queue is past waiting and no call is queued twice, and `ImageInv`, that from the export to the rename the
  temporary file holds exactly the image in the heap and that the file never holds more than the heap. From these a
  rename can only enlarge the file, which is what durability needs.
- **LoopRunProofs**: `TypeCorrect`, `Gated` (ApprovalGates), `DecidedOnce` (OneDecision). The invariant adds
  `EntryInv`, that a node which was entered has everything above it completed, and `ApprovalInv`, that an approval
  is in the audit exactly when its node is past its approval, and a denial only when the node is on its way to
  failing. An approval has no step from one to the other, since only a suspended step is resumed, and a step that has
  failed is retried only with the decision it already has.
- **LoopRecordProofs**: `CompletedIsDone` (CompletedMeansDone) and `EndsWell` (EndedWell), for every definition; `AloneIsRecorded`,
  for every step that runs alone; and from it, for every definition that is `Sequential`, `SequentialFailure` (FailureRecorded),
  `SequentialSteps` (StepStatesRecorded) and `SequentialSuspension` (SuspendedIsAnswerable).
  The first two rest on `finalize`: only its patch says `completed`, and it is entered when every other node has completed, so
  nobody is left who could write the record afterwards (`FinishInv`). The others cannot hold of every definition: two branches of
  a parallel step write back the step states they read before the other's write (see the known gaps), and `loop_parallel_approvals`
  shows the last of them violated. A node is `Alone` if every other is above or below it, and a definition is `Sequential` if all its
  nodes are, as that of `loop_sequence` is. While such a node is under way nothing else writes the record (`AloneRecorded`), and
  what later nodes write back they have read after it came to its end (`AloneKept`); so the record is right about it even
  where there are branches elsewhere. That no node's job is lost from view between two nodes needs an induction along the order
  of the nodes, which the library's theorem of minimal elements gives: `DefinitionAssumption` says for it that the nodes are
  finitely many (`server.ts:1053` admits 100), that one of them is `finalize` (`compileWorkflow` always appends it), and that a
  step reports for one node only (`server.ts:1055` refuses two steps of one id).
- **EvidenceProofs**: `TypeCorrect`, `WithheldIsUnselected`, `SuspectIsWithheld`, `CaughtOnce` (CapturedOnce),
  `AnswersAreTraceable` (AnswerTraceable), `TracesAreRelated` (SameTraceRelated), `RejectionsAreRecorded`
  (RejectionRecorded): all the properties of its passing runs. Rows are written by requests that
  read them earlier, so the invariant says of every pending write what the property says of the rows, and of every
  revision in progress that it selected no suspect item that nobody asked for. The last four are about several rows
  that one request writes one after another, so each has an invariant that says which request is still going to write what is
  missing: at most one recorder has inserted an item it has not captured (`CaptureInv`), and then nothing has; the items
  of a revision are marked or listed to be marked (`AnswerInv`); two saved items of a trace are related or one of their
  recorders has yet to relate them (`RelationInv`); a row that is rejected, or going to be, has its rejection written or an
  update that is going to write it first of its actions (`RejectionInv`).
  `RejectionIsKept` is the positive side of the finding of EvidenceStale: once no update that read an item before its
  rejection is still going to write (`Reviving`), none appears, and the item stays rejected until a request gives it another
  status or the conversation is deleted. So the stale read is the only way by which a rejection is undone unasked.
- **MemoryProofs**: `TypeCorrect`, `InjectedIsWithheld` (InjectedNeedsUser), `ForgottenStays` (ForgottenStaysGone).
  `Write` and `Archive` write from rows a request read earlier, so `InjectedNeedsUser` is not inductive: the invariant
  adds, of every request (`Right`), that the texts it has seen are those of the table except for texts erased since, that
  an injected text it has seen was not online unless somebody asked, and that it knows of no memory that is not inserted
  yet. `Sound` says which statements follow which values, and `MemoriesRight` that a forgotten memory has no text in its
  row. Then no SELECT can read that text again, and `InsertChunk`, the one action that adds chunks, only writes texts
  that its request has seen.
- **MemoryRecordProofs**: `ChunksAllOrNone` (ChunksComplete), `StatusIsRecorded` (StatusRecorded), `CopiesAreRelated` (CopiesRelated). All
  three are about requests that have ended, and need to know of those that have not what they still owe to the tables (`Owed`).
  *Chunks* (`ChunkInv`): a memory is untouched, or every missing part is owed by a request that fills it, whose next part is not
  behind it and that meets no part on its way there (it would throw on it). A request that clears the memory owes all parts; one that
  inserts a part in another's way takes over what that one can no longer reach. The number of parts is any.
  *Actions* (`StatusInv`): a status that is not logged is owed by a request that is to log it. *Relations* (`CopyInv`): of two copies,
  one creator has not searched yet, or has found the other and has yet to relate it, or has failed. The second to search finds the
  first, because the text it compares is the one it has read of its own memory, which is still the row's unless it was forgotten (`Right`).
  A process death takes with it what is owed, so the three statements are about executions without one.
- **SshToolsProofs**: `TypeCorrect`, `OutputIsAccounted`, `OnlyAuthorisedRun` (RunsAuthorised), `DeletedIsUnreachable`
  (DeletedNeverReached), `SuccessIsReal` (SuccessIsTrue), `EndIsAudited` (EndedIsAudited), and `KeepsTheAudit`, the refinement of
  `CommandAudit`. What matters is said of the moment a host is asked, and decided many awaits earlier. So the inductive
  invariant (`Invariant`) says, of each `pc`, what the call has passed when it stands there (`AllLawful`: the grant, the
  approval, the row and the decision, and that nothing of its execution exists yet), and how far both audits are and how they agree
  with the promise (`AllTold`). It also says that a deleted host stays deleted under an update that had read it before
  (`Lost`), and that a promise which is pending behind a client belongs to a running call (`Kept`). `CallbackWorks` is the one lemma about the
  callbacks of `SshExec`: the rest of the proof knows no more of them than it says.

Model-checked only: the liveness properties (`EveryCallAnswered`, `RunSettles`, `CallsEnd`), which are out of this prover's reach, as it
reasons neither about fairness nor about ENABLED. Every invariant, action property and refinement of a passing run is a theorem,
three of them under `Sequential`.

## Findings

Each has a run that shows it, and an entry in `PROJECT.json` that quotes what the code or the documents say.

1. *Foreign keys are off* (`database/wasm-sqlite.ts:137`): the pragma is set once, on opening, and the first `persist`
   resets it. No cascade that `db.ts` declares ever runs.
2. *Parallel approvals* (`workflows/compiler.ts:211`): a run has one `suspended_step`. After one of two parallel approvals has been
   answered, the record names none, and the other can be answered by nobody.
3. *An approval does not bind the definition* (`server.ts:1141`): the resume route compiles the row as it is then.
4. *Rejected evidence comes back* (`evidence.ts:430`): a request without a status writes the one it read.
5. *Forgotten text comes back* (`memory/index.ts:445`): a read that began before a memory was forgotten rebuilds its chunks
   from the row it had read. `ForgottenStaysGone` says that this is the only way: once the requests that had read the text
   have ended, no step brings it back.

### Known gaps

Consequences of the same code that no run of this project states, because they follow from a single window between two
statements or from a step that does not exist:

- a parallel branch's `updateWorkflowRunRecord` drops the step state another wrote between its SELECT and its UPDATE,
  and overwrites `failed` with `running` (`db.ts:789`, `workflows/compiler.ts:253`): this is why `StepStatesRecorded` and
  `FailureRecorded` are properties of `loop_sequence` only;
- a denial leaves `suspended_step` set (`workflows/compiler.ts:321`), so the resume route goes on until the engine refuses;
- nothing takes up a run whose process died: its row stays `running` (`server.ts:1118`);
- a run or an item of evidence that is inserted while its parent is deleted stays without one (`db.ts:762`,
  `evidence.ts:331`): the foreign keys that would refuse it are off;
- a process death between a disposition's UPDATE and its history and audit loses both (`evidence.ts:439`):
  `RejectionRecorded` is about executions without a death; two dispositions may also be written in one order
  and recorded in the other;
- an update, or maintenance, that read a memory before it was forgotten writes its old status, or `archived`, afterwards
  (`memory/index.ts:669`, `:999`), and an update writes the old note back; a PATCH with the status `forgotten` keeps the text (`server.ts:664`);
- of two requests that rebuild the same chunks, one can throw on their unique index (`memory/index.ts:269`): a plain read
  then fails, and a creation leaves a memory without its relations;
- an item rejected between the two reads of a revision is both selected for it and on its list of exclusions
  (`server.ts:778`);
- an approval of a configured command is given for its id: its text, and its host's address, are read when it is executed
  (`tools/ssh-tools.ts:372-379`), so an edit in between runs another text than the one approved, and the audit says
  `approval.enforced` of it. The documents say that an approval is bound to its parameters (`src/docs/competition/product-functional-specification.md:151`);
- an inspection that `requireApproval` let pass, because the host was not simulated or the policy asked for no approval, runs
  without one if either is switched before its execution (`tools/ssh-tools.ts:294`, `:298`). On the simulated host, the
  audit then says `approval.enforced` too;
- when an audit cannot be written after a command succeeded, the same command is audited as failed as well, and the agent
  is told that it failed (`tools/ssh-tools.ts:145`): it may run it again;
- the time limit ends the client, not the command: the host may go on with it (`tools/ssh.ts:223`);
- an update of a host writes the private key it read, over one set in between (`ssh/repository.ts:146`).

## Not modelled

Left out for good: the observability tools (query construction without state), authentication, configuration and
encryption (one call of a library each), MCP (connections of a library), presets and catalogs (data), the frontend
(rendering of the routes), the SigNoz query service and frontend (third-party code, most of the repository's lines),
and deployment. The classification of a user's input and the analysis of a command are regular expressions: there is
no state in them, and a model would only repeat the patterns.

Left for the plan below: the ranking of memories and evidence, the values a Loop's conditions compute, chat, the
settings, and the debug data generator. `probeSSHHostKey` is not modelled: it reads a key for an administrator to look at.

## Plan

1. `WasmSqlite`, `DurableStore`, their refinement and proofs. *Done.*
2. `LoopRun` and its proofs. *Done.*
3. `Evidence` and its proofs. *Done.*
4. `Memory` and its proofs. *Done.*
5. `SshExec`, `SshTools` and `CommandAudit`, composed, their refinement and proofs. *Done.*
6. `DebugMode` (Go): two overlapping updates start two workers, and the second overwrites the first one's cancel function
   (`src/pkg/query-service/app/debugmode/manager.go`).
7. The settings' read-modify-write, `Chat`, and a second editor of a workflow.
8. `Decisions`, the pure functions over bounded inputs against reference definitions: Loop conditions and `foreach`,
   ranking and budgets of retrieval.
9. Proofs of all invariants, action properties and refinements of the passing runs. *Done.* Left: the positive sides of the findings,
   that a step is the only way to what they show, as `RejectionStands` is for the one of EvidenceStale and
   `ForgottenStaysGone` for the one of MemoryForgotten.
