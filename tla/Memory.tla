------------------------------- MODULE Memory -------------------------------
(***************************************************************************)
(* The life of memories (agent-service, memory/index.ts, memory/samples.ts *)
(* and the routes of server.ts): created or reinforced, read, retrieved,   *)
(* updated, forgotten, maintained, and, if they are samples, deleted.      *)
(* Every request is a sequence of statements with an await after each, and *)
(* reading a memory may write: hydrateMemories rebuilds the chunks of a    *)
(* memory that has none, from the row it read.                             *)
(*                                                                         *)
(* A memory is named by the request that inserted it.  Scores, owners and  *)
(* scopes, notes, sources, the security audit, and the relations that the  *)
(* texts' similarity decides are not in this module; where they choose     *)
(* what maintenance does, it may do either.                                *)
(***************************************************************************)
EXTENDS Naturals

CONSTANTS
    Request,   \* the requests that may be made, each of them once
    Text,      \* what a memory may hold: title, summary, content and their hash
    Injected,  \* the texts with a prompt injection in them
    Sample,    \* the texts of the sample catalog
    Parts,     \* the number of chunks of a text
    Erased,    \* the text of a tombstone, which has no chunks
    None       \* no text

ASSUME TextAssumption ==
    /\ Injected \subseteq Text
    /\ Sample \subseteq Text
    /\ Parts \in Nat \ {0}
    /\ Erased \notin Text
    /\ None \notin Text \cup {Erased}

Status == {"active", "verified", "suspended", "archived", "forgotten"}
Online == {"active", "verified"}

VARIABLES
    row,        \* scry_memory_items; status "none" is no row
    chunks,     \* scry_memory_chunks: the indexes a memory has chunks at
    relations,  \* scry_memory_relations of type duplicates
    actions,    \* scry_memory_actions: every next_status of a memory
    req,        \* the requests
    offered,    \* history: the memories retrieval has handed out
    asked,      \* history: those somebody asked to activate or verify
    forgot,     \* history: those forgetMemory has erased
    crashed     \* history: the process has died at least once

stored == <<row, chunks, relations, actions>>
history == <<offered, asked, forgot, crashed>>
vars == <<stored, req, history>>

NoRow == [status |-> "none", text |-> None]
NothingSeen == [m \in Request |-> NoRow]

\* "at" is the statement the request makes next, "then" the one that follows
\* the hydration of what it has seen.
Idle == [at |-> "idle", then |-> "done", seen |-> NothingSeen,
         todo |-> {}, part |-> 0, item |-> {}, text |-> None, status |-> "none",
         left |-> {}, pairs |-> {}]

Ended(outcome) == [Idle EXCEPT !.at = outcome]
Done == Ended("done")

Saved == {m \in Request : row[m].status # "none"}
SeenBy(q) == {m \in Request : q.seen[m].status # "none"}

Init ==
    /\ row = [m \in Request |-> NoRow]
    /\ chunks = [m \in Request |-> {}]
    /\ relations = {}
    /\ actions = [m \in Request |-> {}]
    /\ req = [r \in Request |-> Idle]
    /\ offered = {}
    /\ asked = {}
    /\ forgot = {}
    /\ crashed = FALSE

At(r, at) == req[r].at = at
Becomes(r, q) == req' = [req EXCEPT ![r] = q]
Proceeds(r, at) == Becomes(r, [req[r] EXCEPT !.at = at])

-----------------------------------------------------------------------------
(* getMemory and listMemories: a SELECT of rows, then hydrateMemories      *)

\* A request that has read the rows of some memories, to hydrate them.
Reading(q, ms, then) ==
    [q EXCEPT !.at = "chunks", !.then = then,
              !.seen = [m \in Request |-> IF m \in ms THEN row[m] ELSE NoRow]]

\* Done is the last statement of its request.
Continued(q) == IF q.then = "done" THEN Done ELSE [q EXCEPT !.at = q.then]

Hydrated(q) == IF q.todo = {} THEN Continued(q) ELSE [q EXCEPT !.at = "clear"]

SelectChunks(r) ==
    LET missing == {m \in SeenBy(req[r]) :
                       req[r].seen[m].status # "forgotten" /\ chunks[m] = {}}
    IN
    /\ At(r, "chunks")
    /\ Becomes(r, Hydrated([req[r] EXCEPT !.todo = missing]))
    /\ UNCHANGED <<stored, history>>

\* persistMemoryChunks
ClearChunks(r) ==
    /\ At(r, "clear")
    /\ \E m \in req[r].todo :
           /\ chunks' = [chunks EXCEPT ![m] = {}]
           /\ Becomes(r, IF req[r].seen[m].text = Erased
                         THEN Hydrated([req[r] EXCEPT !.todo = @ \ {m}])
                         ELSE [req[r] EXCEPT !.at = "fill", !.part = 1,
                                             !.todo = @ \ {m}, !.left = {m}])
    /\ UNCHANGED <<row, relations, actions, history>>

LastPartShort(part) == part + 1 >= Parts   \* mutant: the last chunk is left out
LastPart(part) == part = Parts

\* UNIQUE(memory_id, chunk_index): the INSERT throws, and the request with it.
InsertChunk(r) ==
    /\ At(r, "fill")
    /\ \E m \in req[r].left :
           IF req[r].part \in chunks[m]
           THEN Becomes(r, Ended("failed")) /\ UNCHANGED chunks
           ELSE /\ chunks' = [chunks EXCEPT ![m] = @ \cup {req[r].part}]
                /\ Becomes(r, IF LastPart(req[r].part)
                              THEN Hydrated([req[r] EXCEPT !.part = 0, !.left = {}])
                              ELSE [req[r] EXCEPT !.part = @ + 1])
    /\ UNCHANGED <<row, relations, actions, history>>

\* GET of one memory, or of a list with any filter.
Read(r) ==
    /\ At(r, "idle")
    /\ \E ms \in SUBSET Saved :
           /\ ms # {}
           /\ Becomes(r, Reading(Idle, ms, "done"))
    /\ UNCHANGED <<stored, history>>

\* retrieveMemories: the candidates, and what is handed out of them.
SelectCandidates(r) ==
    /\ At(r, "idle")
    /\ \E m \in Saved : row[m].status \in Online
    /\ Becomes(r, Reading(Idle, {m \in Saved : row[m].status \in Online}, "offer"))
    /\ UNCHANGED <<stored, history>>

Offer(r) ==
    /\ At(r, "offer")
    /\ offered' = offered \cup SeenBy(req[r])
    /\ Becomes(r, Done)
    /\ UNCHANGED <<stored, asked, forgot, crashed>>

-----------------------------------------------------------------------------
(* createMemory, and the check of generateMemorySamples before it          *)

StartCreate(r) ==
    /\ At(r, "idle")
    /\ \E text \in Text, status \in Online :
           Becomes(r, [Idle EXCEPT !.at = "find", !.text = text, !.status = status])
    /\ UNCHANGED <<stored, history>>

Live(text) == {m \in Saved : row[m].text = text /\ row[m].status # "forgotten"}

\* A sample that is found, and still there when it is read, is not created.
FindSample(r) ==
    LET sample(text) == [Idle EXCEPT !.text = text, !.status = "active"] IN
    /\ At(r, "idle")
    /\ \E text \in Sample :
           IF Live(text) = {}
           THEN Becomes(r, [sample(text) EXCEPT !.at = "find"])
           ELSE \E m \in Live(text) :
                    Becomes(r, [sample(text) EXCEPT !.at = "sample", !.item = {m}])
    /\ UNCHANGED <<stored, history>>

GetSample(r) ==
    /\ At(r, "sample")
    /\ LET found == req[r].item \cap Saved IN
       Becomes(r, IF found = {}
                  THEN [req[r] EXCEPT !.at = "find", !.item = {}]
                  ELSE Reading(Idle, found, "done"))
    /\ UNCHANGED <<stored, history>>

\* What is found is reinforced: counters and scores, sources, an action.
FindExisting(r) ==
    /\ At(r, "find")
    /\ IF Live(req[r].text) = {}
       THEN Proceeds(r, "insert")
       ELSE \E m \in Live(req[r].text) :
                Becomes(r, [req[r] EXCEPT !.at = "log", !.then = "reget", !.item = {m},
                                          !.status = row[m].status])
    /\ UNCHANGED <<stored, history>>

\* mutant: the caller's status comes first
InitialStatusAsked(text, status) == status
InitialStatus(text, status) == IF text \in Injected THEN "suspended" ELSE status

InsertMemory(r) ==
    LET status == InitialStatus(req[r].text, req[r].status) IN
    /\ At(r, "insert")
    /\ row' = [row EXCEPT ![r] = [status |-> status, text |-> req[r].text]]
    /\ Becomes(r, [req[r] EXCEPT !.at = "log", !.then = "get", !.item = {r},
                                 !.status = status])
    /\ UNCHANGED <<chunks, relations, actions, history>>

\* addMemoryAction
LogAction(r) ==
    /\ At(r, "log")
    /\ \E m \in req[r].item :
           actions' = [actions EXCEPT ![m] = @ \cup {req[r].status}]
    /\ Proceeds(r, req[r].then)
    /\ UNCHANGED <<row, chunks, relations, history>>

\* createMemory relates the memory that it reads again; if that is gone, it
\* throws.
GetCreated(r) ==
    /\ At(r, "get")
    /\ Becomes(r, IF r \in Saved THEN Reading(req[r], {r}, "relate") ELSE Ended("failed"))
    /\ UNCHANGED <<stored, history>>

\* mutant: only memories that retrieval would find are related to
CopiesOnline(r) ==
    {m \in Saved \ {r} : row[m].status \in Online /\ row[m].text = req[r].seen[r].text}
Copies(r) ==
    {m \in Saved \ {r} : row[m].status # "forgotten" /\ row[m].text = req[r].seen[r].text}

SelectOthers(r) ==
    /\ At(r, "relate")
    /\ Becomes(r, [req[r] EXCEPT !.at = "relating", !.left = Copies(r)])
    /\ UNCHANGED <<stored, history>>

\* Every request that has written reads its memory again at its end.
Relate(r) ==
    /\ At(r, "relating")
    /\ IF req[r].left = {}
       THEN Proceeds(r, "reget") /\ UNCHANGED relations
       ELSE \E m \in req[r].left :
                /\ relations' = relations \cup {<<r, m>>}
                /\ Becomes(r, [req[r] EXCEPT !.left = @ \ {m}])
    /\ UNCHANGED <<row, chunks, actions, history>>

Reget(r) ==
    /\ At(r, "reget")
    /\ LET found == req[r].item \cap Saved IN
       Becomes(r, IF found = {} THEN Done ELSE Reading(Idle, found, "done"))
    /\ UNCHANGED <<stored, history>>

-----------------------------------------------------------------------------
(* updateMemory, forgetMemory, deleteSampleMemory                          *)

StartOn(r, m, status, first) ==
    /\ At(r, "idle")
    /\ Becomes(r, Reading([Idle EXCEPT !.item = {m}, !.status = status], {m}, first))

\* A request that gives no status gives a note, a score, or pins the memory.
StartUpdate(r) ==
    /\ \E m \in Saved, status \in Status \cup {"keep"} :
           /\ StartOn(r, m, status, "write")
           /\ asked' = IF status \in Online THEN asked \cup {m} ELSE asked
    /\ UNCHANGED <<stored, offered, forgot, crashed>>

NextStatusAsked(status, current) == status   \* mutant: the status is not defaulted
NextStatus(status, current) == IF status = "keep" THEN current ELSE status

Write(r) ==
    /\ At(r, "write")
    /\ \E m \in req[r].item :
           LET status == NextStatus(req[r].status, req[r].seen[m].status) IN
           /\ row' = IF m \in Saved THEN [row EXCEPT ![m].status = status] ELSE row
           /\ Becomes(r, [req[r] EXCEPT !.at = "log", !.then = "reget", !.status = status])
    /\ UNCHANGED <<chunks, relations, actions, history>>

StartForget(r) ==
    /\ \E m \in Saved : StartOn(r, m, "forgotten", "tombstone")
    /\ UNCHANGED <<stored, history>>

\* mutant: the text stays in the row
TombstoneKeepingText(m) == [row[m] EXCEPT !.status = "forgotten"]
Tombstone(m) == [status |-> "forgotten", text |-> Erased]

Entomb(r) ==
    /\ At(r, "tombstone")
    /\ \E m \in req[r].item :
           row' = IF m \in Saved THEN [row EXCEPT ![m] = Tombstone(m)] ELSE row
    /\ Proceeds(r, "erase")
    /\ UNCHANGED <<chunks, relations, actions, history>>

EraseChunks(r) ==
    /\ At(r, "erase")
    /\ \E m \in req[r].item : chunks' = [chunks EXCEPT ![m] = {}]
    /\ forgot' = forgot \cup req[r].item
    /\ Becomes(r, [req[r] EXCEPT !.at = "log", !.then = "reget"])
    /\ UNCHANGED <<row, relations, actions, offered, asked, crashed>>

StartDelete(r) ==
    /\ \E m \in Saved : StartOn(r, m, "none", "delete")
    /\ UNCHANGED <<stored, history>>

\* One transaction; what is not a sample is refused.
Delete(r) ==
    /\ At(r, "delete")
    /\ \E m \in req[r].item :
           IF req[r].seen[m].text \in Sample
           THEN /\ row' = [row EXCEPT ![m] = NoRow]
                /\ chunks' = [chunks EXCEPT ![m] = {}]
                /\ relations' = {pair \in relations : m \notin {pair[1], pair[2]}}
                /\ actions' = [actions EXCEPT ![m] = {}]
                /\ Becomes(r, Done)
           ELSE Becomes(r, Ended("failed")) /\ UNCHANGED stored
    /\ UNCHANGED history

-----------------------------------------------------------------------------
(* maintainMemories: from one list, it archives memories one by one and    *)
(* then goes through the pairs of those that were online in it.            *)

StartMaintain(r) ==
    /\ At(r, "idle")
    /\ Saved # {}
    /\ Becomes(r, [Reading(Idle, Saved, "sweep")
                      EXCEPT !.pairs = {{m, n} : m, n \in {o \in Saved : row[o].status \in Online}}])
    /\ UNCHANGED <<stored, history>>

\* mutant: maintenance writes no action
MaintainedUnlogged(r, m, status) == [req[r] EXCEPT !.item = {m}]
Maintained(r, m, status) ==
    [req[r] EXCEPT !.at = "log", !.then = "sweep", !.item = {m}, !.status = status]

\* UPDATE ... SET status = ? WHERE id = ?
Moves(r, m, status, q) ==
    /\ row' = IF m \in Saved THEN [row EXCEPT ![m].status = status] ELSE row
    /\ Becomes(r, q)
    /\ UNCHANGED <<chunks, relations, actions, history>>

\* Expired, or of low vitality: a memory of the list that was not forgotten.
Archive(r) ==
    /\ At(r, "sweep")
    /\ \E m \in SeenBy(req[r]) \ req[r].todo :
           /\ req[r].seen[m].status # "forgotten"
           /\ Moves(r, m, "archived", [Maintained(r, m, "archived") EXCEPT !.todo = @ \cup {m}])

\* Merged into the other of the pair, or in conflict with it.
MoveOfPair(r) ==
    /\ At(r, "sweep")
    /\ \E pair \in req[r].pairs, status \in {"archived", "suspended"} : \E m \in pair :
           /\ pair # {m}
           /\ req[r].seen[m].status # "verified"
           /\ Moves(r, m, status,
                    [Maintained(r, m, status) EXCEPT !.pairs = @ \ {pair},
                                                     !.todo = SeenBy(req[r])])

EndMaintain(r) ==
    /\ At(r, "sweep")
    /\ Becomes(r, Done)
    /\ UNCHANGED <<stored, history>>

-----------------------------------------------------------------------------
\* The process dies between two statements of its requests.
Crash ==
    /\ req' = [r \in Request |->
                  IF At(r, "idle") \/ At(r, "done") THEN req[r] ELSE Ended("failed")]
    /\ crashed' = TRUE
    /\ UNCHANGED <<stored, offered, asked, forgot>>

Hydrate(r) == SelectChunks(r) \/ ClearChunks(r) \/ InsertChunk(r)
Retrieve(r) == Read(r) \/ SelectCandidates(r) \/ Offer(r)
Create(r) ==
    \/ StartCreate(r) \/ FindSample(r) \/ GetSample(r) \/ FindExisting(r)
    \/ InsertMemory(r) \/ LogAction(r) \/ GetCreated(r) \/ SelectOthers(r) \/ Relate(r) \/ Reget(r)
Change(r) ==
    \/ StartUpdate(r) \/ Write(r)
    \/ StartForget(r) \/ Entomb(r) \/ EraseChunks(r)
    \/ StartDelete(r) \/ Delete(r)
Maintain(r) == StartMaintain(r) \/ Archive(r) \/ MoveOfPair(r) \/ EndMaintain(r)

Next ==
    \/ \E r \in Request : Hydrate(r) \/ Retrieve(r) \/ Create(r) \/ Change(r) \/ Maintain(r)
    \/ Crash

Spec == Init /\ [][Next]_vars

-----------------------------------------------------------------------------
(* Properties                                                              *)

AtRest == \A r \in Request : req[r].at \in {"idle", "done", "failed"}

Rows == [status : Status, text : Text \cup {Erased}] \cup {NoRow}

RequestStatus == Status \cup {"none", "keep"}

Requests ==
    [at : {"idle", "chunks", "clear", "fill", "offer", "sample", "find", "insert", "log", "get",
           "relate", "relating", "reget", "write", "tombstone", "erase", "delete", "sweep",
           "done", "failed"},
     then : {"done", "offer", "get", "relate", "reget", "write", "tombstone", "delete", "sweep"},
     seen : [Request -> Rows], todo : SUBSET Request, part : 0 .. Parts,
     item : SUBSET Request, text : Text \cup {None}, status : RequestStatus,
     left : SUBSET Request, pairs : SUBSET SUBSET Request]

\* The types of the variables.
TypeOK ==
    /\ row \in [Request -> Rows]
    /\ chunks \in [Request -> SUBSET (1 .. Parts)]
    /\ relations \subseteq Request \X Request
    /\ actions \in [Request -> SUBSET Status]
    /\ req \in [Request -> Requests]
    /\ offered \subseteq Request
    /\ asked \subseteq Request
    /\ forgot \subseteq Request
    /\ crashed \in BOOLEAN

\* Memory with a prompt injection in it is not online, and no retrieval hands
\* it out, before somebody asked to activate or verify it: not because of what
\* its creator asked, maintenance did or a stale update wrote back.
InjectedNeedsUser ==
    \A m \in Request \ asked :
        row[m].text \in Injected => row[m].status \notin Online /\ m \notin offered

\* Requests that rebuild the chunks of one memory at the same time make each
\* other fail, and yet leave all its chunks or none.
ChunksComplete ==
    ~crashed /\ AtRest =>
        \A m \in Saved \ forgot : chunks[m] \in {{}, 1 .. Parts}

\* The status a memory has come to is in its actions, whoever wrote it last.
StatusRecorded ==
    ~crashed /\ AtRest => \A m \in Saved : row[m].status \in actions[m]

\* The check of createMemory for the same content does not hold two creations
\* apart, but the copies they make are related as duplicates, unless one of
\* them was forgotten in between.
CopiesRelated ==
    ~crashed /\ AtRest =>
        \A r, s \in Saved :
            /\ r # s /\ row[r].text = row[s].text
            /\ \A m \in {r, s} : At(m, "done") /\ "forgotten" \notin actions[m]
            => <<r, s>> \in relations \/ <<s, r>> \in relations

\* Once the requests that had read the text of a memory before it was forgotten
\* have ended, no request reads it again and no step writes it into chunks, also
\* if the status of the memory is changed later.
ReadByNone(m) == \A r \in Request : req[r].seen[m].text \notin Text

ForgottenStaysGone ==
    [][\A m \in forgot :
           ReadByNone(m) => /\ ReadByNone(m)'
                            /\ chunks[m] = {} => chunks'[m] = {}]_vars

-----------------------------------------------------------------------------
(* What the documents say of memory, and the code does not do              *)

\* Nothing of the text is left when a memory has been forgotten.
ForgottenLeavesNoText == ~crashed /\ AtRest => \A m \in forgot : chunks[m] = {}

=============================================================================
