------------------------------- MODULE Evidence -------------------------------
(***************************************************************************)
(* The evidence of one conversation (agent-service, evidence.ts and the    *)
(* routes of server.ts that use it).  Tool calls and messages record it,   *)
(* users dispose of it, revised answers are generated from it, and the     *)
(* conversation may be deleted, all at the same time: every request is a   *)
(* sequence of statements with an await after each.                        *)
(*                                                                         *)
(* An item stands for its deduplication key: trace, source and hash of the *)
(* content.  Scores, texts and the relations that depend on the texts'     *)
(* similarity are not in this module.                                      *)
(***************************************************************************)
EXTENDS Naturals, Sequences

CONSTANTS
    Item,      \* what may be recorded
    Trace,     \* the trace each item is recorded under
    Suspect,   \* the items with a prompt injection in them
    Backfill,  \* the items that only the backfill of old messages records
    Recorder,  \* the tool calls and messages that record, each of them once
    Updater,   \* the requests that dispose of an item
    Reviser    \* the requests for a revised answer

ASSUME ItemAssumption ==
    /\ Trace \in [Item -> STRING]
    /\ Suspect \subseteq Item
    /\ Backfill \subseteq Item

Disposition == {"active", "accepted", "rejected", "suspended"}
Withheld == {"rejected", "suspended"}
Actions == {"captured", "auto_suspended", "restored", "accepted", "rejected",
            "suspended", "selected", "unselected", "noted", "updated", "used_for_revision"}

VARIABLES
    thread,     \* the conversation exists
    row,        \* scry_evidence_items; status "none" is no row
    history,    \* scry_evidence_actions: the actions on each item, and how often
                \* it was captured
    relations,  \* scry_evidence_relations: pairs of items
    revisions,  \* scry_evidence_revisions
    answered,   \* the revisions whose answer is in the conversation
    audit,      \* the evidence events of the security audit
    learned,    \* the items the memory has learnt from
    recorder, updater, reviser,  \* the requests in progress
    asked,      \* history: the items somebody asked to activate or accept
    crashed     \* history: the process has died at least once

stored == <<thread, row, history, relations, revisions, answered, audit, learned>>
vars == <<stored, recorder, updater, reviser, asked, crashed>>

NoRow == [status |-> "none", selected |-> FALSE]
NoHistory == [actions |-> {}, captures |-> 0]
IdleRecorder == [at |-> "idle", todo |-> {}, item |-> {}, created |-> FALSE, others |-> {}]
IdleUpdater == [at |-> "idle", item |-> {}, status |-> "none", before |-> "none",
                next |-> NoRow, actions |-> <<>>]
IdleReviser == [at |-> "idle", selected |-> {}, excluded |-> {}, unmarked |-> {}]

Done(request) == [request EXCEPT !.at = "done"]

Saved == {i \in Item : row[i].status # "none"}

Init ==
    /\ thread = TRUE
    /\ row = [i \in Item |-> NoRow]
    /\ history = [i \in Item |-> NoHistory]
    /\ relations = {}
    /\ revisions = {}
    /\ answered = {}
    /\ audit = {}
    /\ learned = {}
    /\ recorder = [r \in Recorder |-> IdleRecorder]
    /\ updater = [u \in Updater |-> IdleUpdater]
    /\ reviser = [v \in Reviser |-> IdleReviser]
    /\ asked = {}
    /\ crashed = FALSE

\* INSERT INTO scry_evidence_actions
WithAction(i, action) ==
    [history EXCEPT ![i] =
        [actions  |-> @.actions \cup {action},
         captures |-> IF action \in {"captured", "auto_suspended"} /\ @.captures < 2
                      THEN @.captures + 1 ELSE @.captures]]

-----------------------------------------------------------------------------
(* recordEvidence                                                          *)

RecorderStep(r, to) ==
    /\ recorder' = [recorder EXCEPT ![r] = to]
    /\ UNCHANGED <<thread, revisions, answered, learned, updater, reviser, asked, crashed>>

Recording(r, at) == recorder[r].at = at

\* A tool call records its result, a message every result in it.
StartRecording(r) ==
    /\ Recording(r, "idle")
    /\ \E todo \in {{i} : i \in Item \ Backfill} \cup {Item \ Backfill} :
           RecorderStep(r, [IdleRecorder EXCEPT !.at = "next", !.todo = todo])
    /\ UNCHANGED <<row, history, relations, audit>>

\* The list of a conversation without evidence records what its messages hold.
StartBackfill(r) ==
    /\ Recording(r, "idle")
    /\ thread
    /\ Saved = {}
    /\ Backfill # {}
    /\ RecorderStep(r, [IdleRecorder EXCEPT !.at = "next", !.todo = Backfill])
    /\ UNCHANGED <<row, history, relations, audit>>

CheckOwned(r) ==
    /\ Recording(r, "next")
    /\ IF recorder[r].todo = {}
       THEN RecorderStep(r, Done(IdleRecorder))
       ELSE \E i \in recorder[r].todo :
                RecorderStep(r, [IdleRecorder EXCEPT
                                    !.at = IF thread THEN "insert" ELSE "next",
                                    !.item = {i},
                                    !.todo = recorder[r].todo \ {i}])
    /\ UNCHANGED <<row, history, relations, audit>>

InitialRow(i) ==
    [status |-> IF i \in Suspect THEN "suspended" ELSE "active",
     selected |-> i \notin Suspect]

\* mutant: the result of the INSERT OR IGNORE is not looked at
CreatedAlways(i) == TRUE
Created(i) == i \notin Saved

Insert(r) ==
    \E i \in recorder[r].item :
        /\ Recording(r, "insert")
        /\ row' = [row EXCEPT ![i] = IF i \in Saved THEN @ ELSE InitialRow(i)]
        /\ RecorderStep(r, [recorder[r] EXCEPT !.at = "select", !.created = Created(i)])
        /\ UNCHANGED <<history, relations, audit>>

SelectSaved(r) ==
    \E i \in recorder[r].item :
        /\ Recording(r, "select")
        /\ RecorderStep(r, [recorder[r] EXCEPT
                               !.at = IF i \in Saved /\ recorder[r].created
                                      THEN "log" ELSE "next"])
        /\ UNCHANGED <<row, history, relations, audit>>

LogCapture(r) ==
    \E i \in recorder[r].item :
        /\ Recording(r, "log")
        /\ history' = WithAction(i, IF i \in Suspect THEN "auto_suspended" ELSE "captured")
        /\ RecorderStep(r, [recorder[r] EXCEPT
                               !.at = IF i \in Suspect THEN "audit" ELSE "relate"])
        /\ UNCHANGED <<row, relations, audit>>

AuditCapture(r) ==
    \E i \in recorder[r].item :
        /\ Recording(r, "audit")
        /\ audit' = audit \cup {<<i, "auto_suspended">>}
        /\ RecorderStep(r, [recorder[r] EXCEPT !.at = "relate"])
        /\ UNCHANGED <<row, history, relations>>

\* mutant: only evidence in use is related to
OthersInUse(i) == {j \in Saved \ {i} : Trace[j] = Trace[i] /\ row[j].status = "active"}
Others(i) == {j \in Saved \ {i} : Trace[j] = Trace[i]}

SelectOthers(r) ==
    \E i \in recorder[r].item :
        /\ Recording(r, "relate")
        /\ RecorderStep(r, [recorder[r] EXCEPT !.at = "relating", !.others = Others(i)])
        /\ UNCHANGED <<row, history, relations, audit>>

Relate(r) ==
    \E i \in recorder[r].item :
        /\ Recording(r, "relating")
        /\ IF recorder[r].others = {}
           THEN /\ RecorderStep(r, [recorder[r] EXCEPT !.at = "next"])
                /\ UNCHANGED relations
           ELSE \E j \in recorder[r].others :
                    /\ relations' = relations \cup {<<i, j>>}
                    /\ RecorderStep(r, [recorder[r] EXCEPT !.others = @ \ {j}])
        /\ UNCHANGED <<row, history, audit>>

-----------------------------------------------------------------------------
(* updateEvidence, PATCH /api/evidence/:evidenceId                         *)

UpdaterStep(u, to) ==
    /\ updater' = [updater EXCEPT ![u] = to]
    /\ UNCHANGED <<thread, relations, revisions, answered, recorder, reviser, crashed>>

Updating(u, at) == updater[u].at = at

\* mutant: the request's selection comes first
NextSelectedAsAsked(status, selected, current) ==
    IF selected = "keep" THEN current ELSE selected = "yes"

NextSelected(status, selected, current) ==
    /\ status \notin Withheld
    /\ IF selected = "keep" THEN current ELSE selected = "yes"

\* mutant: only the dispositions that put an item into use are written down
DispositionActionsInUse(status, current) ==
    IF status \in {"active", "accepted"} /\ status # current
    THEN <<IF status = "active" THEN "restored" ELSE status>>
    ELSE <<>>

DispositionActions(status, current) ==
    IF status \in Disposition /\ status # current
    THEN <<IF status = "active" THEN "restored" ELSE status>>
    ELSE <<>>

SelectionActions(selected, next, current) ==
    IF selected # "keep" /\ next # current
    THEN <<IF next THEN "selected" ELSE "unselected">>
    ELSE <<>>

NoteActions(noted) == IF noted THEN <<"noted">> ELSE <<>>

\* mutant: an update without changes is written as nothing
OrUpdatedNone(actions) == IF actions = <<>> THEN <<"none">> ELSE actions
OrUpdated(actions) == IF actions = <<>> THEN <<"updated">> ELSE actions

\* A request gives a status, a selection or a note; a note may be the old one.
ReadCurrent(u) ==
    /\ Updating(u, "idle")
    /\ \E i \in Saved, status \in Disposition \cup {"keep"},
          selected \in {"keep", "yes", "no"}, noted \in BOOLEAN :
           LET current == row[i]
               next == IF status = "keep" THEN current.status ELSE status
               chosen == NextSelected(next, selected, current.selected)
           IN
           /\ UpdaterStep(u, [at |-> "write", item |-> {i}, status |-> status,
                              before |-> current.status,
                              next |-> [status |-> next, selected |-> chosen],
                              actions |-> OrUpdated(
                                  DispositionActions(status, current.status)
                                  \o SelectionActions(selected, chosen, current.selected)
                                  \o NoteActions(noted))])
           /\ asked' = IF status \in {"active", "accepted"} THEN asked \cup {i} ELSE asked
    /\ UNCHANGED <<row, history, audit, learned>>

Write(u) ==
    \E i \in updater[u].item :
        /\ Updating(u, "write")
        /\ row' = [row EXCEPT ![i] = IF i \in Saved THEN updater[u].next ELSE @]
        /\ UpdaterStep(u, [updater[u] EXCEPT !.at = "log"])
        /\ UNCHANGED <<history, audit, learned, asked>>

LogAction(u) ==
    \E i \in updater[u].item :
        /\ Updating(u, "log")
        /\ history' = WithAction(i, Head(updater[u].actions))
        /\ UpdaterStep(u, [updater[u] EXCEPT !.at = "audit"])
        /\ UNCHANGED <<row, audit, learned, asked>>

AuditAction(u) ==
    \E i \in updater[u].item :
        /\ Updating(u, "audit")
        /\ audit' = audit \cup {<<i, Head(updater[u].actions)>>}
        /\ UpdaterStep(u, [updater[u] EXCEPT
                              !.at = IF Len(updater[u].actions) > 1 THEN "log" ELSE "reread",
                              !.actions = Tail(@)])
        /\ UNCHANGED <<row, history, learned, asked>>

Reread(u) ==
    \E i \in updater[u].item :
        /\ Updating(u, "reread")
        /\ UpdaterStep(u, IF updater[u].before # "accepted" /\ row[i].status = "accepted"
                          THEN [updater[u] EXCEPT !.at = "learn"]
                          ELSE Done(IdleUpdater))
        /\ UNCHANGED <<row, history, audit, learned, asked>>

\* Learning may fail: its error is logged.
Learn(u) ==
    \E i \in updater[u].item :
        /\ Updating(u, "learn")
        /\ learned' \in {learned, learned \cup {i}}
        /\ UpdaterStep(u, Done(IdleUpdater))
        /\ UNCHANGED <<row, history, audit, asked>>

-----------------------------------------------------------------------------
(* POST /api/threads/:threadId/evidence/revise, recordEvidenceRevision     *)

ReviserStep(v, to) ==
    /\ reviser' = [reviser EXCEPT ![v] = to]
    /\ UNCHANGED <<thread, row, relations, learned, recorder, updater, asked, crashed>>

Revising(v, at) == reviser[v].at = at

\* mutant: what the user selected is used as it is
UsableAsSelected(ids) == ids
Usable(ids) == {i \in ids : row[i].status \notin Withheld}

SelectUsable(v) ==
    /\ Revising(v, "idle")
    /\ thread
    /\ \E ids \in SUBSET Saved :
           /\ Usable(ids) # {}
           /\ ReviserStep(v, [IdleReviser EXCEPT !.at = "exclude", !.selected = Usable(ids)])
    /\ UNCHANGED <<history, revisions, answered, audit>>

ListExcluded(v) ==
    /\ Revising(v, "exclude")
    /\ ReviserStep(v, [reviser[v] EXCEPT
                          !.at = "generate",
                          !.excluded = {i \in Saved : row[i].status \in Withheld}])
    /\ UNCHANGED <<history, revisions, answered, audit>>

\* The model answers, or the call throws and the request ends.
Generate(v) ==
    /\ Revising(v, "generate")
    /\ \/ ReviserStep(v, [reviser[v] EXCEPT !.at = "record"])
       \/ ReviserStep(v, Done(IdleReviser))
    /\ UNCHANGED <<history, revisions, answered, audit>>

Revision(v) == <<v, reviser[v].selected, reviser[v].excluded>>

RecordRevision(v) ==
    /\ Revising(v, "record")
    /\ revisions' = revisions \cup {Revision(v)}
    /\ ReviserStep(v, [reviser[v] EXCEPT !.at = "mark", !.unmarked = reviser[v].selected])
    /\ UNCHANGED <<history, answered, audit>>

\* mutant: the answer does not wait for the marks
AnswerAfterRecord(v) == reviser[v].at = "mark"
AnswerDue(v) == reviser[v].at = "mark" /\ reviser[v].unmarked = {}

MarkUsed(v) ==
    /\ Revising(v, "mark")
    /\ \E i \in reviser[v].unmarked :
           /\ history' = IF i \in Saved
                         THEN WithAction(i, "used_for_revision")
                         ELSE history
           /\ ReviserStep(v, [reviser[v] EXCEPT !.unmarked = @ \ {i}])
    /\ UNCHANGED <<revisions, answered, audit>>

SaveAnswer(v) ==
    /\ AnswerDue(v)
    /\ answered' = answered \cup {Revision(v)}
    /\ ReviserStep(v, [reviser[v] EXCEPT !.at = "audit"])
    /\ UNCHANGED <<history, revisions, audit>>

AuditRevision(v) ==
    /\ Revising(v, "audit")
    /\ audit' = audit \cup {<<"revision", v>>}
    /\ ReviserStep(v, Done(IdleReviser))
    /\ UNCHANGED <<history, revisions, answered>>

-----------------------------------------------------------------------------
(* The conversation and the process                                        *)

\* DELETE /api/threads/:threadId: one transaction.
DeleteThread ==
    /\ thread
    /\ thread' = FALSE
    /\ row' = [i \in Item |-> NoRow]
    /\ history' = [i \in Item |-> NoHistory]
    /\ relations' = {}
    /\ revisions' = {}
    /\ answered' = {}
    /\ UNCHANGED <<audit, learned, recorder, updater, reviser, asked, crashed>>

AfterCrash(request, idle) == IF request.at = "idle" THEN idle ELSE Done(idle)

\* The process dies between two statements of its requests; those it has not
\* begun come after its restart.
Crash ==
    /\ recorder' = [r \in Recorder |-> AfterCrash(recorder[r], IdleRecorder)]
    /\ updater' = [u \in Updater |-> AfterCrash(updater[u], IdleUpdater)]
    /\ reviser' = [v \in Reviser |-> AfterCrash(reviser[v], IdleReviser)]
    /\ crashed' = TRUE
    /\ UNCHANGED <<stored, asked>>

-----------------------------------------------------------------------------
RecorderNext(r) ==
    \/ StartRecording(r) \/ StartBackfill(r) \/ CheckOwned(r) \/ Insert(r)
    \/ SelectSaved(r) \/ LogCapture(r) \/ AuditCapture(r) \/ SelectOthers(r) \/ Relate(r)

UpdaterNext(u) ==
    \/ ReadCurrent(u) \/ Write(u) \/ LogAction(u) \/ AuditAction(u) \/ Reread(u) \/ Learn(u)

ReviserNext(v) ==
    \/ SelectUsable(v) \/ ListExcluded(v) \/ Generate(v) \/ RecordRevision(v)
    \/ MarkUsed(v) \/ SaveAnswer(v) \/ AuditRevision(v)

Next ==
    \/ \E r \in Recorder : RecorderNext(r)
    \/ \E u \in Updater : UpdaterNext(u)
    \/ \E v \in Reviser : ReviserNext(v)
    \/ DeleteThread
    \/ Crash

Spec == Init /\ [][Next]_vars

-----------------------------------------------------------------------------
(* Properties                                                              *)

Captured == \A r \in Recorder : recorder[r].at \in {"idle", "done"}
Disposed == \A u \in Updater : updater[u].at \in {"idle", "done"}
Revised == \A v \in Reviser : reviser[v].at \in {"idle", "done"}
AtRest == Captured /\ Disposed /\ Revised

Rows == [status : Disposition \cup {"none"}, selected : BOOLEAN]

\* The types of the variables; an audit or relation row names an item, and a
\* request holds at most one item at a time.
TypeOK ==
    /\ thread \in BOOLEAN
    /\ row \in [Item -> Rows]
    /\ history \in [Item -> [actions : SUBSET Actions, captures : 0 .. 2]]
    /\ relations \subseteq Item \X Item
    /\ answered \subseteq Reviser \X (SUBSET Item) \X (SUBSET Item)
    /\ revisions \subseteq Reviser \X (SUBSET Item) \X (SUBSET Item)
    /\ audit \subseteq (Item \X Actions) \cup ({"revision"} \X Reviser)
    /\ learned \subseteq Item
    /\ recorder \in [Recorder -> [at : {"idle", "done", "next", "insert", "select", "log", "audit",
                                        "relate", "relating"},
                                  todo : SUBSET Item, item : SUBSET Item,
                                  created : BOOLEAN, others : SUBSET Item]]
    /\ updater \in [Updater -> [at : {"idle", "done", "write", "log", "audit", "reread", "learn"},
                                item : SUBSET Item,
                                status : Disposition \cup {"keep", "none"},
                                before : Disposition \cup {"none"},
                                next : Rows, actions : Seq(Actions)]]
    /\ reviser \in [Reviser -> [at : {"idle", "done", "exclude", "generate", "record", "mark", "audit"},
                                selected : SUBSET Item, excluded : SUBSET Item,
                                unmarked : SUBSET Item]]
    /\ asked \subseteq Item
    /\ crashed \in BOOLEAN

\* Rejected and suspended evidence is not selected, whatever requests write it
\* at the same time from rows read before.
WithheldUnselected ==
    \A i \in Item : row[i].status \in Withheld => ~row[i].selected

\* Suspect content comes into use only after somebody asked to activate or to
\* accept it: until then it is not selected, no answer is revised from it and
\* nothing is learnt from it.
SuspectNeedsUser ==
    \A i \in Suspect \ asked :
        /\ row[i].status \in {"none", "rejected", "suspended"}
        /\ ~row[i].selected
        /\ \A r \in revisions : i \notin r[2]
        /\ i \notin learned

\* An item of a conversation is captured once, whoever records it.
CapturedOnce == thread => \A i \in Item : history[i].captures <= 1

\* Two items of one trace are related, in whatever order they were recorded.
SameTraceRelated ==
    thread /\ ~crashed /\ Captured =>
        \A i, j \in Saved : i # j /\ Trace[i] = Trace[j] =>
            <<i, j>> \in relations \/ <<j, i>> \in relations

\* A revised answer in the conversation has its revision, and every item it was
\* revised from names the use in its history.
AnswerTraceable ==
    thread => \A r \in answered :
        /\ r \in revisions
        /\ \A i \in r[2] : "used_for_revision" \in history[i].actions

\* Evidence at rest that was rejected says so in its history and in the audit.
RejectionWritten(i) ==
    "rejected" \in history[i].actions /\ <<i, "rejected">> \in audit

RejectionRecorded ==
    thread /\ ~crashed /\ AtRest =>
        \A i \in Item : row[i].status = "rejected" => RejectionWritten(i)

-----------------------------------------------------------------------------
(* What the documents say of evidence, and the code does not do            *)

\* Rejected evidence is put into use again only by a request for it.
RejectionHolds ==
    [][\A i \in Item, u \in Updater :
          row[i].status = "rejected" /\ Write(u) /\ updater[u].status = "keep"
              => row'[i].status = "rejected"]_vars

=============================================================================
