---------------------------- MODULE EvidenceProofs ----------------------------
(***************************************************************************)
(* What holds of the evidence for every set of items and requests.         *)
(*                                                                         *)
(* Rows are written by requests that read them earlier, so neither         *)
(* WithheldUnselected nor SuspectNeedsUser is inductive: what a request is *)
(* going to write has to be right as well.  IInv says of every update in   *)
(* progress what the two say of the rows, and of every revision in         *)
(* progress that it selected no suspect item that nobody asked for.        *)
(*                                                                         *)
(* The other properties need what a request is still going to write: a     *)
(* capture belongs to the one recorder whose INSERT made the row           *)
(* (CaptureInv); a revision's items are marked or listed to be marked      *)
(* (AnswerInv); two items of a trace are related or one of their recorders *)
(* is going to relate them (RelationInv); a rejection is in the history    *)
(* and the audit or the update is going to write it there (RejectionInv).  *)
(***************************************************************************)
EXTENDS Evidence, SequenceTheorems, TLAPS

Histories == [actions : SUBSET Actions, captures : 0 .. 2]
Recordings == [at : {"idle", "done", "next", "insert", "select", "log", "audit",
                     "relate", "relating"},
               todo : SUBSET Item, item : SUBSET Item, created : BOOLEAN,
               others : SUBSET Item]
Updates == [at : {"idle", "done", "write", "log", "audit", "reread", "learn"},
            item : SUBSET Item, status : Disposition \cup {"keep", "none"},
            before : Disposition \cup {"none"}, next : Rows, actions : Seq(Actions)]
Revisings == [at : {"idle", "done", "exclude", "generate", "record", "mark", "audit"},
              selected : SUBSET Item, excluded : SUBSET Item, unmarked : SUBSET Item]
Revisions == Reviser \X (SUBSET Item) \X (SUBSET Item)
Events == (Item \X Actions) \cup ({"revision"} \X Reviser)

\* The actions that are not a recorder's.
LaterActions == Actions \ {"captured", "auto_suspended"}

\* An update has one item, and while it has actions to write there is one left.
Sound(update) ==
    /\ update.actions \in Seq(LaterActions)
    /\ update.at \in {"write", "log", "audit"} =>
           update.actions # <<>> /\ update.next.status # "none"
    /\ \A i, j \in update.item : i = j

UpdatesSound == \A u \in Updater : Sound(updater[u])

RowOK == row \in [Item -> Rows]
HistoryOK == history \in [Item -> Histories]
RelationsOK == relations \subseteq Item \X Item
RevisionsOK == revisions \subseteq Revisions /\ answered \subseteq Revisions
AuditOK == audit \subseteq Events
RestOK == thread \in BOOLEAN /\ learned \subseteq Item /\ asked \subseteq Item /\ crashed \in BOOLEAN
RecorderOK == recorder \in [Recorder -> Recordings]
UpdaterOK == updater \in [Updater -> Updates] /\ UpdatesSound
ReviserOK == reviser \in [Reviser -> Revisings]

Types == /\ RowOK /\ HistoryOK /\ RelationsOK /\ RevisionsOK /\ AuditOK /\ RestOK
         /\ RecorderOK /\ UpdaterOK /\ ReviserOK

\* Types is TypeOK and UpdatesSound.
LEMMA TypesImply == Types => TypeOK
BY DEF Types, TypeOK, RowOK, HistoryOK, RelationsOK, RevisionsOK, AuditOK, RestOK,
       RecorderOK, UpdaterOK, ReviserOK, Histories, Recordings, Updates, Revisings,
       Revisions, Events

\* An action written to the history of an item keeps its type.
LEMMA WithActionType ==
    ASSUME HistoryOK, NEW i \in Item, NEW action \in Actions
    PROVE  WithAction(i, action) \in [Item -> Histories]
<1> DEFINE c == IF action \in {"captured", "auto_suspended"} /\ history[i].captures < 2
                THEN history[i].captures + 1 ELSE history[i].captures
           h == [actions |-> history[i].actions \cup {action}, captures |-> c]
<1>1. history[i] \in Histories
  BY DEF HistoryOK
<1>2. c \in 0 .. 2
  BY <1>1 DEF Histories
<1>3. h \in Histories
  BY <1>1, <1>2 DEF Histories
<1>4. WithAction(i, action) = [history EXCEPT ![i] = h]
  BY DEF WithAction
<1>5. QED
  BY <1>3, <1>4 DEF HistoryOK

\* A new row has a type, and withheld content is not selected in it.
LEMMA InitialRowType ==
    ASSUME NEW i \in Item
    PROVE  /\ InitialRow(i) \in Rows
           /\ InitialRow(i).status \in {"active", "suspended"}
           /\ InitialRow(i).status \in Withheld => ~InitialRow(i).selected
           /\ i \in Suspect => InitialRow(i) = [status |-> "suspended", selected |-> FALSE]
BY DEF InitialRow, Rows, Disposition, Withheld

\* The idle requests, and the finished ones.
LEMMA IdleTypes ==
    /\ IdleRecorder \in Recordings /\ Done(IdleRecorder) \in Recordings
    /\ IdleUpdater \in Updates /\ Done(IdleUpdater) \in Updates
    /\ IdleReviser \in Revisings /\ Done(IdleReviser) \in Revisings
    /\ Done(IdleUpdater).at = "done" /\ Done(IdleUpdater).next = NoRow
    /\ Done(IdleUpdater).item = {} /\ Done(IdleReviser).selected = {}
    /\ Sound(IdleUpdater) /\ Sound(Done(IdleUpdater))
<1>1. <<>> \in Seq(Actions) /\ <<>> \in Seq(LaterActions)
  OBVIOUS
<1>2. IdleRecorder \in Recordings /\ Done(IdleRecorder) \in Recordings
  BY DEF IdleRecorder, Done, Recordings
<1>3. IdleReviser \in Revisings /\ Done(IdleReviser) \in Revisings /\ Done(IdleReviser).selected = {}
  BY DEF IdleReviser, Done, Revisings
<1>4. NoRow \in Rows
  BY DEF NoRow, Rows
<1>5. IdleUpdater \in Updates
  BY <1>1, <1>4 DEF IdleUpdater, Updates
<1>6. /\ Done(IdleUpdater) \in Updates
      /\ Done(IdleUpdater).at = "done" /\ Done(IdleUpdater).next = NoRow
      /\ Done(IdleUpdater).item = {}
  BY <1>1, <1>4 DEF IdleUpdater, Done, Updates
<1>7. Sound(IdleUpdater) /\ Sound(Done(IdleUpdater))
  BY <1>1 DEF IdleUpdater, Done, Sound
<1>8. QED
  BY <1>2, <1>3, <1>5, <1>6, <1>7

-----------------------------------------------------------------------------
(* The invariant                                                           *)

WithheldInv ==
    /\ WithheldUnselected
    /\ \A u \in Updater : updater[u].next.status \in Withheld => ~updater[u].next.selected

\* What is said of a suspect item that nobody asked to use.
Unused(i) ==
    /\ row[i].status \in {"none", "rejected", "suspended"}
    /\ ~row[i].selected
    /\ \A u \in Updater : i \in updater[u].item =>
           /\ updater[u].next.status \in {"rejected", "suspended"}
           /\ updater[u].at # "learn"
    /\ \A v \in Reviser : i \notin reviser[v].selected
    /\ \A r \in revisions : i \notin r[2]
    /\ i \notin learned

SuspectInv == \A i \in Suspect \ asked : Unused(i)

IInv == Types /\ WithheldInv /\ SuspectInv

\* The recorders' steps.
LEMMA RecorderKeeps ==
    ASSUME IInv, NEW r \in Recorder, RecorderNext(r)
    PROVE  IInv'
<1> USE ItemAssumption DEF IInv, Types
<1>1. recorder[r] \in Recordings
  BY DEF RecorderOK
<1>2. ASSUME NEW to \in Recordings, RecorderStep(r, to)
      PROVE  /\ RecorderOK' /\ RevisionsOK' /\ RestOK' /\ UpdaterOK' /\ ReviserOK'
             /\ updater' = updater /\ reviser' = reviser /\ revisions' = revisions
             /\ asked' = asked /\ learned' = learned
  BY <1>2 DEF RecorderStep, RecorderOK, RevisionsOK, RestOK, UpdaterOK, UpdatesSound, ReviserOK
<1>3. ASSUME row' = row, updater' = updater, reviser' = reviser, revisions' = revisions,
             asked' = asked, learned' = learned
      PROVE  WithheldInv' /\ SuspectInv' /\ RowOK'
  BY <1>3 DEF WithheldInv, WithheldUnselected, SuspectInv, Unused, RowOK
<1>4. CASE StartRecording(r) \/ StartBackfill(r) \/ CheckOwned(r)
  <2>1. PICK to \in Recordings : RecorderStep(r, to)
    <3>1. CASE StartRecording(r)
      <4>1. PICK todo \in {{i} : i \in Item \ Backfill} \cup {Item \ Backfill} :
               RecorderStep(r, [IdleRecorder EXCEPT !.at = "next", !.todo = todo])
        BY <3>1 DEF StartRecording
      <4>2. [IdleRecorder EXCEPT !.at = "next", !.todo = todo] \in Recordings
        BY <4>1 DEF IdleRecorder, Recordings
      <4>3. QED
        BY <4>1, <4>2
    <3>2. CASE StartBackfill(r)
      <4>1. [IdleRecorder EXCEPT !.at = "next", !.todo = Backfill] \in Recordings
        BY DEF IdleRecorder, Recordings
      <4>2. QED
        BY <3>2, <4>1 DEF StartBackfill
    <3>3. CASE CheckOwned(r)
      <4>1. CASE recorder[r].todo = {}
        BY <3>3, <4>1, IdleTypes DEF CheckOwned
      <4>2. CASE recorder[r].todo # {}
        <5>1. PICK i \in recorder[r].todo :
                 RecorderStep(r, [IdleRecorder EXCEPT
                                     !.at = IF thread THEN "insert" ELSE "next",
                                     !.item = {i},
                                     !.todo = recorder[r].todo \ {i}])
          BY <3>3, <4>2 DEF CheckOwned
        <5>2. i \in Item /\ recorder[r].todo \ {i} \in SUBSET Item
          BY <1>1, <5>1 DEF Recordings
        <5>3. [IdleRecorder EXCEPT !.at = IF thread THEN "insert" ELSE "next",
                                   !.item = {i},
                                   !.todo = recorder[r].todo \ {i}] \in Recordings
          BY <5>2 DEF IdleRecorder, Recordings
        <5>4. QED
          BY <5>1, <5>3
      <4>3. QED
        BY <4>1, <4>2
    <3>4. QED
      BY <1>4, <3>1, <3>2, <3>3
  <2>2. row' = row /\ history' = history /\ relations' = relations /\ audit' = audit
    BY <1>4 DEF StartRecording, StartBackfill, CheckOwned
  <2>3. HistoryOK' /\ RelationsOK' /\ AuditOK'
    BY <2>2 DEF HistoryOK, RelationsOK, AuditOK
  <2>4. QED
    BY <1>2, <1>3, <2>1, <2>2, <2>3
<1>5. CASE Insert(r)
  <2>1. PICK i \in recorder[r].item :
           /\ row' = [row EXCEPT ![i] = IF i \in Saved THEN @ ELSE InitialRow(i)]
           /\ RecorderStep(r, [recorder[r] EXCEPT !.at = "select", !.created = Created(i)])
           /\ UNCHANGED <<history, relations, audit>>
    BY <1>5 DEF Insert
  <2>2. i \in Item
    BY <1>1, <2>1 DEF Recordings
  <2>3. [recorder[r] EXCEPT !.at = "select", !.created = Created(i)] \in Recordings
    <3>1. Created(i) \in BOOLEAN
      BY DEF Created
    <3>2. QED
      BY <1>1, <3>1 DEF Recordings
  <2>4. HistoryOK' /\ RelationsOK' /\ AuditOK'
    BY <2>1 DEF HistoryOK, RelationsOK, AuditOK
  <2>5. RowOK'
    BY <2>1, <2>2, InitialRowType DEF RowOK
  <2>6. /\ updater' = updater /\ reviser' = reviser /\ revisions' = revisions
        /\ asked' = asked /\ learned' = learned
    BY <1>2, <2>1, <2>3
  <2>7. \A j \in Item : row'[j] = row[j] \/ (j = i /\ row'[j] = InitialRow(j))
    BY <2>1, <2>2 DEF RowOK
  <2>8. WithheldInv'
    BY <2>6, <2>7, InitialRowType DEF WithheldInv, WithheldUnselected
  <2>9. SuspectInv'
    <3> SUFFICES ASSUME NEW j \in Suspect \ asked PROVE Unused(j)'
      BY <2>6 DEF SuspectInv
    <3>1. Unused(j) /\ j \in Item
      BY DEF SuspectInv
    <3>2. row'[j].status \in {"none", "rejected", "suspended"} /\ ~row'[j].selected
      BY <2>7, <3>1, InitialRowType DEF Unused
    <3>3. QED
      BY <2>6, <3>1, <3>2 DEF Unused
  <2>10. QED
    BY <1>2, <2>1, <2>3, <2>4, <2>5, <2>8, <2>9
<1>6. CASE SelectSaved(r) \/ SelectOthers(r)
  <2>1. PICK i \in recorder[r].item, to \in {"log", "next", "relating"},
             others \in SUBSET Item :
           RecorderStep(r, [recorder[r] EXCEPT !.at = to, !.others = others])
    <3>1. CASE SelectOthers(r)
      <4>1. \A i \in Item : Others(i) \in SUBSET Item
        BY DEF Others, Saved
      <4>2. recorder[r].item \subseteq Item
        BY <1>1 DEF Recordings
      <4>3. QED
        BY <3>1, <4>1, <4>2 DEF SelectOthers
    <3>2. CASE SelectSaved(r)
      <4>1. PICK i \in recorder[r].item, to \in {"log", "next"} :
               RecorderStep(r, [recorder[r] EXCEPT !.at = to])
        BY <3>2 DEF SelectSaved
      <4>2. [recorder[r] EXCEPT !.at = to]
              = [recorder[r] EXCEPT !.at = to, !.others = recorder[r].others]
        BY <1>1 DEF Recordings
      <4>3. recorder[r].others \in SUBSET Item
        BY <1>1 DEF Recordings
      <4>4. QED
        BY <4>1, <4>2, <4>3
    <3>3. QED
      BY <1>6, <3>1, <3>2
  <2>2. [recorder[r] EXCEPT !.at = to, !.others = others] \in Recordings
    BY <1>1, <2>1 DEF Recordings
  <2>3. row' = row /\ history' = history /\ relations' = relations /\ audit' = audit
    BY <1>6 DEF SelectSaved, SelectOthers
  <2>4. HistoryOK' /\ RelationsOK' /\ AuditOK'
    BY <2>3 DEF HistoryOK, RelationsOK, AuditOK
  <2>5. QED
    BY <1>2, <1>3, <2>1, <2>2, <2>3, <2>4
<1>7. CASE LogCapture(r) \/ AuditCapture(r)
  <2>1. PICK i \in recorder[r].item, to \in {"audit", "relate"} :
           /\ RecorderStep(r, [recorder[r] EXCEPT !.at = to])
           /\ row' = row /\ relations' = relations
           /\ \/ /\ audit' = audit
                 /\ history' = WithAction(i, IF i \in Suspect THEN "auto_suspended" ELSE "captured")
              \/ history' = history /\ audit' = audit \cup {<<i, "auto_suspended">>}
    BY <1>7 DEF LogCapture, AuditCapture
  <2>2. i \in Item /\ [recorder[r] EXCEPT !.at = to] \in Recordings
    BY <1>1, <2>1 DEF Recordings
  <2>3. HistoryOK'
    <3>1. (IF i \in Suspect THEN "auto_suspended" ELSE "captured") \in Actions
      BY DEF Actions
    <3>2. QED
      BY <2>1, <2>2, <3>1, WithActionType DEF HistoryOK
  <2>4. AuditOK' /\ RelationsOK'
    BY <2>1, <2>2 DEF AuditOK, Events, Actions, RelationsOK
  <2>5. QED
    BY <1>2, <1>3, <2>1, <2>2, <2>3, <2>4
<1>8. CASE Relate(r)
  <2>1. PICK i \in recorder[r].item, others \in SUBSET recorder[r].others,
             to \in {"relating", "next"}, j \in Item :
           /\ RecorderStep(r, [recorder[r] EXCEPT !.at = to, !.others = others])
           /\ relations' = relations \/ relations' = relations \cup {<<i, j>>}
           /\ UNCHANGED <<row, history, audit>>
    <3>1. recorder[r].item \subseteq Item /\ recorder[r].others \subseteq Item
      BY <1>1 DEF Recordings
    <3>2. CASE recorder[r].others = {}
      <4>1. [recorder[r] EXCEPT !.at = "next"]
              = [recorder[r] EXCEPT !.at = "next", !.others = {}]
        BY <1>1, <3>2 DEF Recordings
      <4>2. QED
        BY <1>8, <3>1, <3>2, <4>1 DEF Relate
    <3>3. CASE recorder[r].others # {}
      <4>1. PICK i \in recorder[r].item, j \in recorder[r].others :
               /\ Recording(r, "relating")
               /\ relations' = relations \cup {<<i, j>>}
               /\ RecorderStep(r, [recorder[r] EXCEPT !.others = recorder[r].others \ {j}])
               /\ UNCHANGED <<row, history, audit>>
        BY <1>8, <3>3 DEF Relate
      <4>2. [recorder[r] EXCEPT !.others = recorder[r].others \ {j}]
              = [recorder[r] EXCEPT !.at = "relating", !.others = recorder[r].others \ {j}]
        BY <1>1, <4>1 DEF Recordings, Recording
      <4>3. QED
        BY <3>1, <4>1, <4>2
    <3>4. QED
      BY <3>2, <3>3
  <2>2. i \in Item /\ [recorder[r] EXCEPT !.at = to, !.others = others] \in Recordings
    BY <1>1, <2>1 DEF Recordings
  <2>3. HistoryOK' /\ RelationsOK' /\ AuditOK'
    BY <2>1, <2>2 DEF HistoryOK, RelationsOK, AuditOK
  <2>4. QED
    BY <1>2, <1>3, <2>1, <2>2, <2>3
<1>9. QED
  BY <1>4, <1>5, <1>6, <1>7, <1>8 DEF RecorderNext

\* The actions an update writes down are none of a recorder's, and there is one
\* at least.
LEMMA ActionsType ==
    ASSUME NEW kinds, LaterActions \subseteq kinds,
           NEW status \in Disposition \cup {"keep"}, NEW selected \in {"keep", "yes", "no"},
           NEW current \in Rows, NEW chosen \in BOOLEAN, NEW noted \in BOOLEAN
    PROVE  LET actions == OrUpdated(DispositionActions(status, current.status)
                                    \o SelectionActions(selected, chosen, current.selected)
                                    \o NoteActions(noted))
           IN  actions \in Seq(kinds) /\ actions # <<>>
<1>1. DispositionActions(status, current.status) \in Seq(kinds)
  <2> DEFINE a == IF status = "active" THEN "restored" ELSE status
  <2>1. CASE status \in Disposition /\ status # current.status
    <3>1. a \in kinds
      BY <2>1 DEF Disposition, LaterActions, Actions
    <3> HIDE DEF a
    <3>2. <<a>> \in Seq(kinds)
      BY <3>1
    <3>3. DispositionActions(status, current.status) = <<a>>
      BY <2>1 DEF DispositionActions, a
    <3>4. QED
      BY <3>2, <3>3
  <2>2. CASE ~(status \in Disposition /\ status # current.status)
    <3>1. DispositionActions(status, current.status) = <<>>
      BY <2>2 DEF DispositionActions
    <3>2. QED
      BY <3>1
  <2>3. QED
    BY <2>1, <2>2
<1>2. SelectionActions(selected, chosen, current.selected) \in Seq(kinds)
  <2> DEFINE a == IF chosen THEN "selected" ELSE "unselected"
  <2>1. CASE selected # "keep" /\ chosen # current.selected
    <3>1. a \in kinds
      BY DEF LaterActions, Actions
    <3> HIDE DEF a
    <3>2. <<a>> \in Seq(kinds)
      BY <3>1
    <3>3. SelectionActions(selected, chosen, current.selected) = <<a>>
      BY <2>1 DEF SelectionActions, a
    <3>4. QED
      BY <3>2, <3>3
  <2>2. CASE ~(selected # "keep" /\ chosen # current.selected)
    <3>1. SelectionActions(selected, chosen, current.selected) = <<>>
      BY <2>2 DEF SelectionActions
    <3>2. QED
      BY <3>1
  <2>3. QED
    BY <2>1, <2>2
<1>3. DispositionActions(status, current.status)
        \o SelectionActions(selected, chosen, current.selected)
        \o NoteActions(noted) \in Seq(kinds)
  <2>1. NoteActions(noted) \in Seq(kinds)
    <3>1. "noted" \in kinds
      BY DEF LaterActions, Actions
    <3>2. <<"noted">> \in Seq(kinds)
      BY <3>1
    <3>3. QED
      BY <3>2 DEF NoteActions
  <2>2. QED
    BY <1>1, <1>2, <2>1
<1>4. <<"updated">> \in Seq(kinds) /\ <<"updated">> # <<>>
  BY DEF LaterActions, Actions
<1>5. QED
  BY <1>3, <1>4 DEF OrUpdated

\* The first of some actions, and the rest of several.
LEMMA HeadTail ==
    ASSUME NEW kinds, NEW actions \in Seq(kinds), actions # <<>>
    PROVE  /\ Head(actions) \in kinds
           /\ Tail(actions) \in Seq(kinds)
           /\ Len(actions) > 1 => Tail(actions) # <<>>
<1>1. Head(actions) \in kinds /\ Tail(actions) \in Seq(kinds)
  BY HeadTailProperties
<1>2. Len(Tail(actions)) = Len(actions) - 1
  BY HeadTailProperties
<1>3. Len(actions) > 1 => Tail(actions) # <<>>
  <2>1. Len(actions) \in Nat
    BY LenProperties
  <2>2. Len(actions) > 1 => Len(Tail(actions)) # 0
    BY <1>2, <2>1
  <2>3. Tail(actions) = <<>> => Len(Tail(actions)) = 0
    BY EmptySeq
  <2>4. QED
    BY <2>2, <2>3
<1>4. QED
  BY <1>1, <1>3

\* The updates' steps.
LEMMA UpdaterKeeps ==
    ASSUME IInv, NEW u \in Updater, UpdaterNext(u)
    PROVE  IInv'
<1> USE ItemAssumption DEF IInv, Types
<1>1. updater[u] \in Updates /\ updater \in [Updater -> Updates]
  BY DEF UpdaterOK
<1>2. ASSUME NEW to \in Updates, UpdaterStep(u, to),
             Sound(to)
      PROVE  /\ RelationsOK' /\ RevisionsOK' /\ RecorderOK' /\ UpdaterOK' /\ ReviserOK'
             /\ reviser' = reviser /\ revisions' = revisions /\ thread' = thread
             /\ crashed' = crashed
             /\ updater' = [updater EXCEPT ![u] = to]
  BY <1>1, <1>2
  DEF UpdaterStep, RelationsOK, RevisionsOK, RecorderOK, UpdaterOK, UpdatesSound, ReviserOK
\* A step that goes on with the item and the row that the update has, and
\* leaves the rows alone.
<1>3. ASSUME NEW to \in Updates, UpdaterStep(u, to), row' = row, asked' = asked,
             learned' = learned,
             \/ to = Done(IdleUpdater)
             \/ /\ to.item = updater[u].item /\ to.next = updater[u].next
                /\ to.at = "learn" => \A i \in to.item : row[i].status = "accepted"
      PROVE  RowOK' /\ WithheldInv' /\ SuspectInv'
  <2>1. /\ reviser' = reviser /\ revisions' = revisions
        /\ updater' = [updater EXCEPT ![u] = to]
    BY <1>3 DEF UpdaterStep
  <2>2. \A w \in Updater : updater'[w] = updater[w] \/ (w = u /\ updater'[w] = to)
    BY <1>1, <2>1
  <2>3. WithheldInv'
    BY <1>3, <2>2, IdleTypes DEF WithheldInv, WithheldUnselected, NoRow, Withheld
  <2>4. SuspectInv'
    <3> SUFFICES ASSUME NEW i \in Suspect \ asked PROVE Unused(i)'
      BY <1>3 DEF SuspectInv
    <3>1. Unused(i)
      BY DEF SuspectInv
    <3>2. ASSUME NEW w \in Updater, i \in updater'[w].item
          PROVE  /\ updater'[w].next.status \in {"rejected", "suspended"}
                 /\ updater'[w].at # "learn"
      <4>1. CASE updater'[w] = updater[w]
        BY <3>1, <3>2, <4>1 DEF Unused
      <4>2. CASE w = u /\ updater'[w] = to
        <5>1. /\ i \in updater[u].item /\ to.item = updater[u].item
              /\ to.next = updater[u].next
              /\ to.at = "learn" => row[i].status = "accepted"
          BY <1>3, <3>2, <4>2, IdleTypes
        <5>2. QED
          BY <3>1, <4>2, <5>1 DEF Unused
      <4>3. QED
        BY <2>2, <4>1, <4>2
    <3>3. QED
      BY <1>3, <2>1, <3>1, <3>2 DEF Unused
  <2>5. QED
    BY <1>3, <2>3, <2>4 DEF RowOK
<1>4. CASE ReadCurrent(u)
  <2>1. PICK i \in Saved, status \in Disposition \cup {"keep"},
             selected \in {"keep", "yes", "no"}, noted \in BOOLEAN :
           LET current == row[i]
               next == IF status = "keep" THEN current.status ELSE status
               chosen == NextSelected(next, selected, current.selected)
           IN
           /\ UpdaterStep(u, [at |-> "write", item |-> {i}, status |-> status,
                              before |-> current.status,
                              next |-> [status |-> next, selected |-> chosen],
                              actions |-> OrUpdated(
                                  DispositionActions(status, current.status)
                                  \o SelectionActions(selected, chosen, current.selected)
                                  \o NoteActions(noted))])
           /\ asked' = IF status \in {"active", "accepted"} THEN asked \cup {i} ELSE asked
    BY <1>4 DEF ReadCurrent
  <2> DEFINE next == IF status = "keep" THEN row[i].status ELSE status
             chosen == NextSelected(next, selected, row[i].selected)
             actions == OrUpdated(DispositionActions(status, row[i].status)
                                  \o SelectionActions(selected, chosen, row[i].selected)
                                  \o NoteActions(noted))
             to == [at |-> "write", item |-> {i}, status |-> status,
                    before |-> row[i].status,
                    next |-> [status |-> next, selected |-> chosen], actions |-> actions]
  <2>2. /\ i \in Item /\ row[i] \in Rows /\ row[i].status \in Disposition
        /\ row[i].selected \in BOOLEAN
    BY <2>1 DEF Saved, RowOK, Rows
  <2>3. next \in Disposition
    BY <2>1, <2>2
  <2>4. chosen \in BOOLEAN /\ (next \in Withheld => chosen = FALSE)
    BY <2>2 DEF NextSelected
  <2>5. actions \in Seq(Actions) /\ actions \in Seq(LaterActions) /\ actions # <<>>
    <3>1. LaterActions \subseteq Actions
      BY DEF LaterActions
    <3> HIDE DEF chosen
    <3>2. ASSUME NEW kinds, LaterActions \subseteq kinds
          PROVE  actions \in Seq(kinds) /\ actions # <<>>
      BY <2>1, <2>2, <2>4, <3>2, ActionsType
    <3>3. QED
      BY <3>1, <3>2
  <2>6. [status |-> next, selected |-> chosen] \in Rows /\ next # "none"
    BY <2>3, <2>4 DEF Rows, Disposition
  <2> HIDE DEF next, chosen, actions
  <2>7. to \in Updates
    BY <2>1, <2>2, <2>5, <2>6 DEF Updates
  <2>8. UpdaterStep(u, to)
    BY <2>1 DEF next, chosen, actions
  <2>9. /\ row' = row /\ history' = history /\ audit' = audit /\ learned' = learned
        /\ asked' = IF status \in {"active", "accepted"} THEN asked \cup {i} ELSE asked
    BY <1>4, <2>1 DEF ReadCurrent
  <2>10. /\ to.at = "write" /\ to.actions = actions /\ to.item = {i}
         /\ to.next.status = next /\ to.next.selected = chosen
    OBVIOUS
  <2> HIDE DEF to
  <2>11. /\ reviser' = reviser /\ revisions' = revisions /\ thread' = thread
         /\ crashed' = crashed
         /\ RelationsOK' /\ RevisionsOK' /\ RecorderOK' /\ UpdaterOK' /\ ReviserOK'
         /\ updater' = [updater EXCEPT ![u] = to]
    BY <1>2, <2>5, <2>6, <2>7, <2>8, <2>10 DEF Sound
  <2>12. RowOK' /\ HistoryOK' /\ AuditOK' /\ RestOK'
    BY <2>2, <2>9, <2>11 DEF RowOK, HistoryOK, AuditOK, RestOK
  <2>13. \A w \in Updater : updater'[w] = updater[w] \/ (w = u /\ updater'[w] = to)
    BY <1>1, <2>11
  <2>14. WithheldInv'
    BY <2>4, <2>9, <2>10, <2>13 DEF WithheldInv, WithheldUnselected
  <2>15. SuspectInv'
    <3> SUFFICES ASSUME NEW j \in Suspect \ asked' PROVE Unused(j)'
      BY DEF SuspectInv
    <3>1. Unused(j) /\ j \notin asked
      BY <2>9 DEF SuspectInv
    <3>2. ASSUME NEW w \in Updater, j \in updater'[w].item
          PROVE  /\ updater'[w].next.status \in {"rejected", "suspended"}
                 /\ updater'[w].at # "learn"
      <4>1. CASE updater'[w] = updater[w]
        BY <3>1, <3>2, <4>1 DEF Unused
      <4>2. CASE updater'[w] = to
        <5>1. j = i /\ status \notin {"active", "accepted"}
          BY <2>9, <2>10, <3>2, <4>2
        <5>2. next \in {"rejected", "suspended"}
          BY <2>1, <2>2, <3>1, <5>1 DEF next, Disposition, Unused
        <5>3. QED
          BY <2>10, <4>2, <5>2
      <4>3. QED
        BY <2>13, <4>1, <4>2
    <3>3. QED
      BY <2>9, <2>11, <3>1, <3>2 DEF Unused
  <2>16. QED
    BY <2>11, <2>12, <2>14, <2>15
<1>5. CASE Write(u)
  <2>1. PICK i \in updater[u].item :
           /\ Updating(u, "write")
           /\ row' = [row EXCEPT ![i] = IF i \in Saved THEN updater[u].next ELSE @]
           /\ UpdaterStep(u, [updater[u] EXCEPT !.at = "log"])
           /\ UNCHANGED <<history, audit, learned, asked>>
    BY <1>5 DEF Write
  <2> DEFINE to == [updater[u] EXCEPT !.at = "log"]
  <2>2. /\ to \in Updates /\ to.at = "log" /\ to.actions = updater[u].actions
        /\ to.next = updater[u].next /\ to.item = updater[u].item
        /\ i \in Item /\ updater[u].next \in Rows
    BY <1>1, <2>1 DEF Updates
  <2> HIDE DEF to
  <2>3. UpdaterStep(u, to) /\ Sound(to)
    <3>1. UpdaterStep(u, to)
      BY <2>1 DEF to
    <3>2. Sound(updater[u])
      BY DEF UpdaterOK, UpdatesSound
    <3>3. QED
      BY <2>1, <2>2, <3>1, <3>2 DEF Sound, Updating
  <2>4. /\ RelationsOK' /\ RevisionsOK' /\ RecorderOK' /\ UpdaterOK' /\ ReviserOK'
        /\ reviser' = reviser /\ revisions' = revisions /\ thread' = thread
        /\ crashed' = crashed /\ updater' = [updater EXCEPT ![u] = to]
    BY <1>2, <2>2, <2>3
  <2>5. RowOK' /\ HistoryOK' /\ AuditOK' /\ RestOK'
    BY <2>1, <2>2, <2>4 DEF RowOK, HistoryOK, AuditOK, RestOK
  <2>6. \A j \in Item : row'[j] = row[j] \/ (j = i /\ row'[j] = updater[u].next)
    BY <2>1, <2>2 DEF RowOK
  <2>7. \A w \in Updater : /\ updater'[w].next = updater[w].next
                           /\ updater'[w].item = updater[w].item
                           /\ updater'[w].at = updater[w].at \/ updater'[w].at = "log"
    BY <1>1, <2>2, <2>4
  <2>8. WithheldInv'
    BY <2>6, <2>7 DEF WithheldInv, WithheldUnselected
  <2>9. SuspectInv'
    <3> SUFFICES ASSUME NEW j \in Suspect \ asked PROVE Unused(j)'
      BY <2>1 DEF SuspectInv
    <3>1. Unused(j) /\ j \in Item
      BY DEF SuspectInv
    <3>2. row'[j].status \in {"none", "rejected", "suspended"} /\ ~row'[j].selected
      <4>1. CASE row'[j] = row[j]
        BY <3>1, <4>1 DEF Unused
      <4>2. CASE j = i /\ row'[j] = updater[u].next
        <5>1. updater[u].next.status \in {"rejected", "suspended"}
          BY <2>1, <3>1, <4>2 DEF Unused
        <5>2. ~updater[u].next.selected
          BY <5>1 DEF WithheldInv, Withheld
        <5>3. QED
          BY <4>2, <5>1, <5>2
      <4>3. QED
        BY <2>6, <3>1, <4>1, <4>2
    <3>3. QED
      BY <2>1, <2>4, <2>7, <3>1, <3>2 DEF Unused
  <2>10. QED
    BY <2>4, <2>5, <2>8, <2>9
<1>6. CASE LogAction(u) \/ AuditAction(u)
  <2>1. /\ updater[u].at \in {"log", "audit"}
        /\ updater[u].actions \in Seq(Actions) /\ updater[u].actions # <<>>
        /\ updater[u].actions \in Seq(LaterActions)
        /\ updater[u].next \in Rows /\ updater[u].next.status # "none"
        /\ \A i, j \in updater[u].item : i = j
    BY <1>1, <1>6
    DEF LogAction, AuditAction, Updating, UpdaterOK, UpdatesSound, Sound, Updates
  <2>2. PICK i \in updater[u].item : i \in Item
    BY <1>1, <1>6 DEF LogAction, AuditAction, Updates
  <2>3. PICK at \in {"audit", "log", "reread"}, actions \in Seq(Actions) :
           /\ actions \in Seq(LaterActions)
           /\ UpdaterStep(u, [updater[u] EXCEPT !.at = at, !.actions = actions])
           /\ at \in {"audit", "log"} => actions # <<>>
    <3>1. CASE LogAction(u)
      <4>1. [updater[u] EXCEPT !.at = "audit"]
              = [updater[u] EXCEPT !.at = "audit", !.actions = updater[u].actions]
        BY <1>1 DEF Updates
      <4>2. QED
        BY <2>1, <3>1, <4>1 DEF LogAction
    <3>2. CASE AuditAction(u)
      <4> DEFINE at == IF Len(updater[u].actions) > 1 THEN "log" ELSE "reread"
      <4>1. UpdaterStep(u, [updater[u] EXCEPT !.at = at, !.actions = Tail(updater[u].actions)])
        BY <3>2 DEF AuditAction
      <4>2. /\ Tail(updater[u].actions) \in Seq(Actions)
            /\ Tail(updater[u].actions) \in Seq(LaterActions)
            /\ at \in {"audit", "log"} => Tail(updater[u].actions) # <<>>
        BY <2>1, HeadTail
      <4>3. QED
        BY <4>1, <4>2
    <3>3. QED
      BY <1>6, <3>1, <3>2
  <2> DEFINE to == [updater[u] EXCEPT !.at = at, !.actions = actions]
  <2>4. /\ to \in Updates /\ to.at = at /\ to.actions = actions
        /\ to.item = updater[u].item /\ to.next = updater[u].next
    BY <1>1, <2>3 DEF Updates
  <2> HIDE DEF to
  <2>5. UpdaterStep(u, to)
    BY <2>3 DEF to
  <2>6. /\ row' = row /\ asked' = asked /\ learned' = learned
    BY <1>6 DEF LogAction, AuditAction
  <2>7. HistoryOK' /\ AuditOK'
    <3>1. Head(updater[u].actions) \in Actions
      BY <2>1, HeadTail
    <3>2. updater[u].item \subseteq Item
      BY <1>1 DEF Updates
    <3>3. CASE LogAction(u)
      <4>1. PICK j \in updater[u].item :
               /\ history' = WithAction(j, Head(updater[u].actions))
               /\ audit' = audit
        BY <3>3 DEF LogAction
      <4>2. QED
        BY <3>1, <3>2, <4>1, WithActionType DEF HistoryOK, AuditOK
    <3>4. CASE AuditAction(u)
      <4>1. PICK j \in updater[u].item :
               /\ audit' = audit \cup {<<j, Head(updater[u].actions)>>}
               /\ history' = history
        BY <3>4 DEF AuditAction
      <4>2. QED
        BY <3>1, <3>2, <4>1 DEF HistoryOK, AuditOK, Events
    <3>5. QED
      BY <1>6, <3>3, <3>4
  <2>8. /\ RelationsOK' /\ RevisionsOK' /\ RecorderOK' /\ UpdaterOK' /\ ReviserOK'
        /\ thread' = thread /\ crashed' = crashed
    BY <1>2, <2>1, <2>3, <2>4, <2>5 DEF Sound
  <2>9. RowOK' /\ WithheldInv' /\ SuspectInv'
    BY <1>3, <2>3, <2>4, <2>5, <2>6
  <2>10. QED
    BY <2>6, <2>7, <2>8, <2>9 DEF RestOK
<1>7. CASE Reread(u)
  <2>1. PICK i \in updater[u].item :
           UpdaterStep(u, IF updater[u].before # "accepted" /\ row[i].status = "accepted"
                          THEN [updater[u] EXCEPT !.at = "learn"]
                          ELSE Done(IdleUpdater))
    BY <1>7 DEF Reread
  <2>2. /\ row' = row /\ history' = history /\ audit' = audit /\ learned' = learned
        /\ asked' = asked
    BY <1>7 DEF Reread
  <2>3. HistoryOK' /\ AuditOK'
    BY <2>2 DEF HistoryOK, AuditOK
  <2>4. CASE updater[u].before # "accepted" /\ row[i].status = "accepted"
    <3> DEFINE to == [updater[u] EXCEPT !.at = "learn"]
    <3>1. /\ to \in Updates /\ to.at = "learn"
          /\ to.item = updater[u].item /\ to.next = updater[u].next
          /\ to.actions = updater[u].actions
      BY <1>1 DEF Updates
    <3> HIDE DEF to
    <3>2. UpdaterStep(u, to)
      BY <2>1, <2>4 DEF to
    <3>3. (\A j, k \in updater[u].item : j = k) /\ updater[u].actions \in Seq(LaterActions)
      BY DEF UpdaterOK, UpdatesSound, Sound
    <3>4. \A j \in to.item : row[j].status = "accepted"
      BY <2>1, <2>4, <3>1, <3>3
    <3>5. Sound(to)
      BY <3>1, <3>3 DEF Sound
    <3>6. QED
      BY <1>2, <1>3, <2>2, <2>3, <3>1, <3>2, <3>4, <3>5 DEF RestOK
  <2>5. CASE ~(updater[u].before # "accepted" /\ row[i].status = "accepted")
    <3>1. UpdaterStep(u, Done(IdleUpdater))
      BY <2>1, <2>5
    <3>2. QED
      BY <1>2, <1>3, <2>2, <2>3, <3>1, IdleTypes DEF RestOK
  <2>6. QED
    BY <2>4, <2>5
<1>8. CASE Learn(u)
  <2>1. PICK i \in updater[u].item :
           /\ Updating(u, "learn")
           /\ learned' \in {learned, learned \cup {i}}
           /\ UpdaterStep(u, Done(IdleUpdater))
           /\ UNCHANGED <<row, history, audit, asked>>
    BY <1>8 DEF Learn
  <2>2. i \in Item
    BY <1>1, <2>1 DEF Updates
  <2>3. /\ RelationsOK' /\ RevisionsOK' /\ RecorderOK' /\ UpdaterOK' /\ ReviserOK'
        /\ reviser' = reviser /\ revisions' = revisions /\ thread' = thread
        /\ crashed' = crashed /\ updater' = [updater EXCEPT ![u] = Done(IdleUpdater)]
    BY <1>2, <2>1, IdleTypes
  <2>4. RowOK' /\ HistoryOK' /\ AuditOK' /\ RestOK'
    BY <2>1, <2>2, <2>3 DEF RowOK, HistoryOK, AuditOK, RestOK
  <2>5. \A w \in Updater : updater'[w] = updater[w] \/ (w = u /\ updater'[w] = Done(IdleUpdater))
    BY <1>1, <2>3
  <2>6. WithheldInv'
    BY <2>1, <2>5, IdleTypes DEF WithheldInv, WithheldUnselected, NoRow, Withheld
  <2>7. SuspectInv'
    <3> SUFFICES ASSUME NEW j \in Suspect \ asked PROVE Unused(j)'
      BY <2>1 DEF SuspectInv
    <3>1. Unused(j)
      BY DEF SuspectInv
    <3>2. j # i
      BY <2>1, <3>1 DEF Unused, Updating
    <3>3. \A w \in Updater : j \in updater'[w].item => updater'[w] = updater[w]
      BY <2>5, IdleTypes
    <3>4. QED
      BY <2>1, <2>3, <3>1, <3>2, <3>3 DEF Unused
  <2>8. QED
    BY <2>3, <2>4, <2>6, <2>7
<1>9. QED
  BY <1>4, <1>5, <1>6, <1>7, <1>8 DEF UpdaterNext

\* The steps of the revised answers.
LEMMA ReviserKeeps ==
    ASSUME IInv, NEW v \in Reviser, ReviserNext(v)
    PROVE  IInv'
<1> USE ItemAssumption DEF IInv, Types
<1>1. reviser[v] \in Revisings /\ reviser \in [Reviser -> Revisings]
  BY DEF ReviserOK
\* The items a step selects were selected before, or are in use.
<1>2. ASSUME NEW to \in Revisings, ReviserStep(v, to),
             \A i \in to.selected :
                 i \in reviser[v].selected \/ row[i].status \in {"active", "accepted"},
             HistoryOK', AuditOK', RevisionsOK',
             \A r \in revisions' : r \in revisions \/ r[2] = reviser[v].selected
      PROVE  IInv'
  <2>1. /\ reviser' = [reviser EXCEPT ![v] = to]
        /\ UNCHANGED <<thread, row, relations, learned, recorder, updater, asked, crashed>>
    BY <1>2 DEF ReviserStep
  <2>2. RowOK' /\ RelationsOK' /\ RestOK' /\ RecorderOK' /\ UpdaterOK' /\ ReviserOK'
    BY <1>1, <1>2, <2>1
    DEF RowOK, RelationsOK, RestOK, RecorderOK, UpdaterOK, UpdatesSound, ReviserOK
  <2>3. WithheldInv'
    BY <2>1 DEF WithheldInv, WithheldUnselected
  <2>4. SuspectInv'
    <3> SUFFICES ASSUME NEW j \in Suspect \ asked PROVE Unused(j)'
      BY <2>1 DEF SuspectInv
    <3>1. Unused(j)
      BY DEF SuspectInv
    <3>2. \A w \in Reviser : j \notin reviser'[w].selected
      <4>1. j \notin to.selected
        BY <1>2, <3>1 DEF Unused
      <4>2. QED
        BY <1>1, <2>1, <3>1, <4>1 DEF Unused
    <3>3. \A r \in revisions' : j \notin r[2]
      BY <1>2, <3>1 DEF Unused
    <3>4. QED
      BY <2>1, <3>1, <3>2, <3>3 DEF Unused
  <2>5. QED
    BY <1>2, <2>2, <2>3, <2>4
<1>3. ASSUME history' = history, audit' = audit, UNCHANGED <<revisions, answered>>
      PROVE  /\ HistoryOK' /\ AuditOK' /\ RevisionsOK'
             /\ \A r \in revisions' : r \in revisions
  BY <1>3 DEF HistoryOK, AuditOK, RevisionsOK
<1>4. Revision(v) \in Revisions /\ Revision(v)[2] = reviser[v].selected
  BY <1>1 DEF Revision, Revisions, Revisings
<1>5. CASE SelectUsable(v)
  <2>1. PICK ids \in SUBSET Saved :
           ReviserStep(v, [IdleReviser EXCEPT !.at = "exclude", !.selected = Usable(ids)])
    BY <1>5 DEF SelectUsable
  <2> DEFINE to == [IdleReviser EXCEPT !.at = "exclude", !.selected = Usable(ids)]
  <2>2. /\ Usable(ids) \in SUBSET Item
        /\ \A i \in Usable(ids) : row[i].status \in {"active", "accepted"}
    BY <2>1 DEF Usable, Saved, RowOK, Rows, Disposition, Withheld
  <2>3. to \in Revisings /\ to.selected = Usable(ids)
    BY <2>2 DEF IdleReviser, Revisings
  <2> HIDE DEF to
  <2>4. ReviserStep(v, to)
    BY <2>1 DEF to
  <2>5. UNCHANGED <<history, revisions, answered, audit>>
    BY <1>5 DEF SelectUsable
  <2>6. QED
    BY <1>2, <1>3, <2>2, <2>3, <2>4, <2>5
<1>6. CASE ListExcluded(v) \/ Generate(v)
  <2>1. PICK to \in Revisings :
           ReviserStep(v, to) /\ to.selected \subseteq reviser[v].selected
    <3>1. CASE ListExcluded(v)
      <4> DEFINE excluded == {i \in Saved : row[i].status \in Withheld}
                 to == [reviser[v] EXCEPT !.at = "generate", !.excluded = excluded]
      <4>1. excluded \in SUBSET Item
        BY DEF Saved
      <4> HIDE DEF excluded
      <4>2. to \in Revisings /\ to.selected = reviser[v].selected
        BY <1>1, <4>1 DEF Revisings
      <4>3. ReviserStep(v, to)
        BY <3>1 DEF ListExcluded, excluded
      <4>4. QED
        BY <4>2, <4>3
    <3>2. CASE Generate(v)
      <4>1. /\ [reviser[v] EXCEPT !.at = "record"] \in Revisings
            /\ [reviser[v] EXCEPT !.at = "record"].selected = reviser[v].selected
        BY <1>1 DEF Revisings
      <4>2. QED
        BY <3>2, <4>1, IdleTypes DEF Generate
    <3>3. QED
      BY <1>6, <3>1, <3>2
  <2>2. UNCHANGED <<history, revisions, answered, audit>>
    BY <1>6 DEF ListExcluded, Generate
  <2>3. QED
    BY <1>2, <1>3, <2>1, <2>2
<1>7. CASE RecordRevision(v) \/ SaveAnswer(v)
  <2>1. PICK at \in {"mark", "audit"}, unmarked \in SUBSET Item :
           ReviserStep(v, [reviser[v] EXCEPT !.at = at, !.unmarked = unmarked])
    <3>1. reviser[v].selected \in SUBSET Item /\ reviser[v].unmarked \in SUBSET Item
      BY <1>1 DEF Revisings
    <3>2. CASE RecordRevision(v)
      BY <3>1, <3>2 DEF RecordRevision
    <3>3. CASE SaveAnswer(v)
      <4>1. [reviser[v] EXCEPT !.at = "audit"]
              = [reviser[v] EXCEPT !.at = "audit", !.unmarked = reviser[v].unmarked]
        BY <1>1 DEF Revisings
      <4>2. QED
        BY <3>1, <3>3, <4>1 DEF SaveAnswer
    <3>4. QED
      BY <1>7, <3>2, <3>3
  <2> DEFINE to == [reviser[v] EXCEPT !.at = at, !.unmarked = unmarked]
  <2>2. to \in Revisings /\ to.selected = reviser[v].selected
    BY <1>1, <2>1 DEF Revisings
  <2> HIDE DEF to
  <2>3. ReviserStep(v, to)
    BY <2>1 DEF to
  <2>4. /\ history' = history /\ audit' = audit
        /\ revisions' \subseteq revisions \cup {Revision(v)}
        /\ answered' \subseteq answered \cup {Revision(v)}
    BY <1>7 DEF RecordRevision, SaveAnswer
  <2>5. HistoryOK' /\ AuditOK' /\ RevisionsOK'
    BY <1>4, <2>4 DEF HistoryOK, AuditOK, RevisionsOK
  <2>6. \A r \in revisions' : r \in revisions \/ r[2] = reviser[v].selected
    BY <1>4, <2>4
  <2>7. QED
    BY <1>2, <2>2, <2>3, <2>5, <2>6
<1>8. CASE MarkUsed(v)
  <2>1. PICK i \in reviser[v].unmarked :
           /\ history' = IF i \in Saved
                         THEN WithAction(i, "used_for_revision")
                         ELSE history
           /\ ReviserStep(v, [reviser[v] EXCEPT !.unmarked = reviser[v].unmarked \ {i}])
    BY <1>8 DEF MarkUsed
  <2> DEFINE to == [reviser[v] EXCEPT !.unmarked = reviser[v].unmarked \ {i}]
  <2>2. to \in Revisings /\ to.selected = reviser[v].selected /\ i \in Item
    BY <1>1, <2>1 DEF Revisings
  <2> HIDE DEF to
  <2>3. ReviserStep(v, to)
    BY <2>1 DEF to
  <2>4. HistoryOK'
    <3>1. "used_for_revision" \in Actions
      BY DEF Actions
    <3>2. QED
      BY <2>1, <2>2, <3>1, WithActionType DEF HistoryOK
  <2>5. UNCHANGED <<revisions, answered, audit>>
    BY <1>8 DEF MarkUsed
  <2>6. AuditOK' /\ RevisionsOK'
    BY <2>5 DEF AuditOK, RevisionsOK
  <2>7. QED
    BY <1>2, <2>2, <2>3, <2>4, <2>5, <2>6
<1>9. CASE AuditRevision(v)
  <2>1. /\ audit' = audit \cup {<<"revision", v>>}
        /\ ReviserStep(v, Done(IdleReviser))
        /\ UNCHANGED <<history, revisions, answered>>
    BY <1>9 DEF AuditRevision
  <2>2. HistoryOK' /\ AuditOK' /\ RevisionsOK'
    BY <2>1 DEF HistoryOK, AuditOK, Events, RevisionsOK
  <2>3. QED
    BY <1>2, <2>1, <2>2, IdleTypes
<1>10. QED
  BY <1>5, <1>6, <1>7, <1>8, <1>9 DEF ReviserNext

\* The deletion of the conversation, the process's death, and stuttering.
LEMMA OutsideKeeps ==
    ASSUME IInv, DeleteThread \/ Crash \/ UNCHANGED vars
    PROVE  IInv'
<1> USE ItemAssumption DEF IInv, Types
<1>1. CASE DeleteThread
  <2>1. /\ thread' = FALSE /\ row' = [i \in Item |-> NoRow]
        /\ history' = [i \in Item |-> NoHistory]
        /\ relations' = {} /\ revisions' = {} /\ answered' = {}
        /\ UNCHANGED <<audit, learned, recorder, updater, reviser, asked, crashed>>
    BY <1>1 DEF DeleteThread
  <2>2. NoRow \in Rows /\ NoHistory \in Histories
    BY DEF NoRow, NoHistory, Rows, Histories
  <2>3. RowOK' /\ HistoryOK' /\ RelationsOK' /\ RevisionsOK' /\ AuditOK' /\ RestOK'
    BY <2>1, <2>2 DEF RowOK, HistoryOK, RelationsOK, RevisionsOK, AuditOK, RestOK
  <2>4. RecorderOK' /\ UpdaterOK' /\ ReviserOK'
    BY <2>1 DEF RecorderOK, UpdaterOK, UpdatesSound, ReviserOK
  <2>5. \A i \in Item : row'[i] = NoRow
    BY <2>1
  <2>6. WithheldInv'
    BY <2>1, <2>5 DEF WithheldInv, WithheldUnselected, NoRow, Withheld
  <2>7. SuspectInv'
    BY <2>1, <2>5 DEF SuspectInv, Unused, NoRow
  <2>8. QED
    BY <2>3, <2>4, <2>6, <2>7
<1>2. CASE Crash
  <2>1. /\ recorder' = [r \in Recorder |-> AfterCrash(recorder[r], IdleRecorder)]
        /\ updater' = [u \in Updater |-> AfterCrash(updater[u], IdleUpdater)]
        /\ reviser' = [v \in Reviser |-> AfterCrash(reviser[v], IdleReviser)]
        /\ crashed' = TRUE
        /\ UNCHANGED <<stored, asked>>
    BY <1>2 DEF Crash
  <2>2. /\ \A r \in Recorder : recorder'[r] \in {IdleRecorder, Done(IdleRecorder)}
        /\ \A u \in Updater : updater'[u] \in {IdleUpdater, Done(IdleUpdater)}
        /\ \A v \in Reviser : reviser'[v] \in {IdleReviser, Done(IdleReviser)}
    BY <2>1 DEF AfterCrash
  <2>3. \A u \in Updater : /\ updater'[u].item = {} /\ updater'[u].next = NoRow
                           /\ updater'[u].at \in {"idle", "done"}
    <3>1. IdleUpdater.item = {} /\ IdleUpdater.next = NoRow /\ IdleUpdater.at = "idle"
      BY DEF IdleUpdater
    <3>2. QED
      BY <2>2, <3>1, IdleTypes
  <2>4. \A v \in Reviser : reviser'[v].selected = {}
    <3>1. IdleReviser.selected = {}
      BY DEF IdleReviser
    <3>2. QED
      BY <2>2, <3>1, IdleTypes
  <2>5. RowOK' /\ HistoryOK' /\ RelationsOK' /\ RevisionsOK' /\ AuditOK' /\ RestOK'
    BY <2>1 DEF stored, RowOK, HistoryOK, RelationsOK, RevisionsOK, AuditOK, RestOK
  <2>6. RecorderOK' /\ ReviserOK'
    BY <2>1, <2>2, IdleTypes DEF RecorderOK, ReviserOK
  <2>7. UpdaterOK'
    BY <2>1, <2>2, <2>3, IdleTypes DEF UpdaterOK, UpdatesSound
  <2>8. WithheldInv'
    BY <2>1, <2>3 DEF stored, WithheldInv, WithheldUnselected, NoRow, Withheld
  <2>9. SuspectInv'
    BY <2>1, <2>3, <2>4 DEF stored, SuspectInv, Unused
  <2>10. QED
    BY <2>5, <2>6, <2>7, <2>8, <2>9
<1>3. CASE UNCHANGED vars
  <2>1. /\ UNCHANGED <<thread, row, history, relations, revisions, answered, audit, learned>>
        /\ UNCHANGED <<recorder, updater, reviser, asked, crashed>>
    BY <1>3 DEF vars, stored
  <2>2. Types'
    BY <2>1 DEF RowOK, HistoryOK, RelationsOK, RevisionsOK, AuditOK, RestOK,
                RecorderOK, UpdaterOK, UpdatesSound, ReviserOK
  <2>3. WithheldInv' /\ SuspectInv'
    BY <2>1 DEF WithheldInv, WithheldUnselected, SuspectInv, Unused
  <2>4. QED
    BY <2>2, <2>3
<1>4. QED
  BY <1>1, <1>2, <1>3

\* The invariant holds at the start.
LEMMA InitHolds == Init => IInv
<1> SUFFICES ASSUME Init PROVE IInv
  OBVIOUS
<1> USE ItemAssumption DEF Init
<1>1. NoRow \in Rows /\ NoHistory \in Histories
  BY DEF NoRow, NoHistory, Rows, Histories
<1>2. Types
  <2>1. RowOK /\ HistoryOK /\ RelationsOK /\ RevisionsOK /\ AuditOK /\ RestOK
    BY <1>1 DEF RowOK, HistoryOK, RelationsOK, RevisionsOK, AuditOK, RestOK
  <2>2. RecorderOK /\ ReviserOK
    BY IdleTypes DEF RecorderOK, ReviserOK
  <2>3. IdleUpdater.at = "idle" /\ IdleUpdater.item = {}
    BY DEF IdleUpdater
  <2>4. UpdaterOK
    <3>1. Sound(IdleUpdater)
      BY IdleTypes
    <3>2. \A u \in Updater : updater[u] = IdleUpdater
      OBVIOUS
    <3>3. updater \in [Updater -> Updates]
      BY IdleTypes
    <3>4. QED
      BY <3>1, <3>2, <3>3 DEF UpdaterOK, UpdatesSound
  <2>5. QED
    BY <2>1, <2>2, <2>4 DEF Types
<1>3. WithheldInv
  BY DEF WithheldInv, WithheldUnselected, NoRow, IdleUpdater, Withheld
<1>4. SuspectInv
  BY DEF SuspectInv, Unused, NoRow, IdleUpdater, IdleReviser
<1>5. QED
  BY <1>2, <1>3, <1>4 DEF IInv

\* Every step keeps it.
LEMMA NextKeeps == IInv /\ [Next]_vars => IInv'
<1> SUFFICES ASSUME IInv, [Next]_vars PROVE IInv'
  OBVIOUS
<1>1. CASE \E r \in Recorder : RecorderNext(r)
  BY <1>1, RecorderKeeps
<1>2. CASE \E u \in Updater : UpdaterNext(u)
  BY <1>2, UpdaterKeeps
<1>3. CASE \E v \in Reviser : ReviserNext(v)
  BY <1>3, ReviserKeeps
<1>4. CASE DeleteThread \/ Crash \/ UNCHANGED vars
  BY <1>4, OutsideKeeps
<1>5. QED
  BY <1>1, <1>2, <1>3, <1>4 DEF Next

-----------------------------------------------------------------------------
(* The theorems                                                            *)

\* The invariant holds of every state the requests, a deletion and the deaths
\* of the process lead to.
THEOREM Invariant == Spec => []IInv
BY InitHolds, NextKeeps, PTL DEF Spec

\* The variables keep their types: every row and every action the statements
\* of evidence.ts write is one the schema of db.ts describes.
THEOREM TypeCorrect == Spec => []TypeOK
<1>1. IInv => TypeOK
  BY TypesImply DEF IInv
<1>2. QED
  BY <1>1, Invariant, PTL

\* updateEvidence never leaves rejected or suspended evidence selected, though
\* requests write rows they read before other requests wrote them.
THEOREM WithheldIsUnselected == Spec => []WithheldUnselected
<1>1. IInv => WithheldUnselected
  BY DEF IInv, WithheldInv
<1>2. QED
  BY <1>1, Invariant, PTL

\* Evidence with a prompt injection in it stays out of selections, revised
\* answers and the memory until somebody asks to restore or accept it.
THEOREM SuspectIsWithheld == Spec => []SuspectNeedsUser
<1>1. IInv => SuspectNeedsUser
  BY DEF IInv, SuspectInv, Unused, SuspectNeedsUser
<1>2. QED
  BY <1>1, Invariant, PTL

-----------------------------------------------------------------------------
(* Captures and answers                                                    *)

\* What an action written to the history changes there.
LEMMA WithActionEffect ==
    ASSUME HistoryOK, NEW i \in Item, NEW action
    PROVE  LET h == WithAction(i, action)
           IN  /\ \A j \in Item : history[j].actions \subseteq h[j].actions
               /\ \A j \in Item : j # i => h[j] = history[j]
               /\ action \in h[i].actions
               /\ action \notin {"captured", "auto_suspended"}
                     => \A j \in Item : h[j].captures = history[j].captures
               /\ history[i].captures = 0 => h[i].captures \in {0, 1}
<1> DEFINE c == IF action \in {"captured", "auto_suspended"} /\ history[i].captures < 2
                THEN history[i].captures + 1 ELSE history[i].captures
           new == [actions |-> history[i].actions \cup {action}, captures |-> c]
           h == WithAction(i, action)
<1>1. h = [history EXCEPT ![i] = new]
  BY DEF WithAction
<1>2. new.actions = history[i].actions \cup {action} /\ new.captures = c
  OBVIOUS
<1>3. /\ action \notin {"captured", "auto_suspended"} => c = history[i].captures
      /\ history[i].captures = 0 => c \in {0, 1}
  OBVIOUS
<1> HIDE DEF new, c
<1>4. h[i] = new /\ \A j \in Item : j # i => h[j] = history[j]
  BY <1>1 DEF HistoryOK
<1> HIDE DEF h
<1>5. QED
  BY <1>2, <1>3, <1>4 DEF h

\* A recorder that inserted a row and has not written its capture down.
Capturing(r, i) ==
    /\ recorder[r].at \in {"select", "log"}
    /\ recorder[r].created
    /\ i \in recorder[r].item

OneItem == \A r \in Recorder :
    /\ recorder[r].at = "log" => recorder[r].created
    /\ \A i, j \in recorder[r].item : i = j
Caught(i) ==
    /\ history[i].captures \in {0, 1}
    /\ i \notin Saved => history[i].captures = 0
    /\ \A r \in Recorder : Capturing(r, i) =>
           /\ i \in Saved /\ history[i].captures = 0
           /\ \A q \in Recorder : Capturing(q, i) => q = r
CaptureInv == OneItem /\ (thread => \A i \in Item : Caught(i))

Used(i) == "used_for_revision" \in history[i].actions
Traced(v) ==
    /\ reviser[v].selected \subseteq Saved
    /\ reviser[v].at = "mark" =>
           /\ Revision(v) \in revisions
           /\ \A i \in reviser[v].selected \ reviser[v].unmarked : Used(i)
AnswerInv == thread =>
    /\ \A v \in Reviser : Traced(v)
    /\ \A r \in answered : r \in revisions /\ \A i \in r[2] : Used(i)

\* A step that begins no capture and writes none down.
LEMMA CaptureFrame ==
    ASSUME CaptureInv, OneItem', thread' => thread, Saved' = Saved,
           \A i \in Item : history'[i].captures = history[i].captures,
           \A r \in Recorder, i \in Item : Capturing(r, i)' => Capturing(r, i)
    PROVE  CaptureInv'
<1>1. ASSUME thread', NEW i \in Item PROVE Caught(i)'
  BY <1>1 DEF CaptureInv, Caught
<1>2. QED
  BY <1>1 DEF CaptureInv

\* A step of a recorder or an update, which leaves the revisions alone.
LEMMA AnswerFrame ==
    ASSUME AnswerInv, thread' => thread, Saved \subseteq Saved', answered' = answered,
           RevisionsOK, reviser' = reviser, revisions' = revisions, ReviserOK,
           \A i \in Item : history[i].actions \subseteq history'[i].actions
    PROVE  AnswerInv'
<1>1. \A i \in Item : Used(i) => Used(i)'
  BY DEF Used
<1>2. ASSUME thread', NEW v \in Reviser PROVE Traced(v)'
  <2>1. Traced(v) /\ reviser[v].selected \subseteq Item
    BY <1>2 DEF AnswerInv, ReviserOK, Revisings
  <2>2. Revision(v)' = Revision(v)
    BY DEF Revision
  <2>3. QED
    BY <1>1, <2>1, <2>2 DEF Traced
<1>3. ASSUME thread', NEW r \in answered PROVE r \in revisions /\ \A i \in r[2] : Used(i)'
  <2>1. r[2] \subseteq Item
    BY DEF RevisionsOK, Revisions
  <2>2. QED
    BY <1>1, <1>3, <2>1 DEF AnswerInv
<1>4. QED
  BY <1>2, <1>3 DEF AnswerInv

\* The recorders' steps: one of them inserts a row, and it alone logs that.
LEMMA RecorderCatches ==
    ASSUME IInv, CaptureInv, NEW r \in Recorder, RecorderNext(r)
    PROVE  CaptureInv'
<1> USE DEF Types
<1>1. recorder \in [Recorder -> Recordings] /\ recorder[r] \in Recordings
  BY DEF IInv, RecorderOK
<1>2. \A i, j \in recorder[r].item : i = j
  BY DEF CaptureInv, OneItem
\* A step after which the recorder captures what it did before, or nothing.
<1>3. ASSUME NEW to, RecorderStep(r, to), Saved' = Saved, history' = history,
             \A i, j \in to.item : i = j,
             to.at = "log" => to.created,
             to.at \in {"select", "log"} /\ to.created =>
                 /\ recorder[r].at \in {"select", "log"} /\ recorder[r].created
                 /\ to.item \subseteq recorder[r].item
      PROVE  CaptureInv'
  <2>1. recorder' = [recorder EXCEPT ![r] = to] /\ thread' = thread
    BY <1>3 DEF RecorderStep
  <2>2. recorder'[r] = to /\ \A q \in Recorder : q # r => recorder'[q] = recorder[q]
    BY <1>1, <2>1
  <2>3. OneItem'
    BY <1>3, <2>2 DEF CaptureInv, OneItem
  <2>4. \A q \in Recorder, i \in Item : Capturing(q, i)' => Capturing(q, i)
    BY <1>3, <2>2 DEF Capturing
  <2>5. QED
    BY <1>3, <2>1, <2>3, <2>4, CaptureFrame
<1>4. ASSUME row' = row PROVE Saved' = Saved
  BY <1>4 DEF Saved
<1>5. CASE StartRecording(r) \/ StartBackfill(r) \/ CheckOwned(r)
  <2>1. PICK to :
           /\ RecorderStep(r, to)
           /\ to.at \in {"next", "insert", "done"}
           /\ \A i, j \in to.item : i = j
    <3>1. CASE StartRecording(r)
      <4>1. PICK todo \in {{i} : i \in Item \ Backfill} \cup {Item \ Backfill} :
               RecorderStep(r, [IdleRecorder EXCEPT !.at = "next", !.todo = todo])
        BY <3>1 DEF StartRecording
      <4> DEFINE to == [IdleRecorder EXCEPT !.at = "next", !.todo = todo]
      <4>2. to.at = "next" /\ to.item = {}
        BY DEF IdleRecorder
      <4> HIDE DEF to
      <4>3. RecorderStep(r, to)
        BY <4>1 DEF to
      <4>4. QED
        BY <4>2, <4>3
    <3>2. CASE StartBackfill(r)
      <4> DEFINE to == [IdleRecorder EXCEPT !.at = "next", !.todo = Backfill]
      <4>1. to.at = "next" /\ to.item = {}
        BY DEF IdleRecorder
      <4> HIDE DEF to
      <4>2. RecorderStep(r, to)
        BY <3>2 DEF StartBackfill, to
      <4>3. QED
        BY <4>1, <4>2
    <3>3. CASE CheckOwned(r)
      <4>1. CASE recorder[r].todo = {}
        BY <3>3, <4>1 DEF CheckOwned, Done, IdleRecorder
      <4>2. CASE recorder[r].todo # {}
        <5>1. PICK i \in recorder[r].todo :
                 RecorderStep(r, [IdleRecorder EXCEPT
                                     !.at = IF thread THEN "insert" ELSE "next",
                                     !.item = {i},
                                     !.todo = recorder[r].todo \ {i}])
          BY <3>3, <4>2 DEF CheckOwned
        <5> DEFINE to == [IdleRecorder EXCEPT
                             !.at = IF thread THEN "insert" ELSE "next",
                             !.item = {i},
                             !.todo = recorder[r].todo \ {i}]
        <5>2. to.at \in {"next", "insert"} /\ to.item = {i}
          BY DEF IdleRecorder
        <5> HIDE DEF to
        <5>3. RecorderStep(r, to)
          BY <5>1 DEF to
        <5>4. QED
          BY <5>2, <5>3
      <4>3. QED
        BY <4>1, <4>2
    <3>4. QED
      BY <1>5, <3>1, <3>2, <3>3
  <2>2. row' = row /\ history' = history
    BY <1>5 DEF StartRecording, StartBackfill, CheckOwned
  <2>3. QED
    BY <1>3, <1>4, <2>1, <2>2
<1>6. CASE Insert(r)
  <2>1. PICK i \in recorder[r].item :
           /\ Recording(r, "insert")
           /\ row' = [row EXCEPT ![i] = IF i \in Saved THEN @ ELSE InitialRow(i)]
           /\ RecorderStep(r, [recorder[r] EXCEPT !.at = "select", !.created = Created(i)])
           /\ UNCHANGED <<history, relations, audit>>
    BY <1>6 DEF Insert
  <2> DEFINE to == [recorder[r] EXCEPT !.at = "select", !.created = Created(i)]
  <2>2. /\ to.at = "select" /\ to.created = (i \notin Saved) /\ to.item = recorder[r].item
        /\ i \in Item
    BY <1>1, <2>1 DEF Recordings, Created
  <2> HIDE DEF to
  <2>3. RecorderStep(r, to)
    BY <2>1 DEF to
  <2>4. CASE i \in Saved
    <3>1. Saved' = Saved
      BY <2>1, <2>4 DEF IInv, RowOK, Saved
    <3>2. QED
      BY <1>2, <1>3, <2>1, <2>2, <2>3, <2>4, <3>1
  <2>5. CASE i \notin Saved
    <3>1. Saved' = Saved \cup {i}
      BY <2>1, <2>2, <2>5, InitialRowType DEF IInv, RowOK, Saved
    <3>2. recorder' = [recorder EXCEPT ![r] = to] /\ thread' = thread
      BY <2>3 DEF RecorderStep
    <3>3. recorder'[r] = to /\ \A q \in Recorder : q # r => recorder'[q] = recorder[q]
      BY <1>1, <3>2
    <3>4. OneItem'
      BY <1>2, <2>2, <3>3 DEF CaptureInv, OneItem
    <3>5. \A q \in Recorder, k \in Item :
             Capturing(q, k)' => Capturing(q, k) \/ (q = r /\ k = i)
      BY <1>2, <2>1, <2>2, <3>3 DEF Capturing
    <3>6. ASSUME thread', NEW k \in Item PROVE Caught(k)'
      <4>1. Caught(k) /\ history'[k] = history[k]
        BY <2>1, <3>2, <3>6 DEF CaptureInv
      <4>2. CASE k = i
        <5>1. history[i].captures = 0 /\ \A q \in Recorder : ~Capturing(q, i)
          BY <2>5, <4>1, <4>2 DEF Caught
        <5>2. QED
          BY <3>1, <3>5, <4>1, <4>2, <5>1 DEF Caught
      <4>3. CASE k # i
        BY <3>1, <3>5, <4>1, <4>3 DEF Caught
      <4>4. QED
        BY <4>2, <4>3
    <3>7. QED
      BY <3>4, <3>6 DEF CaptureInv
  <2>6. QED
    BY <2>4, <2>5
<1>7. CASE SelectSaved(r)
  <2>1. PICK i \in recorder[r].item :
           /\ Recording(r, "select")
           /\ RecorderStep(r, [recorder[r] EXCEPT
                                  !.at = IF i \in Saved /\ recorder[r].created
                                         THEN "log" ELSE "next"])
           /\ UNCHANGED <<row, history, relations, audit>>
    BY <1>7 DEF SelectSaved
  <2> DEFINE at == IF i \in Saved /\ recorder[r].created THEN "log" ELSE "next"
             to == [recorder[r] EXCEPT !.at = at]
  <2>2. to.at = at /\ to.created = recorder[r].created /\ to.item = recorder[r].item
    BY <1>1 DEF Recordings
  <2> HIDE DEF to
  <2>3. RecorderStep(r, to)
    BY <2>1 DEF to
  <2>4. QED
    BY <1>2, <1>3, <1>4, <2>1, <2>2, <2>3 DEF Recording
<1>8. CASE LogCapture(r)
  <2>1. PICK i \in recorder[r].item :
           /\ Recording(r, "log")
           /\ history' = WithAction(i, IF i \in Suspect THEN "auto_suspended" ELSE "captured")
           /\ RecorderStep(r, [recorder[r] EXCEPT
                                  !.at = IF i \in Suspect THEN "audit" ELSE "relate"])
           /\ UNCHANGED <<row, relations, audit>>
    BY <1>8 DEF LogCapture
  <2> DEFINE at == IF i \in Suspect THEN "audit" ELSE "relate"
             to == [recorder[r] EXCEPT !.at = at]
  <2>2. to.at = at /\ to.item = recorder[r].item /\ i \in Item
    BY <1>1, <2>1 DEF Recordings
  <2> HIDE DEF to
  <2>3. recorder' = [recorder EXCEPT ![r] = to] /\ thread' = thread
    BY <2>1 DEF to, RecorderStep
  <2>4. recorder'[r] = to /\ \A q \in Recorder : q # r => recorder'[q] = recorder[q]
    BY <1>1, <2>3
  <2>5. OneItem'
    BY <1>2, <2>2, <2>4 DEF CaptureInv, OneItem
  <2>6. \A q \in Recorder, k \in Item : Capturing(q, k)' => Capturing(q, k) /\ q # r
    BY <2>2, <2>4 DEF Capturing
  <2>7. Capturing(r, i)
    BY <2>1 DEF Recording, Capturing, CaptureInv, OneItem
  <2>8. /\ \A k \in Item : k # i => history'[k] = history[k]
        /\ history[i].captures = 0 => history'[i].captures \in {0, 1}
    BY <2>1, <2>2, WithActionEffect DEF IInv
  <2>9. ASSUME thread', NEW k \in Item PROVE Caught(k)'
    <3>1. Caught(k) /\ Saved' = Saved
      BY <1>4, <2>1, <2>3, <2>9 DEF CaptureInv
    <3>2. CASE k = i
      <4>1. /\ i \in Saved /\ history[i].captures = 0
            /\ \A q \in Recorder : Capturing(q, i) => q = r
        BY <2>7, <3>1, <3>2 DEF Caught
      <4>2. \A q \in Recorder : ~Capturing(q, i)'
        BY <2>2, <2>6, <4>1
      <4>3. history'[i].captures \in {0, 1}
        BY <2>8, <4>1
      <4>4. QED
        BY <3>1, <3>2, <4>1, <4>2, <4>3 DEF Caught
    <3>3. CASE k # i
      BY <2>6, <2>8, <3>1, <3>3 DEF Caught
    <3>4. QED
      BY <3>2, <3>3
  <2>10. QED
    BY <2>5, <2>9 DEF CaptureInv
<1>9. CASE AuditCapture(r) \/ SelectOthers(r) \/ Relate(r)
  <2>1. PICK to :
           /\ RecorderStep(r, to)
           /\ to.at \in {"relate", "relating", "next"}
           /\ to.item = recorder[r].item
    <3>1. PICK at \in {"relate", "relating", "next"}, others \in SUBSET Item :
             RecorderStep(r, [recorder[r] EXCEPT !.at = at, !.others = others])
      <4>1. /\ recorder[r].others \in SUBSET Item
            /\ \A i \in Item : Others(i) \in SUBSET Item
            /\ recorder[r].item \subseteq Item
            /\ \A at : [recorder[r] EXCEPT !.at = at]
                          = [recorder[r] EXCEPT !.at = at, !.others = recorder[r].others]
        BY <1>1 DEF Recordings, Others, Saved
      <4>2. CASE AuditCapture(r)
        BY <4>1, <4>2 DEF AuditCapture
      <4>3. CASE SelectOthers(r)
        BY <4>1, <4>3 DEF SelectOthers
      <4>4. CASE Relate(r)
        <5>1. CASE recorder[r].others = {}
          BY <4>1, <4>4, <5>1 DEF Relate
        <5>2. CASE recorder[r].others # {}
          <6>1. PICK j \in recorder[r].others :
                   RecorderStep(r, [recorder[r] EXCEPT !.others = recorder[r].others \ {j}])
            BY <4>4, <5>2 DEF Relate
          <6>2. recorder[r].at = "relating"
            BY <4>4 DEF Relate, Recording
          <6>3. [recorder[r] EXCEPT !.others = recorder[r].others \ {j}]
                  = [recorder[r] EXCEPT !.at = "relating", !.others = recorder[r].others \ {j}]
            BY <1>1, <6>2 DEF Recordings
          <6>4. QED
            BY <4>1, <6>1, <6>3
        <5>3. QED
          BY <5>1, <5>2
      <4>5. QED
        BY <1>9, <4>2, <4>3, <4>4
    <3> DEFINE to == [recorder[r] EXCEPT !.at = at, !.others = others]
    <3>2. to.at = at /\ to.item = recorder[r].item
      BY <1>1 DEF Recordings
    <3> HIDE DEF to
    <3>3. RecorderStep(r, to)
      BY <3>1 DEF to
    <3>4. QED
      BY <3>2, <3>3
  <2>2. row' = row /\ history' = history
    BY <1>9 DEF AuditCapture, SelectOthers, Relate
  <2>3. QED
    BY <1>2, <1>3, <1>4, <2>1, <2>2
<1>10. QED
  BY <1>5, <1>6, <1>7, <1>8, <1>9 DEF RecorderNext

\* The recorders' steps leave the revisions alone.
LEMMA RecorderAnswers ==
    ASSUME IInv, AnswerInv, NEW r \in Recorder, RecorderNext(r)
    PROVE  AnswerInv'
<1> USE DEF IInv, Types
<1>1. UNCHANGED <<thread, revisions, answered, reviser>>
  BY DEF RecorderNext, RecorderStep, StartRecording, StartBackfill, CheckOwned, Insert,
         SelectSaved, LogCapture, AuditCapture, SelectOthers, Relate
<1>2. recorder[r].item \subseteq Item
  BY DEF RecorderOK, Recordings
<1>3. Saved \subseteq Saved'
  <2>1. CASE Insert(r)
    <3>1. PICK i \in recorder[r].item :
             row' = [row EXCEPT ![i] = IF i \in Saved THEN @ ELSE InitialRow(i)]
      BY <2>1 DEF Insert
    <3>2. QED
      BY <3>1 DEF RowOK, Saved
  <2>2. CASE row' = row
    BY <2>2 DEF Saved
  <2>3. QED
    BY <2>1, <2>2 DEF RecorderNext, StartRecording, StartBackfill, CheckOwned, SelectSaved,
                      LogCapture, AuditCapture, SelectOthers, Relate
<1>4. \A i \in Item : history[i].actions \subseteq history'[i].actions
  <2>1. CASE LogCapture(r)
    <3>1. PICK i \in recorder[r].item :
             history' = WithAction(i, IF i \in Suspect THEN "auto_suspended" ELSE "captured")
      BY <2>1 DEF LogCapture
    <3>2. QED
      BY <1>2, <3>1, WithActionEffect
  <2>2. CASE history' = history
    BY <2>2
  <2>3. QED
    BY <2>1, <2>2 DEF RecorderNext, StartRecording, StartBackfill, CheckOwned, Insert,
                      SelectSaved, AuditCapture, SelectOthers, Relate
<1>5. QED
  BY <1>1, <1>3, <1>4, AnswerFrame

\* The updates insert no row and write none away.
LEMMA UpdaterSaves ==
    ASSUME IInv, NEW u \in Updater, UpdaterNext(u)
    PROVE  Saved' = Saved
<1> USE DEF IInv, Types
<1>1. updater[u] \in Updates /\ Sound(updater[u])
  BY DEF UpdaterOK, UpdatesSound
<1>2. CASE Write(u)
  <2>1. PICK i \in updater[u].item :
           /\ updater[u].at = "write"
           /\ row' = [row EXCEPT ![i] = IF i \in Saved THEN updater[u].next ELSE @]
    BY <1>2 DEF Write, Updating
  <2>2. i \in Item /\ updater[u].next.status # "none"
    BY <1>1, <2>1 DEF Updates, Sound
  <2>3. QED
    BY <2>1, <2>2 DEF RowOK, Saved
<1>3. CASE row' = row
  BY <1>3 DEF Saved
<1>4. QED
  BY <1>2, <1>3 DEF UpdaterNext, ReadCurrent, LogAction, AuditAction, Reread, Learn

\* The updates capture nothing and leave the revisions alone.
LEMMA UpdaterCatchesAndAnswers ==
    ASSUME IInv, CaptureInv, AnswerInv, NEW u \in Updater, UpdaterNext(u)
    PROVE  CaptureInv' /\ AnswerInv'
<1> USE DEF IInv, Types
<1>1. UNCHANGED <<thread, revisions, answered, recorder, reviser>>
  BY DEF UpdaterNext, UpdaterStep, ReadCurrent, Write, LogAction, AuditAction, Reread, Learn
<1>2. updater[u] \in Updates /\ Sound(updater[u])
  BY DEF UpdaterOK, UpdatesSound
<1>3. Saved' = Saved
  BY UpdaterSaves
<1>4. \A i \in Item : /\ history[i].actions \subseteq history'[i].actions
                      /\ history'[i].captures = history[i].captures
  <2>1. CASE LogAction(u)
    <3>1. PICK i \in updater[u].item :
             /\ updater[u].at = "log"
             /\ history' = WithAction(i, Head(updater[u].actions))
      BY <2>1 DEF LogAction, Updating
    <3>2. i \in Item /\ Head(updater[u].actions) \in LaterActions
      BY <1>2, <3>1, HeadTail DEF Updates, Sound
    <3>3. Head(updater[u].actions) \notin {"captured", "auto_suspended"}
      BY <3>2 DEF LaterActions
    <3>4. QED
      BY <3>1, <3>2, <3>3, WithActionEffect
  <2>2. CASE history' = history
    BY <2>2
  <2>3. QED
    BY <2>1, <2>2 DEF UpdaterNext, ReadCurrent, Write, AuditAction, Reread, Learn
<1>5. CaptureInv'
  <2>1. OneItem' /\ \A r \in Recorder, i \in Item : Capturing(r, i)' => Capturing(r, i)
    BY <1>1 DEF CaptureInv, OneItem, Capturing
  <2>2. QED
    BY <1>1, <1>3, <1>4, <2>1, CaptureFrame
<1>6. AnswerInv'
  BY <1>1, <1>3, <1>4, AnswerFrame
<1>7. QED
  BY <1>5, <1>6

\* The revisions capture nothing.
LEMMA ReviserCatches ==
    ASSUME IInv, CaptureInv, NEW v \in Reviser, ReviserNext(v)
    PROVE  CaptureInv'
<1> USE DEF IInv, Types
<1>1. UNCHANGED <<thread, row, recorder>>
  BY DEF ReviserNext, ReviserStep, SelectUsable, ListExcluded, Generate, RecordRevision,
         MarkUsed, SaveAnswer, AuditRevision
<1>2. reviser[v] \in Revisings
  BY DEF ReviserOK
<1>3. \A i \in Item : history'[i].captures = history[i].captures
  <2>1. CASE MarkUsed(v)
    <3>1. PICK i \in reviser[v].unmarked :
             history' = IF i \in Saved THEN WithAction(i, "used_for_revision") ELSE history
      BY <2>1 DEF MarkUsed
    <3>2. QED
      BY <1>2, <3>1, WithActionEffect DEF Revisings
  <2>2. CASE history' = history
    BY <2>2
  <2>3. QED
    BY <2>1, <2>2 DEF ReviserNext, SelectUsable, ListExcluded, Generate, RecordRevision,
                      SaveAnswer, AuditRevision
<1>4. /\ Saved' = Saved /\ OneItem'
      /\ \A r \in Recorder, i \in Item : Capturing(r, i)' => Capturing(r, i)
  BY <1>1 DEF CaptureInv, Saved, OneItem, Capturing
<1>5. QED
  BY <1>1, <1>3, <1>4, CaptureFrame

\* The revisions' steps: an item is marked before the answer is saved.
LEMMA ReviserAnswers ==
    ASSUME IInv, AnswerInv, NEW v \in Reviser, ReviserNext(v)
    PROVE  AnswerInv'
<1> USE DEF IInv, Types
<1>1. reviser[v] \in Revisings /\ reviser \in [Reviser -> Revisings]
  BY DEF ReviserOK
\* A step that keeps what is written, and after which its revision is traced.
<1>2. ASSUME NEW to, ReviserStep(v, to), revisions \subseteq revisions',
             \A i \in Item : history[i].actions \subseteq history'[i].actions,
             thread => to.selected \subseteq Saved,
             thread /\ to.at = "mark" =>
                 /\ <<v, to.selected, to.excluded>> \in revisions'
                 /\ \A i \in to.selected \ to.unmarked : Used(i)',
             thread => \A r \in answered' \ answered :
                           r \in revisions /\ \A i \in r[2] : Used(i)
      PROVE  AnswerInv'
  <2>1. reviser' = [reviser EXCEPT ![v] = to] /\ thread' = thread /\ Saved' = Saved
    BY <1>2 DEF ReviserStep, Saved
  <2>2. reviser'[v] = to /\ \A w \in Reviser : w # v => reviser'[w] = reviser[w]
    BY <1>1, <2>1
  <2>3. \A i \in Item : Used(i) => Used(i)'
    BY <1>2 DEF Used
  <2>4. ASSUME thread', NEW w \in Reviser PROVE Traced(w)'
    <3>1. CASE w = v
      BY <1>2, <2>1, <2>2, <2>4, <3>1 DEF Traced, Revision
    <3>2. CASE w # v
      <4>1. Traced(w) /\ reviser[w].selected \subseteq Item
        BY <1>1, <2>1, <2>4 DEF AnswerInv, Revisings
      <4>2. Revision(w)' = Revision(w)
        BY <2>2, <3>2 DEF Revision
      <4>3. QED
        BY <1>2, <2>1, <2>2, <2>3, <3>2, <4>1, <4>2 DEF Traced
    <3>3. QED
      BY <3>1, <3>2
  <2>5. ASSUME thread', NEW r \in answered' PROVE r \in revisions' /\ \A i \in r[2] : Used(i)'
    <3>1. r \in revisions /\ \A i \in r[2] : Used(i)
      BY <1>2, <2>1, <2>5 DEF AnswerInv
    <3>2. r[2] \subseteq Item
      BY <3>1 DEF RevisionsOK, Revisions
    <3>3. QED
      BY <1>2, <2>3, <3>1, <3>2
  <2>6. QED
    BY <2>4, <2>5 DEF AnswerInv
\* What the revision's own state says while the conversation exists.
<1>3. ASSUME thread
      PROVE  /\ reviser[v].selected \subseteq Saved
             /\ reviser[v].at = "mark" =>
                    /\ Revision(v) \in revisions
                    /\ \A i \in reviser[v].selected \ reviser[v].unmarked : Used(i)
  BY <1>3 DEF AnswerInv, Traced
<1>4. CASE SelectUsable(v)
  <2>1. PICK ids \in SUBSET Saved :
           ReviserStep(v, [IdleReviser EXCEPT !.at = "exclude", !.selected = Usable(ids)])
    BY <1>4 DEF SelectUsable
  <2> DEFINE to == [IdleReviser EXCEPT !.at = "exclude", !.selected = Usable(ids)]
  <2>2. to.at = "exclude" /\ to.selected = Usable(ids)
    BY DEF IdleReviser
  <2> HIDE DEF to
  <2>3. ReviserStep(v, to)
    BY <2>1 DEF to
  <2>4. UNCHANGED <<history, revisions, answered>> /\ Usable(ids) \subseteq Saved
    BY <1>4, <2>1 DEF SelectUsable, Usable
  <2>5. QED
    BY <1>2, <2>2, <2>3, <2>4
<1>5. CASE ListExcluded(v) \/ Generate(v)
  <2>1. PICK to : /\ ReviserStep(v, to)
                  /\ to.at \in {"generate", "record", "done"}
                  /\ to.selected \subseteq reviser[v].selected
    <3>1. CASE ListExcluded(v)
      <4> DEFINE excluded == {i \in Saved : row[i].status \in Withheld}
                 to == [reviser[v] EXCEPT !.at = "generate", !.excluded = excluded]
      <4>1. to.at = "generate" /\ to.selected = reviser[v].selected
        BY <1>1 DEF Revisings
      <4>2. ReviserStep(v, to)
        BY <3>1 DEF ListExcluded
      <4> HIDE DEF to
      <4>3. QED
        BY <4>1, <4>2
    <3>2. CASE Generate(v)
      <4>1. /\ [reviser[v] EXCEPT !.at = "record"].at = "record"
            /\ [reviser[v] EXCEPT !.at = "record"].selected = reviser[v].selected
            /\ Done(IdleReviser).at = "done"
        BY <1>1 DEF Revisings, Done, IdleReviser
      <4>2. QED
        BY <3>2, <4>1, IdleTypes DEF Generate
    <3>3. QED
      BY <1>5, <3>1, <3>2
  <2>2. UNCHANGED <<history, revisions, answered>>
    BY <1>5 DEF ListExcluded, Generate
  <2>3. QED
    BY <1>2, <1>3, <2>1, <2>2
<1>6. CASE RecordRevision(v)
  <2> DEFINE to == [reviser[v] EXCEPT !.at = "mark", !.unmarked = reviser[v].selected]
  <2>1. /\ to.selected = reviser[v].selected /\ to.excluded = reviser[v].excluded
        /\ to.unmarked = reviser[v].selected
    BY <1>1 DEF Revisings
  <2>2. /\ ReviserStep(v, to) /\ revisions' = revisions \cup {Revision(v)}
        /\ UNCHANGED <<history, answered>>
    BY <1>6 DEF RecordRevision
  <2> HIDE DEF to
  <2>3. <<v, to.selected, to.excluded>> = Revision(v)
    BY <2>1 DEF Revision
  <2>4. QED
    BY <1>2, <1>3, <2>1, <2>2, <2>3
<1>7. CASE MarkUsed(v)
  <2>1. PICK i \in reviser[v].unmarked :
           /\ reviser[v].at = "mark"
           /\ history' = IF i \in Saved
                         THEN WithAction(i, "used_for_revision")
                         ELSE history
           /\ ReviserStep(v, [reviser[v] EXCEPT !.unmarked = reviser[v].unmarked \ {i}])
           /\ UNCHANGED <<revisions, answered>>
    BY <1>7 DEF MarkUsed, Revising
  <2> DEFINE to == [reviser[v] EXCEPT !.unmarked = reviser[v].unmarked \ {i}]
  <2>2. /\ to.selected = reviser[v].selected /\ to.excluded = reviser[v].excluded
        /\ to.unmarked = reviser[v].unmarked \ {i} /\ i \in Item
    BY <1>1, <2>1 DEF Revisings
  <2> HIDE DEF to
  <2>3. ReviserStep(v, to)
    BY <2>1 DEF to
  <2>4. <<v, to.selected, to.excluded>> = Revision(v)
    BY <2>2 DEF Revision
  <2>5. /\ \A j \in Item : history[j].actions \subseteq history'[j].actions
        /\ i \in Saved => Used(i)'
    BY <2>1, <2>2, WithActionEffect DEF Used
  <2>6. ASSUME thread, NEW j \in to.selected \ to.unmarked PROVE Used(j)'
    <3>1. j \in Saved /\ j \in Item
      BY <1>1, <1>3, <2>2, <2>6 DEF Revisings
    <3>2. CASE j = i
      BY <2>5, <3>1, <3>2
    <3>3. CASE j # i
      BY <1>3, <2>1, <2>2, <2>5, <2>6, <3>1, <3>3 DEF Used
    <3>4. QED
      BY <3>2, <3>3
  <2>7. QED
    BY <1>2, <1>3, <2>1, <2>2, <2>3, <2>4, <2>5, <2>6
<1>8. CASE SaveAnswer(v)
  <2> DEFINE to == [reviser[v] EXCEPT !.at = "audit"]
  <2>1. to.at = "audit" /\ to.selected = reviser[v].selected
    BY <1>1 DEF Revisings
  <2>2. /\ reviser[v].at = "mark" /\ reviser[v].unmarked = {}
        /\ ReviserStep(v, to) /\ answered' = answered \cup {Revision(v)}
        /\ UNCHANGED <<history, revisions>>
    BY <1>8 DEF SaveAnswer, AnswerDue
  <2> HIDE DEF to
  <2>3. Revision(v)[2] = reviser[v].selected
    BY DEF Revision
  <2>4. QED
    BY <1>2, <1>3, <2>1, <2>2, <2>3
<1>9. CASE AuditRevision(v)
  <2>1. Done(IdleReviser).at = "done" /\ Done(IdleReviser).selected = {}
    BY DEF Done, IdleReviser
  <2>2. ReviserStep(v, Done(IdleReviser)) /\ UNCHANGED <<history, revisions, answered>>
    BY <1>9 DEF AuditRevision
  <2>3. QED
    BY <1>2, <2>1, <2>2
<1>10. QED
  BY <1>4, <1>5, <1>6, <1>7, <1>8, <1>9 DEF ReviserNext

\* The deletion ends what is said of the conversation; a crash ends the requests.
LEMMA OutsideCatchesAndAnswers ==
    ASSUME IInv, CaptureInv, AnswerInv, DeleteThread \/ Crash \/ UNCHANGED vars
    PROVE  CaptureInv' /\ AnswerInv'
<1> USE DEF IInv, Types
<1>1. CASE DeleteThread
  BY <1>1 DEF DeleteThread, CaptureInv, AnswerInv, OneItem
<1>2. CASE Crash
  <2>1. /\ UNCHANGED <<thread, row, history, revisions, answered>>
        /\ recorder' = [r \in Recorder |-> AfterCrash(recorder[r], IdleRecorder)]
        /\ reviser' = [v \in Reviser |-> AfterCrash(reviser[v], IdleReviser)]
    BY <1>2 DEF Crash, stored
  <2>2. \A r \in Recorder : recorder'[r].at \in {"idle", "done"} /\ recorder'[r].item = {}
    <3>1. /\ IdleRecorder.at = "idle" /\ IdleRecorder.item = {}
          /\ Done(IdleRecorder).at = "done" /\ Done(IdleRecorder).item = {}
      BY DEF IdleRecorder, Done
    <3>2. \A r \in Recorder : recorder'[r] \in {IdleRecorder, Done(IdleRecorder)}
      BY <2>1 DEF AfterCrash
    <3>3. QED
      BY <3>1, <3>2
  <2>3. \A v \in Reviser : reviser'[v].at \in {"idle", "done"} /\ reviser'[v].selected = {}
    <3>1. /\ IdleReviser.at = "idle" /\ IdleReviser.selected = {}
          /\ Done(IdleReviser).at = "done" /\ Done(IdleReviser).selected = {}
      BY DEF IdleReviser, Done
    <3>2. \A v \in Reviser : reviser'[v] \in {IdleReviser, Done(IdleReviser)}
      BY <2>1 DEF AfterCrash
    <3>3. QED
      BY <3>1, <3>2
  <2>4. CaptureInv'
    <3>1. Saved' = Saved
      BY <2>1 DEF Saved
    <3>2. OneItem' /\ \A r \in Recorder, i \in Item : ~Capturing(r, i)'
      BY <2>2 DEF OneItem, Capturing
    <3>3. QED
      BY <2>1, <3>1, <3>2, CaptureFrame
  <2>5. AnswerInv'
    <3>1. \A v \in Reviser : Traced(v)'
      BY <2>3 DEF Traced
    <3>2. QED
      BY <2>1, <3>1 DEF AnswerInv, Used
  <2>6. QED
    BY <2>4, <2>5
<1>3. CASE UNCHANGED vars
  <2>1. UNCHANGED <<thread, row, history, revisions, answered, recorder, reviser>>
    BY <1>3 DEF vars, stored
  <2>2. Saved' = Saved
    BY <2>1 DEF Saved
  <2>3. OneItem' /\ \A r \in Recorder, i \in Item : Capturing(r, i)' => Capturing(r, i)
    BY <2>1 DEF CaptureInv, OneItem, Capturing
  <2>4. QED
    BY <2>1, <2>2, <2>3, CaptureFrame, AnswerFrame
<1>4. QED
  BY <1>1, <1>2, <1>3

\* What is captured and answered from the start on.
LEMMA CapturesAndAnswers == Spec => [](CaptureInv /\ AnswerInv)
<1>1. Init => CaptureInv /\ AnswerInv
  <2> SUFFICES ASSUME Init PROVE CaptureInv /\ AnswerInv
    OBVIOUS
  <2>1. /\ \A r \in Recorder : recorder[r].at = "idle" /\ recorder[r].item = {}
        /\ \A v \in Reviser : reviser[v].at = "idle" /\ reviser[v].selected = {}
        /\ \A i \in Item : history[i].captures = 0
        /\ answered = {}
    BY DEF Init, IdleRecorder, IdleReviser, NoHistory
  <2>2. CaptureInv
    BY <2>1 DEF CaptureInv, OneItem, Caught, Capturing
  <2>3. AnswerInv
    BY <2>1 DEF AnswerInv, Traced
  <2>4. QED
    BY <2>2, <2>3
<1>2. IInv /\ CaptureInv /\ AnswerInv /\ [Next]_vars => (CaptureInv /\ AnswerInv)'
  <2> SUFFICES ASSUME IInv, CaptureInv, AnswerInv, [Next]_vars
               PROVE  CaptureInv' /\ AnswerInv'
    OBVIOUS
  <2>1. CASE \E r \in Recorder : RecorderNext(r)
    BY <2>1, RecorderCatches, RecorderAnswers
  <2>2. CASE \E u \in Updater : UpdaterNext(u)
    BY <2>2, UpdaterCatchesAndAnswers
  <2>3. CASE \E v \in Reviser : ReviserNext(v)
    BY <2>3, ReviserCatches, ReviserAnswers
  <2>4. CASE DeleteThread \/ Crash \/ UNCHANGED vars
    BY <2>4, OutsideCatchesAndAnswers
  <2>5. QED
    BY <2>1, <2>2, <2>3, <2>4 DEF Next
<1>3. QED
  BY <1>1, <1>2, Invariant, PTL DEF Spec

\* recordEvidence writes one capture of an item, however many calls record it:
\* only the call whose INSERT OR IGNORE made the row goes on to write it.
THEOREM CaughtOnce == Spec => []CapturedOnce
<1>1. CaptureInv => CapturedOnce
  <2>1. ASSUME CaptureInv, thread, NEW i \in Item PROVE history[i].captures <= 1
    BY <2>1 DEF CaptureInv, Caught
  <2>2. QED
    BY <2>1 DEF CapturedOnce
<1>2. QED
  BY <1>1, CapturesAndAnswers, PTL

\* An answer the revision route saves has its revision, and the items it was
\* revised from were marked as used before.
THEOREM AnswersAreTraceable == Spec => []AnswerTraceable
<1>1. AnswerInv => AnswerTraceable
  BY DEF AnswerInv, Used, AnswerTraceable
<1>2. QED
  BY <1>1, CapturesAndAnswers, PTL

-----------------------------------------------------------------------------
(* Relations                                                               *)

\* A recorder that is going to relate i, which it has inserted, to j.
Relating(r, i, j) ==
    /\ i \in recorder[r].item
    /\ \/ recorder[r].at \in {"select", "log"} /\ recorder[r].created
       \/ recorder[r].at \in {"audit", "relate"}
       \/ recorder[r].at = "relating" /\ j \in recorder[r].others

Joined(i, j) ==
    \/ <<i, j>> \in relations \/ <<j, i>> \in relations
    \/ \E r \in Recorder : Relating(r, i, j) \/ Relating(r, j, i)

RelationInv == thread /\ ~crashed =>
    \A i, j \in Saved : i # j /\ Trace[i] = Trace[j] => Joined(i, j)

\* A step that saves nothing and gives up no relation.
LEMMA RelationFrame ==
    ASSUME RelationInv, thread' => thread, crashed' = crashed, Saved' = Saved,
           \A i, j \in Saved : i # j /\ Trace[i] = Trace[j] /\ Joined(i, j) => Joined(i, j)'
    PROVE  RelationInv'
BY DEF RelationInv

\* The recorders' steps: whoever of two inserts second finds the first.
LEMMA RecorderRelates ==
    ASSUME IInv, CaptureInv, RelationInv, NEW r \in Recorder, RecorderNext(r)
    PROVE  RelationInv'
<1> USE DEF Types
<1>1. recorder \in [Recorder -> Recordings] /\ recorder[r] \in Recordings
  BY DEF IInv, RecorderOK
<1>2. \A i, j \in recorder[r].item : i = j
  BY DEF CaptureInv, OneItem
\* A step after which the relations the recorder was going to write are written
\* or still to be written.
<1>3. ASSUME NEW to, RecorderStep(r, to), Saved' = Saved, relations \subseteq relations',
             \A i \in recorder[r].item, j \in Saved :
                 i \in Saved /\ i # j /\ Trace[i] = Trace[j] /\ Relating(r, i, j) =>
                     \/ <<i, j>> \in relations'
                     \/ /\ i \in to.item
                        /\ \/ to.at \in {"select", "log"} /\ to.created
                           \/ to.at \in {"audit", "relate"}
                           \/ to.at = "relating" /\ j \in to.others
      PROVE  RelationInv'
  <2>1. recorder' = [recorder EXCEPT ![r] = to] /\ UNCHANGED <<thread, crashed>>
    BY <1>3 DEF RecorderStep
  <2>2. recorder'[r] = to /\ \A q \in Recorder : q # r => recorder'[q] = recorder[q]
    BY <1>1, <2>1
  <2>3. ASSUME NEW q \in Recorder, NEW i \in Saved, NEW j \in Saved,
               i # j, Trace[i] = Trace[j], Relating(q, i, j)
        PROVE  <<i, j>> \in relations' \/ Relating(q, i, j)'
    <3>1. CASE q = r
      <4>1. i \in recorder[r].item
        BY <2>3, <3>1 DEF Relating
      <4>2. QED
        BY <1>3, <2>2, <2>3, <3>1, <4>1 DEF Relating
    <3>2. CASE q # r
      BY <2>2, <2>3, <3>2 DEF Relating
    <3>3. QED
      BY <3>1, <3>2
  <2>4. ASSUME NEW i \in Saved, NEW j \in Saved, i # j, Trace[i] = Trace[j], Joined(i, j)
        PROVE  Joined(i, j)'
    BY <1>3, <2>3, <2>4 DEF Joined
  <2>5. QED
    BY <1>3, <2>1, <2>4, RelationFrame
<1>4. ASSUME row' = row PROVE Saved' = Saved
  BY <1>4 DEF Saved
<1>5. CASE StartRecording(r) \/ StartBackfill(r) \/ CheckOwned(r)
  <2>1. PICK to : RecorderStep(r, to)
    BY <1>5 DEF StartRecording, StartBackfill, CheckOwned
  <2>2. row' = row /\ relations' = relations /\ recorder[r].at \in {"idle", "next"}
    BY <1>5 DEF StartRecording, StartBackfill, CheckOwned, Recording
  <2>3. \A i, j \in Item : ~Relating(r, i, j)
    BY <2>2 DEF Relating
  <2>4. recorder[r].item \subseteq Item /\ Saved \subseteq Item
    BY <1>1 DEF Recordings, Saved
  <2>5. QED
    BY <1>3, <1>4, <2>1, <2>2, <2>3, <2>4
<1>6. CASE Insert(r)
  <2>1. PICK i \in recorder[r].item :
           /\ Recording(r, "insert")
           /\ row' = [row EXCEPT ![i] = IF i \in Saved THEN @ ELSE InitialRow(i)]
           /\ RecorderStep(r, [recorder[r] EXCEPT !.at = "select", !.created = Created(i)])
           /\ UNCHANGED <<history, relations, audit>>
    BY <1>6 DEF Insert
  <2> DEFINE to == [recorder[r] EXCEPT !.at = "select", !.created = Created(i)]
  <2>2. /\ to.at = "select" /\ to.created = (i \notin Saved) /\ to.item = recorder[r].item
        /\ i \in Item
    BY <1>1, <2>1 DEF Recordings, Created
  <2> HIDE DEF to
  <2>3. recorder' = [recorder EXCEPT ![r] = to] /\ UNCHANGED <<thread, crashed>>
    BY <2>1 DEF to, RecorderStep
  <2>4. recorder'[r] = to /\ \A q \in Recorder : q # r => recorder'[q] = recorder[q]
    BY <1>1, <2>3
  <2>5. \A q \in Recorder, j, k \in Item : Relating(q, j, k) => Relating(q, j, k)'
    BY <2>1, <2>4 DEF Relating, Recording
  <2>6. Saved' = Saved \cup {i}
    BY <2>1, <2>2, InitialRowType DEF IInv, RowOK, Saved
  <2>7. ASSUME i \notin Saved, NEW k \in Item PROVE Relating(r, i, k)'
    BY <2>1, <2>2, <2>4, <2>7 DEF Relating
  <2>8. ASSUME thread', ~crashed', NEW j \in Saved', NEW k \in Saved',
               j # k, Trace[j] = Trace[k]
        PROVE  Joined(j, k)'
    <3>1. j \in Item /\ k \in Item
      BY <2>2, <2>6, <2>8 DEF Saved
    <3>2. CASE j \in Saved /\ k \in Saved
      <4>1. Joined(j, k)
        BY <2>3, <2>8, <3>2 DEF RelationInv
      <4>2. QED
        BY <2>1, <2>5, <3>1, <4>1 DEF Joined
    <3>3. CASE ~(j \in Saved /\ k \in Saved)
      BY <2>6, <2>7, <2>8, <3>1, <3>3 DEF Joined
    <3>4. QED
      BY <3>2, <3>3
  <2>9. QED
    BY <2>8 DEF RelationInv
<1>7. CASE SelectSaved(r)
  <2>1. PICK i \in recorder[r].item :
           /\ Recording(r, "select")
           /\ RecorderStep(r, [recorder[r] EXCEPT
                                  !.at = IF i \in Saved /\ recorder[r].created
                                         THEN "log" ELSE "next"])
           /\ UNCHANGED <<row, history, relations, audit>>
    BY <1>7 DEF SelectSaved
  <2> DEFINE at == IF i \in Saved /\ recorder[r].created THEN "log" ELSE "next"
             to == [recorder[r] EXCEPT !.at = at]
  <2>2. to.at = at /\ to.created = recorder[r].created /\ to.item = recorder[r].item
    BY <1>1 DEF Recordings
  <2> HIDE DEF to
  <2>3. RecorderStep(r, to)
    BY <2>1 DEF to
  <2>4. QED
    BY <1>2, <1>3, <1>4, <2>1, <2>2, <2>3 DEF Recording, Relating
<1>8. CASE LogCapture(r) \/ AuditCapture(r)
  <2>1. PICK at \in {"audit", "relate"} : RecorderStep(r, [recorder[r] EXCEPT !.at = at])
    BY <1>8 DEF LogCapture, AuditCapture
  <2> DEFINE to == [recorder[r] EXCEPT !.at = at]
  <2>2. to.at = at /\ to.item = recorder[r].item
    BY <1>1 DEF Recordings
  <2> HIDE DEF to
  <2>3. RecorderStep(r, to)
    BY <2>1 DEF to
  <2>4. row' = row /\ relations' = relations
    BY <1>8 DEF LogCapture, AuditCapture
  <2>5. QED
    BY <1>3, <1>4, <2>1, <2>2, <2>3, <2>4
<1>9. CASE SelectOthers(r)
  <2>1. PICK i \in recorder[r].item :
           /\ RecorderStep(r, [recorder[r] EXCEPT !.at = "relating", !.others = Others(i)])
           /\ UNCHANGED <<row, relations>>
    BY <1>9 DEF SelectOthers
  <2> DEFINE to == [recorder[r] EXCEPT !.at = "relating", !.others = Others(i)]
  <2>2. to.at = "relating" /\ to.others = Others(i) /\ to.item = recorder[r].item
    BY <1>1 DEF Recordings
  <2> HIDE DEF to
  <2>3. RecorderStep(r, to)
    BY <2>1 DEF to
  <2>4. \A k \in recorder[r].item, j \in Saved : k # j /\ Trace[k] = Trace[j] => j \in to.others
    BY <1>2, <2>1, <2>2 DEF Others
  <2>5. QED
    BY <1>3, <1>4, <2>1, <2>2, <2>3, <2>4
<1>10. CASE Relate(r)
  <2>1. PICK i \in recorder[r].item :
           /\ recorder[r].at = "relating"
           /\ IF recorder[r].others = {}
              THEN /\ RecorderStep(r, [recorder[r] EXCEPT !.at = "next"])
                   /\ UNCHANGED relations
              ELSE \E j \in recorder[r].others :
                       /\ relations' = relations \cup {<<i, j>>}
                       /\ RecorderStep(r, [recorder[r] EXCEPT !.others = @ \ {j}])
           /\ row' = row
    BY <1>10 DEF Relate, Recording
  <2>2. CASE recorder[r].others = {}
    <3>1. \A k \in recorder[r].item, j \in Saved : ~Relating(r, k, j)
      BY <2>1, <2>2 DEF Relating
    <3>2. QED
      BY <1>3, <1>4, <2>1, <2>2, <3>1
  <2>3. CASE recorder[r].others # {}
    <3>1. PICK j \in recorder[r].others :
             /\ relations' = relations \cup {<<i, j>>}
             /\ RecorderStep(r, [recorder[r] EXCEPT !.others = recorder[r].others \ {j}])
      BY <2>1, <2>3
    <3> DEFINE to == [recorder[r] EXCEPT !.others = recorder[r].others \ {j}]
    <3>2. /\ to.at = "relating" /\ to.item = recorder[r].item
          /\ to.others = recorder[r].others \ {j}
      BY <1>1, <2>1 DEF Recordings
    <3> HIDE DEF to
    <3>3. RecorderStep(r, to)
      BY <3>1 DEF to
    <3>4. \A k \in recorder[r].item, l \in Saved : Relating(r, k, l) =>
              <<k, l>> \in relations' \/ (k \in to.item /\ l \in to.others)
      BY <1>2, <2>1, <3>1, <3>2 DEF Relating
    <3>5. QED
      BY <1>3, <1>4, <2>1, <3>1, <3>2, <3>3, <3>4
  <2>4. QED
    BY <2>2, <2>3
<1>11. QED
  BY <1>5, <1>6, <1>7, <1>8, <1>9, <1>10 DEF RecorderNext

\* The other steps relate nothing; after a crash nothing is said.
LEMMA OthersRelate ==
    ASSUME IInv, RelationInv,
           \/ \E u \in Updater : UpdaterNext(u)
           \/ \E v \in Reviser : ReviserNext(v)
           \/ DeleteThread \/ Crash \/ UNCHANGED vars
    PROVE  RelationInv'
<1>1. CASE DeleteThread \/ Crash
  BY <1>1 DEF DeleteThread, Crash, RelationInv
<1>2. CASE \E u \in Updater : UpdaterNext(u)
  <2>1. UNCHANGED <<thread, crashed, relations, recorder>>
    BY <1>2 DEF UpdaterNext, UpdaterStep, ReadCurrent, Write, LogAction, AuditAction, Reread, Learn
  <2>2. QED
    BY <1>2, <2>1, UpdaterSaves, RelationFrame DEF Joined, Relating
<1>3. CASE (\E v \in Reviser : ReviserNext(v)) \/ UNCHANGED vars
  <2>1. UNCHANGED <<thread, crashed, row, relations, recorder>>
    BY <1>3 DEF ReviserNext, ReviserStep, SelectUsable, ListExcluded, Generate, RecordRevision,
                MarkUsed, SaveAnswer, AuditRevision, vars, stored
  <2>2. Saved' = Saved
    BY <2>1 DEF Saved
  <2>3. QED
    BY <2>1, <2>2, RelationFrame DEF Joined, Relating
<1>4. QED
  BY <1>1, <1>2, <1>3

\* recordEvidence relates every two items of a trace, though each call reads the
\* others before it writes: the later of two inserts comes before its reading.
THEOREM TracesAreRelated == Spec => []SameTraceRelated
<1>1. Init => RelationInv
  BY DEF Init, RelationInv, Saved, NoRow
<1>2. IInv /\ CaptureInv /\ RelationInv /\ [Next]_vars => RelationInv'
  BY RecorderRelates, OthersRelate DEF Next
<1>3. RelationInv => SameTraceRelated
  <2> SUFFICES ASSUME RelationInv, thread, ~crashed, Captured,
                      NEW i \in Saved, NEW j \in Saved, i # j, Trace[i] = Trace[j]
               PROVE  <<i, j>> \in relations \/ <<j, i>> \in relations
    BY DEF SameTraceRelated
  <2>1. Joined(i, j)
    BY DEF RelationInv
  <2>2. \A r \in Recorder : ~Relating(r, i, j) /\ ~Relating(r, j, i)
    BY DEF Captured, Relating
  <2>3. QED
    BY <2>1, <2>2 DEF Joined
<1>4. QED
  BY <1>1, <1>2, <1>3, Invariant, CapturesAndAnswers, PTL DEF Spec

-----------------------------------------------------------------------------
(* Rejections                                                              *)

\* An update that has the rejection of i to audit, and has it to log as well.
Rejecting(u, i) ==
    /\ updater[u].at \in {"write", "log", "audit"}
    /\ i \in updater[u].item
    /\ Head(updater[u].actions) = "rejected"
RejectingUnlogged(u, i) == Rejecting(u, i) /\ updater[u].at # "audit"

Logged(i) ==
    "rejected" \in history[i].actions \/ \E u \in Updater : RejectingUnlogged(u, i)
Audited(i) == <<i, "rejected">> \in audit \/ \E u \in Updater : Rejecting(u, i)

RejectedOrToBe(i) ==
    \/ row[i].status = "rejected"
    \/ \E u \in Updater : i \in updater[u].item /\ updater[u].next.status = "rejected"

RejectionInv == thread /\ ~crashed =>
    \A i \in Item : RejectedOrToBe(i) => Logged(i) /\ Audited(i)

\* The disposition is the first action of an update that changes it.
LEMMA DispositionFirst ==
    ASSUME NEW selected \in {"keep", "yes", "no"}, NEW current \in Rows,
           NEW chosen \in BOOLEAN, NEW noted \in BOOLEAN, current.status # "rejected"
    PROVE  Head(OrUpdated(DispositionActions("rejected", current.status)
                          \o SelectionActions(selected, chosen, current.selected)
                          \o NoteActions(noted))) = "rejected"
<1> DEFINE kinds == {"rejected", "selected", "unselected", "noted"}
           first == DispositionActions("rejected", current.status)
           second == SelectionActions(selected, chosen, current.selected)
           third == NoteActions(noted)
<1>1. first = <<"rejected">>
  BY DEF DispositionActions, Disposition
<1>2. /\ "rejected" \in kinds /\ "selected" \in kinds
      /\ "unselected" \in kinds /\ "noted" \in kinds
  OBVIOUS
<1> HIDE DEF kinds
<1>3. <<>> \in Seq(kinds) /\ \A a \in kinds : <<a>> \in Seq(kinds)
  OBVIOUS
<1>4. second \in Seq(kinds) /\ third \in Seq(kinds)
  BY <1>2, <1>3 DEF SelectionActions, NoteActions
<1> HIDE DEF first, second, third
<1>5. first \in Seq(kinds) /\ Len(first) = 1 /\ first[1] = "rejected"
  BY <1>1, <1>2, <1>3
<1>6. Len(second) \in Nat /\ Len(third) \in Nat
  BY <1>4, LenProperties
<1>7. /\ first \o second \in Seq(kinds)
      /\ Len(first \o second) = 1 + Len(second)
      /\ (first \o second)[1] = "rejected"
  <2>1. /\ first \o second \in Seq(kinds)
        /\ Len(first \o second) = Len(first) + Len(second)
        /\ \A k \in 1 .. Len(first) + Len(second) :
               (first \o second)[k] = IF k <= Len(first) THEN first[k] ELSE second[k - Len(first)]
    BY <1>4, <1>5, ConcatProperties
  <2>2. 1 \in 1 .. Len(first) + Len(second) /\ 1 <= Len(first)
    BY <1>5, <1>6
  <2>3. QED
    BY <1>5, <2>1, <2>2
<1>8. /\ (first \o second) \o third \in Seq(kinds)
      /\ Len((first \o second) \o third) = 1 + Len(second) + Len(third)
      /\ ((first \o second) \o third)[1] = "rejected"
  <2>1. 1 \in 1 .. Len(first \o second) + Len(third) /\ 1 <= Len(first \o second)
    BY <1>6, <1>7
  <2>2. QED
    BY <1>4, <1>7, <2>1, ConcatProperties
<1>9. (first \o second) \o third # <<>>
  <2>1. Len((first \o second) \o third) # 0
    BY <1>6, <1>8
  <2>2. QED
    BY <2>1, EmptySeq
<1>10. Head((first \o second) \o third) = "rejected"
  BY <1>8
<1>11. QED
  BY <1>9, <1>10 DEF OrUpdated, first, second, third

\* A step that writes no row and ends no rejection that is not written.
LEMMA RejectionFrame ==
    ASSUME RejectionInv, thread' => thread,
           ~crashed' => ~crashed,
           \A i \in Item : RejectedOrToBe(i)' => RejectedOrToBe(i),
           \A i \in Item : Logged(i) => Logged(i)',
           \A i \in Item : Audited(i) => Audited(i)'
    PROVE  RejectionInv'
BY DEF RejectionInv

\* The steps that dispose of nothing.
LEMMA OthersReject ==
    ASSUME IInv, RejectionInv,
           \/ \E r \in Recorder : RecorderNext(r)
           \/ \E v \in Reviser : ReviserNext(v)
           \/ DeleteThread \/ Crash \/ UNCHANGED vars
    PROVE  RejectionInv'
<1> USE DEF IInv, Types
<1>1. CASE DeleteThread \/ Crash
  BY <1>1 DEF DeleteThread, Crash, RejectionInv
\* A step that leaves the updates alone and writes nothing away.
<1>2. ASSUME UNCHANGED <<thread, crashed, updater>>, audit \subseteq audit',
             \A i \in Item : history[i].actions \subseteq history'[i].actions,
             \A i \in Item : row'[i] = row[i] \/ row'[i].status # "rejected"
      PROVE  RejectionInv'
  <2>1. \A i \in Item : RejectedOrToBe(i)' => RejectedOrToBe(i)
    BY <1>2 DEF RejectedOrToBe
  <2>2. \A i \in Item : (Logged(i) => Logged(i)') /\ (Audited(i) => Audited(i)')
    BY <1>2 DEF Logged, Audited, Rejecting, RejectingUnlogged
  <2>3. QED
    BY <1>2, <2>1, <2>2, RejectionFrame
<1>3. ASSUME NEW r \in Recorder, RecorderNext(r) PROVE RejectionInv'
  <2>1. UNCHANGED <<thread, crashed, updater>> /\ audit \subseteq audit'
    BY <1>3 DEF RecorderNext, RecorderStep, StartRecording, StartBackfill, CheckOwned, Insert,
                SelectSaved, LogCapture, AuditCapture, SelectOthers, Relate
  <2>2. recorder[r].item \subseteq Item
    BY DEF RecorderOK, Recordings
  <2>3. \A i \in Item : history[i].actions \subseteq history'[i].actions
    <3>1. CASE LogCapture(r)
      <4>1. PICK i \in recorder[r].item :
               history' = WithAction(i, IF i \in Suspect THEN "auto_suspended" ELSE "captured")
        BY <3>1 DEF LogCapture
      <4>2. QED
        BY <2>2, <4>1, WithActionEffect
    <3>2. CASE history' = history
      BY <3>2
    <3>3. QED
      BY <1>3, <3>1, <3>2
      DEF RecorderNext, StartRecording, StartBackfill, CheckOwned, Insert, SelectSaved,
          AuditCapture, SelectOthers, Relate
  <2>4. \A i \in Item : row'[i] = row[i] \/ row'[i].status # "rejected"
    <3>1. CASE Insert(r)
      <4>1. PICK i \in recorder[r].item :
               row' = [row EXCEPT ![i] = IF i \in Saved THEN @ ELSE InitialRow(i)]
        BY <3>1 DEF Insert
      <4>2. InitialRow(i).status # "rejected"
        BY <2>2, <4>1, InitialRowType
      <4>3. QED
        BY <4>1, <4>2 DEF RowOK
    <3>2. CASE row' = row
      BY <3>2
    <3>3. QED
      BY <1>3, <3>1, <3>2
      DEF RecorderNext, StartRecording, StartBackfill, CheckOwned, SelectSaved, LogCapture,
          AuditCapture, SelectOthers, Relate
  <2>5. QED
    BY <1>2, <2>1, <2>3, <2>4
<1>4. ASSUME NEW v \in Reviser, ReviserNext(v) PROVE RejectionInv'
  <2>1. UNCHANGED <<thread, crashed, row, updater>> /\ audit \subseteq audit'
    BY <1>4 DEF ReviserNext, ReviserStep, SelectUsable, ListExcluded, Generate, RecordRevision,
                MarkUsed, SaveAnswer, AuditRevision
  <2>2. \A i \in Item : history[i].actions \subseteq history'[i].actions
    <3>1. CASE MarkUsed(v)
      <4>1. PICK i \in reviser[v].unmarked :
               history' = IF i \in Saved THEN WithAction(i, "used_for_revision") ELSE history
        BY <3>1 DEF MarkUsed
      <4>2. i \in Item
        BY <4>1 DEF ReviserOK, Revisings
      <4>3. QED
        BY <4>1, <4>2, WithActionEffect
    <3>2. CASE history' = history
      BY <3>2
    <3>3. QED
      BY <1>4, <3>1, <3>2 DEF ReviserNext, SelectUsable, ListExcluded, Generate,
                              RecordRevision, SaveAnswer, AuditRevision
  <2>3. QED
    BY <1>2, <2>1, <2>2
<1>5. CASE UNCHANGED vars
  BY <1>2, <1>5 DEF vars, stored
<1>6. QED
  BY <1>1, <1>3, <1>4, <1>5

\* The updates' steps: what is going to be rejected is logged and audited, or
\* the update that rejects it is going to do both.
LEMMA UpdaterRejects ==
    ASSUME IInv, RejectionInv, NEW u \in Updater, UpdaterNext(u)
    PROVE  RejectionInv'
<1> USE DEF Types
<1>1. /\ updater[u] \in Updates /\ updater \in [Updater -> Updates]
      /\ \A i, j \in updater[u].item : i = j
  BY DEF IInv, UpdaterOK, UpdatesSound, Sound
<1>2. ASSUME NEW to, UpdaterStep(u, to)
      PROVE  /\ UNCHANGED <<thread, crashed>> /\ updater'[u] = to
             /\ \A w \in Updater : w # u => updater'[w] = updater[w]
  BY <1>1, <1>2 DEF UpdaterStep
\* A step that goes on with the item and the row the update has.
<1>3. ASSUME NEW to, UpdaterStep(u, to),
             to.item = {} \/ (to.item = updater[u].item /\ to.next = updater[u].next),
             \A i \in Item : row'[i].status = "rejected" => RejectedOrToBe(i),
             audit \subseteq audit',
             \A i \in Item : history[i].actions \subseteq history'[i].actions,
             \A i \in Item : RejectingUnlogged(u, i) =>
                 \/ "rejected" \in history'[i].actions
                 \/ RejectingUnlogged(u, i)',
             \A i \in Item : Rejecting(u, i) =>
                 <<i, "rejected">> \in audit' \/ Rejecting(u, i)'
      PROVE  RejectionInv'
  <2>1. \A i \in Item : RejectedOrToBe(i)' => RejectedOrToBe(i)
    BY <1>2, <1>3 DEF RejectedOrToBe
  <2>2. \A w \in Updater, i \in Item : w # u =>
           /\ RejectingUnlogged(w, i) => RejectingUnlogged(w, i)'
           /\ Rejecting(w, i) => Rejecting(w, i)'
    BY <1>2, <1>3 DEF Rejecting, RejectingUnlogged
  <2>3. \A i \in Item : Logged(i) => Logged(i)'
    BY <1>3, <2>2 DEF Logged
  <2>4. \A i \in Item : Audited(i) => Audited(i)'
    BY <1>3, <2>2 DEF Audited
  <2>5. QED
    BY <1>2, <1>3, <2>1, <2>3, <2>4, RejectionFrame
<1>4. ASSUME row' = row
      PROVE  \A i \in Item : row'[i].status = "rejected" => RejectedOrToBe(i)
  BY <1>4 DEF RejectedOrToBe
<1>5. CASE ReadCurrent(u)
  <2>1. PICK i \in Saved, status \in Disposition \cup {"keep"},
             selected \in {"keep", "yes", "no"}, noted \in BOOLEAN :
           LET current == row[i]
               next == IF status = "keep" THEN current.status ELSE status
               chosen == NextSelected(next, selected, current.selected)
           IN
           /\ UpdaterStep(u, [at |-> "write", item |-> {i}, status |-> status,
                              before |-> current.status,
                              next |-> [status |-> next, selected |-> chosen],
                              actions |-> OrUpdated(
                                  DispositionActions(status, current.status)
                                  \o SelectionActions(selected, chosen, current.selected)
                                  \o NoteActions(noted))])
           /\ asked' = IF status \in {"active", "accepted"} THEN asked \cup {i} ELSE asked
    BY <1>5 DEF ReadCurrent
  <2> DEFINE next == IF status = "keep" THEN row[i].status ELSE status
             chosen == NextSelected(next, selected, row[i].selected)
             actions == OrUpdated(DispositionActions(status, row[i].status)
                                  \o SelectionActions(selected, chosen, row[i].selected)
                                  \o NoteActions(noted))
             to == [at |-> "write", item |-> {i}, status |-> status,
                    before |-> row[i].status,
                    next |-> [status |-> next, selected |-> chosen], actions |-> actions]
  <2>2. i \in Item /\ row[i] \in Rows
    BY <2>1 DEF IInv, Saved, RowOK
  <2>3. chosen \in BOOLEAN
    BY <2>2 DEF NextSelected, Rows
  <2>4. status = "rejected" /\ row[i].status # "rejected" => Head(actions) = "rejected"
    <3> HIDE DEF chosen
    <3>1. QED
      BY <2>2, <2>3, DispositionFirst
  <2>5. UpdaterStep(u, to)
    BY <2>1
  <2> HIDE DEF actions, chosen
  <2>6. to.at = "write" /\ to.item = {i} /\ to.next.status = next /\ to.actions = actions
    OBVIOUS
  <2> HIDE DEF to
  <2>7. UNCHANGED <<row, history, audit>> /\ updater[u].at = "idle"
    BY <1>5 DEF ReadCurrent, Updating
  <2>8. \A k \in Item : (Logged(k) => Logged(k)') /\ (Audited(k) => Audited(k)')
    BY <1>2, <2>5, <2>7 DEF Logged, Audited, Rejecting, RejectingUnlogged
  <2>9. ASSUME thread', ~crashed', NEW k \in Item, RejectedOrToBe(k)'
        PROVE  Logged(k)' /\ Audited(k)'
    <3>1. CASE RejectedOrToBe(k)
      BY <1>2, <2>5, <2>8, <2>9, <3>1 DEF RejectionInv
    <3>2. CASE ~RejectedOrToBe(k)
      <4>1. k = i /\ next = "rejected" /\ row[i].status # "rejected"
        BY <1>2, <2>5, <2>6, <2>7, <2>9, <3>2 DEF RejectedOrToBe
      <4>2. RejectingUnlogged(u, k)'
        BY <1>2, <2>4, <2>5, <2>6, <4>1 DEF Rejecting, RejectingUnlogged
      <4>3. QED
        BY <4>2 DEF Logged, Audited, RejectingUnlogged
    <3>3. QED
      BY <3>1, <3>2
  <2>10. QED
    BY <2>9 DEF RejectionInv
<1>6. CASE Write(u)
  <2>1. PICK i \in updater[u].item :
           /\ updater[u].at = "write"
           /\ row' = [row EXCEPT ![i] = IF i \in Saved THEN updater[u].next ELSE @]
           /\ UpdaterStep(u, [updater[u] EXCEPT !.at = "log"])
           /\ UNCHANGED <<history, audit>>
    BY <1>6 DEF Write, Updating
  <2> DEFINE to == [updater[u] EXCEPT !.at = "log"]
  <2>2. /\ to.at = "log" /\ to.item = updater[u].item /\ to.next = updater[u].next
        /\ to.actions = updater[u].actions
    BY <1>1 DEF Updates
  <2> HIDE DEF to
  <2>3. UpdaterStep(u, to)
    BY <2>1 DEF to
  <2>4. \A k \in Item : row'[k].status = "rejected" => RejectedOrToBe(k)
    BY <2>1 DEF IInv, RowOK, RejectedOrToBe
  <2>5. \A k \in Item : /\ RejectingUnlogged(u, k) => RejectingUnlogged(u, k)'
                        /\ Rejecting(u, k) => Rejecting(u, k)'
    BY <1>2, <2>2, <2>3 DEF Rejecting, RejectingUnlogged
  <2>6. QED
    BY <1>3, <2>1, <2>2, <2>3, <2>4, <2>5
<1>7. CASE LogAction(u)
  <2>1. PICK i \in updater[u].item :
           /\ updater[u].at = "log"
           /\ history' = WithAction(i, Head(updater[u].actions))
           /\ UpdaterStep(u, [updater[u] EXCEPT !.at = "audit"])
           /\ UNCHANGED <<row, audit>>
    BY <1>7 DEF LogAction, Updating
  <2> DEFINE to == [updater[u] EXCEPT !.at = "audit"]
  <2>2. /\ to.at = "audit" /\ to.item = updater[u].item /\ to.next = updater[u].next
        /\ to.actions = updater[u].actions /\ i \in Item
    BY <1>1, <2>1 DEF Updates
  <2> HIDE DEF to
  <2>3. UpdaterStep(u, to)
    BY <2>1 DEF to
  <2>4. /\ \A k \in Item : history[k].actions \subseteq history'[k].actions
        /\ Head(updater[u].actions) \in history'[i].actions
    BY <2>1, <2>2, WithActionEffect DEF IInv
  <2>5. \A k \in Item : /\ RejectingUnlogged(u, k) => "rejected" \in history'[k].actions
                        /\ Rejecting(u, k) => Rejecting(u, k)'
    BY <1>1, <1>2, <2>1, <2>2, <2>3, <2>4 DEF Rejecting, RejectingUnlogged
  <2>6. QED
    BY <1>3, <1>4, <2>1, <2>2, <2>3, <2>4, <2>5
<1>8. CASE AuditAction(u)
  <2> DEFINE at == IF Len(updater[u].actions) > 1 THEN "log" ELSE "reread"
             to == [updater[u] EXCEPT !.at = at, !.actions = Tail(updater[u].actions)]
  <2>1. PICK i \in updater[u].item :
           /\ updater[u].at = "audit"
           /\ audit' = audit \cup {<<i, Head(updater[u].actions)>>}
           /\ UpdaterStep(u, to)
           /\ UNCHANGED <<row, history>>
    BY <1>8 DEF AuditAction, Updating
  <2>2. to.item = updater[u].item /\ to.next = updater[u].next
    BY <1>1 DEF Updates
  <2> HIDE DEF to
  <2>3. \A k \in Item : /\ ~RejectingUnlogged(u, k)
                        /\ Rejecting(u, k) => <<k, "rejected">> \in audit'
    BY <1>1, <2>1 DEF Rejecting, RejectingUnlogged
  <2>4. QED
    BY <1>3, <1>4, <2>1, <2>2, <2>3
<1>9. CASE Reread(u) \/ Learn(u)
  <2>1. /\ updater[u].at \in {"reread", "learn"}
        /\ UNCHANGED <<row, history, audit>>
        /\ \/ UpdaterStep(u, [updater[u] EXCEPT !.at = "learn"])
           \/ UpdaterStep(u, Done(IdleUpdater))
    BY <1>9 DEF Reread, Learn, Updating
  <2>2. \A k \in Item : ~Rejecting(u, k) /\ ~RejectingUnlogged(u, k)
    BY <2>1 DEF Rejecting, RejectingUnlogged
  <2> DEFINE to == [updater[u] EXCEPT !.at = "learn"]
  <2>3. to.item = updater[u].item /\ to.next = updater[u].next
    BY <1>1 DEF Updates
  <2> HIDE DEF to
  <2>4. CASE UpdaterStep(u, to)
    BY <1>3, <1>4, <2>1, <2>2, <2>3, <2>4
  <2>5. CASE UpdaterStep(u, Done(IdleUpdater))
    BY <1>3, <1>4, <2>1, <2>2, <2>5, IdleTypes
  <2>6. QED
    BY <2>1, <2>4, <2>5 DEF to
<1>10. QED
  BY <1>5, <1>6, <1>7, <1>8, <1>9 DEF UpdaterNext

\* Rejected evidence at rest says so in its history and in the audit, though
\* updateEvidence writes its row before both, and others write the row between.
THEOREM RejectionsAreRecorded == Spec => []RejectionRecorded
<1>1. Init => RejectionInv
  BY DEF Init, RejectionInv, RejectedOrToBe, NoRow, IdleUpdater
<1>2. IInv /\ RejectionInv /\ [Next]_vars => RejectionInv'
  BY UpdaterRejects, OthersReject DEF Next
<1>3. RejectionInv => RejectionRecorded
  <2> SUFFICES ASSUME RejectionInv, thread, ~crashed, AtRest,
                      NEW i \in Item, row[i].status = "rejected"
               PROVE  RejectionWritten(i)
    BY DEF RejectionRecorded
  <2>1. Logged(i) /\ Audited(i)
    BY DEF RejectionInv, RejectedOrToBe
  <2>2. \A u \in Updater : ~Rejecting(u, i) /\ ~RejectingUnlogged(u, i)
    BY DEF AtRest, Disposed, Rejecting, RejectingUnlogged
  <2>3. QED
    BY <2>1, <2>2 DEF Logged, Audited, RejectionWritten
<1>4. QED
  BY <1>1, <1>2, <1>3, Invariant, PTL DEF Spec

-----------------------------------------------------------------------------
(* How a rejection is undone                                               *)

\* An update without a status that read item i before it was rejected.
Reviving(u, i) ==
    /\ Updating(u, "write")
    /\ i \in updater[u].item
    /\ updater[u].status = "keep" /\ updater[u].next.status # "rejected"

\* Once the updates that had read an item before it was rejected have written,
\* no update writes what another had read: the rejection stands until a request
\* asks for another status, or the conversation is deleted.
RejectionKept(i) ==
    row[i].status = "rejected" /\ (\A u \in Updater : ~Reviving(u, i)) =>
        /\ \A u \in Updater : ~Reviving(u, i)'
        /\ \/ row'[i].status = "rejected"
           \/ \E u \in Updater : /\ Write(u) /\ i \in updater[u].item
                                 /\ updater[u].status # "keep"
           \/ DeleteThread

RejectionStands == [][\A i \in Item : RejectionKept(i)]_vars

\* updateEvidence writes the status it has read unless it is given one, so only
\* an update that read the item before its rejection revives it unasked.
THEOREM RejectionIsKept == Spec => RejectionStands
<1>1. ASSUME IInv, [Next]_vars, NEW i \in Item
      PROVE  RejectionKept(i)
  <2> SUFFICES ASSUME row[i].status = "rejected", \A u \in Updater : ~Reviving(u, i)
               PROVE  /\ \A u \in Updater : ~Reviving(u, i)'
                      /\ \/ row'[i].status = "rejected"
                         \/ \E u \in Updater : /\ Write(u) /\ i \in updater[u].item
                                               /\ updater[u].status # "keep"
                         \/ DeleteThread
    BY DEF RejectionKept
  <2>1. i \in Saved /\ row \in [Item -> Rows] /\ updater \in [Updater -> Updates]
    BY <1>1 DEF Saved, IInv, Types, RowOK, UpdaterOK
  <2>2. updater' = updater => \A u \in Updater : ~Reviving(u, i)'
    BY <1>1 DEF Reviving, Updating
  <2>3. ASSUME NEW r \in Recorder, RecorderNext(r)
        PROVE  updater' = updater /\ row'[i].status = "rejected"
    <3>1. CASE Insert(r)
      <4>1. row'[i] = row[i]
        BY <2>1, <3>1 DEF Insert
      <4>2. QED
        BY <1>1, <3>1, <4>1 DEF Insert, RecorderStep
    <3>2. CASE ~Insert(r)
      BY <1>1, <2>3, <3>2
      DEF RecorderNext, StartRecording, StartBackfill, CheckOwned, SelectSaved, LogCapture,
          AuditCapture, SelectOthers, Relate, RecorderStep
    <3>3. QED
      BY <3>1, <3>2
  <2>4. ASSUME NEW u \in Updater, ReadCurrent(u)
        PROVE  row' = row /\ \A w \in Updater : ~Reviving(w, i)'
    <3>1. PICK j \in Saved, status \in Disposition \cup {"keep"},
               selected \in {"keep", "yes", "no"}, noted \in BOOLEAN :
             LET current == row[j]
                 next == IF status = "keep" THEN current.status ELSE status
                 chosen == NextSelected(next, selected, current.selected)
             IN
             /\ UpdaterStep(u, [at |-> "write", item |-> {j}, status |-> status,
                                before |-> current.status,
                                next |-> [status |-> next, selected |-> chosen],
                                actions |-> OrUpdated(
                                    DispositionActions(status, current.status)
                                    \o SelectionActions(selected, chosen, current.selected)
                                    \o NoteActions(noted))])
             /\ asked' = IF status \in {"active", "accepted"} THEN asked \cup {j} ELSE asked
      BY <2>4 DEF ReadCurrent
    <3> DEFINE next == IF status = "keep" THEN row[j].status ELSE status
               chosen == NextSelected(next, selected, row[j].selected)
               to == [at |-> "write", item |-> {j}, status |-> status,
                      before |-> row[j].status,
                      next |-> [status |-> next, selected |-> chosen],
                      actions |-> OrUpdated(
                          DispositionActions(status, row[j].status)
                          \o SelectionActions(selected, chosen, row[j].selected)
                          \o NoteActions(noted))]
    <3>2. to.item = {j} /\ (to.status = "keep" => to.next.status = row[j].status)
      OBVIOUS
    <3>3. updater' = [updater EXCEPT ![u] = to]
      BY <3>1 DEF UpdaterStep
    <3> HIDE DEF to
    <3>4. ~Reviving(u, i)'
      <4>1. updater'[u] = to
        BY <2>1, <3>3
      <4>2. i \in to.item /\ to.status = "keep" => to.next.status = "rejected"
        BY <3>2
      <4>3. QED
        BY <4>1, <4>2 DEF Reviving
    <3>5. \A w \in Updater : w # u => ~Reviving(w, i)'
      BY <2>1, <3>3 DEF Reviving, Updating
    <3>6. row' = row
      BY <2>4 DEF ReadCurrent
    <3>7. QED
      BY <3>4, <3>5, <3>6
  <2>5. ASSUME NEW u \in Updater,
               Write(u) \/ LogAction(u) \/ AuditAction(u) \/ Reread(u) \/ Learn(u)
        PROVE  \A w \in Updater : ~Reviving(w, i)'
    <3>1. PICK to : to.at # "write" /\ updater' = [updater EXCEPT ![u] = to]
      <4>1. CASE Write(u)
        <5>1. updater' = [updater EXCEPT ![u] = [updater[u] EXCEPT !.at = "log"]]
          BY <4>1 DEF Write, UpdaterStep
        <5>2. [updater[u] EXCEPT !.at = "log"].at # "write"
          BY <2>1 DEF Updates
        <5>3. QED
          BY <5>1, <5>2
      <4>2. CASE LogAction(u)
        BY <2>1, <4>2 DEF LogAction, UpdaterStep, Updates
      <4>3. CASE AuditAction(u)
        BY <2>1, <4>3 DEF AuditAction, UpdaterStep, Updates
      <4>4. CASE Reread(u)
        <5>1. PICK to \in {[updater[u] EXCEPT !.at = "learn"], Done(IdleUpdater)} :
                  updater' = [updater EXCEPT ![u] = to]
          BY <4>4 DEF Reread, UpdaterStep
        <5>2. /\ [updater[u] EXCEPT !.at = "learn"].at # "write"
              /\ Done(IdleUpdater).at # "write"
          BY <2>1 DEF Updates, Done, IdleUpdater
        <5>3. QED
          BY <5>1, <5>2
      <4>5. CASE Learn(u)
        BY <2>1, <4>5 DEF Learn, UpdaterStep, Updates, Done, IdleUpdater
      <4>6. QED
        BY <2>5, <4>1, <4>2, <4>3, <4>4, <4>5
    <3>2. QED
      BY <1>1, <2>1, <3>1 DEF Reviving, Updating
  <2>6. ASSUME NEW u \in Updater, Write(u)
        PROVE  \/ row'[i].status = "rejected"
               \/ i \in updater[u].item /\ updater[u].status # "keep"
    <3>1. PICK j \in updater[u].item :
              /\ Updating(u, "write")
              /\ row' = [row EXCEPT ![j] = IF j \in Saved THEN updater[u].next ELSE @]
      BY <2>6 DEF Write
    <3>2. CASE j = i
      BY <1>1, <2>1, <3>1, <3>2 DEF Reviving
    <3>3. CASE j # i
      BY <1>1, <2>1, <3>1, <3>3
    <3>4. QED
      BY <3>2, <3>3
  <2>7. ASSUME NEW u \in Updater, LogAction(u) \/ AuditAction(u) \/ Reread(u) \/ Learn(u)
        PROVE  row' = row
    BY <2>7 DEF LogAction, AuditAction, Reread, Learn
  <2>8. CASE \E u \in Updater : UpdaterNext(u)
    BY <1>1, <2>4, <2>5, <2>6, <2>7, <2>8 DEF UpdaterNext
  <2>9. CASE \E v \in Reviser : ReviserNext(v)
    <3>1. updater' = updater /\ row' = row
      BY <2>9
      DEF ReviserNext, SelectUsable, ListExcluded, Generate, RecordRevision, MarkUsed,
          SaveAnswer, AuditRevision, ReviserStep
    <3>2. QED
      BY <1>1, <2>2, <3>1
  <2>10. CASE DeleteThread
    BY <2>2, <2>10 DEF DeleteThread
  <2>11. CASE Crash
    <3>1. row' = row /\ updater' = [u \in Updater |-> AfterCrash(updater[u], IdleUpdater)]
      BY <2>11 DEF Crash, stored
    <3>2. \A u \in Updater : updater'[u].at # "write"
      BY <3>1 DEF AfterCrash, Done, IdleUpdater
    <3>3. QED
      BY <1>1, <3>1, <3>2 DEF Reviving, Updating
  <2>12. CASE UNCHANGED vars
    BY <1>1, <2>2, <2>12 DEF vars, stored
  <2>13. QED
    BY <1>1, <2>2, <2>3, <2>8, <2>9, <2>10, <2>11, <2>12 DEF Next
<1>2. ASSUME IInv, [Next]_vars
      PROVE  [\A i \in Item : RejectionKept(i)]_vars
  BY <1>1, <1>2
<1>3. QED
  BY <1>2, Invariant, PTL DEF Spec, RejectionStands

=============================================================================
