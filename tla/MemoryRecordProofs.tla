-------------------------- MODULE MemoryRecordProofs --------------------------
(***************************************************************************)
(* What the tables say of memories when every request has ended, for every *)
(* set of requests and every number of chunks, as long as the process has  *)
(* not died: it would take with it what these statements rest on, which is *)
(* that a request owes the tables what is still missing in them.           *)
(*                                                                         *)
(* A part missing in a memory's chunks is owed by a request that fills it: *)
(* one whose next part is not behind it, with nothing in between that it   *)
(* would fail on.  A status that is not among a memory's actions is owed   *)
(* by the request that is about to log it.  A relation between two copies  *)
(* is owed by whichever of their creators has not looked for copies yet,   *)
(* or has the other one left to relate.                                    *)
(***************************************************************************)
EXTENDS MemoryProofs

-----------------------------------------------------------------------------
(* The inductive invariant                                                 *)

\* Parts owed to the chunks of a memory.
Filling(r, m) == At(r, "fill") /\ m \in req[r].left

Fills(r, m, i) ==
    /\ Filling(r, m)
    /\ req[r].part <= i
    /\ \A j \in req[r].part .. i : j \notin chunks[m]

Covered(m) == \A i \in (1 .. Parts) \ chunks[m] : \E r \in Request : Fills(r, m, i)
Untouched(m) == chunks[m] = {} /\ \A r \in Request : ~Filling(r, m)

Erases(r, m) == At(r, "erase") /\ m \in req[r].item

ChunksOwed(m) ==
    /\ Fresh(m) => chunks[m] = {}
    /\ row[m].text \in Text => Covered(m) \/ Untouched(m)
    /\ row[m].text = Erased => m \in forgot \/ \E r \in Request : Erases(r, m)

ChunkInv == \A m \in Request : ChunksOwed(m)

\* Statuses owed to the actions of a memory.
Logs(r, m, status) ==
    /\ req[r].at \in {"erase", "log"}
    /\ m \in req[r].item
    /\ req[r].status = status

Recorded(m, status) == status \in actions[m] \/ \E r \in Request : Logs(r, m, status)

StatusInv ==
    \A m \in Saved : /\ Recorded(m, row[m].status)
                     /\ row[m].text = Erased => Recorded(m, "forgotten")

\* Relations owed to copies: a creator that has not looked for copies yet.
Waits(q) ==
    \/ q.at = "log" /\ q.then = "get"
    \/ q.at = "get"
    \/ q.at \in {"chunks", "clear", "fill", "relate"} /\ q.then = "relate"

Relates(r, s) ==
    \/ Waits(req[r])
    \/ At(r, "relating") /\ s \in req[r].left
    \/ At(r, "failed")
    \/ <<r, s>> \in relations

CopyInv ==
    \A r, s \in Saved :
        /\ r # s /\ row[r].text = row[s].text
        /\ ~Recorded(r, "forgotten") /\ ~Recorded(s, "forgotten")
        => Relates(r, s) \/ Relates(s, r)

\* A request fills one memory, and relates the memory it has read.
Own(r, q) ==
    /\ q.at = "fill" => \E m \in Request : q.left = {m}
    /\ q.at = "relate" => q.then = "relate"
    /\ q.then = "relate" => r \in SeenBy(q)

OwnInv == \A r \in Request : Own(r, req[r])

OwedInv == ~crashed => ChunkInv /\ StatusInv /\ CopyInv

MInv == IInv /\ OwnInv /\ OwedInv

-----------------------------------------------------------------------------
(* The steps of a request, as far as they matter to what is owed           *)

\* Request r takes a step; nobody else does, and nothing becomes fresh.  A
\* creator that has not looked for copies still has not, has failed, or has
\* found those there are.
Goes(r) ==
    /\ \A s \in Request : s # r => req'[s] = req[s]
    /\ Own(r, req'[r])
    /\ crashed' = crashed
    /\ ~At(r, "failed")
    /\ Fresh(r)' => Fresh(r)
    /\ Waits(req[r]) =>
           \/ Waits(req'[r])
           \/ req'[r].at = "failed"
           \/ At(r, "relate") /\ req'[r].at = "relating" /\ req'[r].left = Copies(r)

\* A step that leaves the tables alone, of a request that owes nothing else.
Reads(r) ==
    /\ Goes(r)
    /\ UNCHANGED <<stored, forgot>>
    /\ req[r].at \notin {"fill", "log", "erase", "relating"}
    /\ req'[r].at # "fill"

\* The request is what it becomes.
LEMMA BecomesIs ==
    ASSUME IInv, NEW r \in Request, NEW q, Becomes(r, q)
    PROVE  req'[r] = q /\ \A s \in Request : s # r => req'[s] = req[s]
BY DEF IInv, TypeOK, Becomes

\* A request that goes on: if it is to relate its memory, with what it has seen.
LEMMA GoesOn ==
    ASSUME IInv, OwnInv, NEW r \in Request, NEW q, Becomes(r, q), crashed' = crashed,
           ~At(r, "failed"),
           q.at \in Unborn => Fresh(r),
           q.at = "fill" => \E m \in Request : q.left = {m},
           q.at = "relate" => q.then = "relate",
           q.then = "relate" => req[r].then = "relate" /\ q.seen = req[r].seen,
           Waits(req[r]) =>
               \/ Waits(q)
               \/ q.at = "failed"
               \/ At(r, "relate") /\ q.at = "relating" /\ q.left = Copies(r)
    PROVE  Goes(r)
BY BecomesIs DEF Goes, Own, OwnInv, SeenBy, Fresh

\* What Reading makes of a request.
LEMMA ReadingIs ==
    ASSUME NEW q \in Requests, NEW ms, NEW then
    PROVE  Reading(q, ms, then).at = "chunks" /\ Reading(q, ms, then).then = then
BY DEF Reading, Requests

\* An ended request.
LEMMA EndedIs ==
    ASSUME NEW outcome
    PROVE  Ended(outcome).at = outcome /\ Ended(outcome).then = "done"
BY DEF Ended, Idle

\* Requests that are made.
LEMMA StartReads ==
    ASSUME IInv, OwnInv, NEW r \in Request,
           \/ Read(r) \/ SelectCandidates(r) \/ StartCreate(r) \/ FindSample(r)
           \/ StartUpdate(r) \/ StartForget(r) \/ StartDelete(r) \/ StartMaintain(r)
    PROVE  Reads(r)
<1>1. At(r, "idle") /\ UNCHANGED <<stored, forgot, crashed>>
  <2>1. CASE Read(r) \/ SelectCandidates(r)
    BY <2>1 DEF Read, SelectCandidates, history
  <2>2. CASE StartCreate(r) \/ FindSample(r)
    BY <2>2 DEF StartCreate, FindSample, history
  <2>3. CASE StartUpdate(r)
    BY <2>3 DEF StartUpdate, StartOn
  <2>4. CASE StartForget(r) \/ StartDelete(r)
    BY <2>4 DEF StartForget, StartDelete, StartOn, history
  <2>5. CASE StartMaintain(r)
    BY <2>5 DEF StartMaintain, history
  <2>6. QED
    BY <2>1, <2>2, <2>3, <2>4, <2>5
<1>2. SUFFICES \E q : Becomes(r, q) /\ q.then # "relate" /\ q.at \in {"chunks", "find", "sample"}
  <2> SUFFICES ASSUME NEW q, Becomes(r, q), q.then # "relate", q.at \in {"chunks", "find", "sample"}
               PROVE  Reads(r)
    BY <1>2
  <2>1. ~Waits(req[r]) /\ ~At(r, "failed") /\ req[r].at \notin {"fill", "log", "erase", "relating"}
    BY <1>1 DEF Waits, At
  <2>2. Goes(r)
    BY <1>1, <2>1, GoesOn DEF At, Fresh, Unborn, Early
  <2>3. QED
    BY <1>1, <2>1, <2>2, BecomesIs DEF Reads
<1>3. Idle \in Requests /\ Idle.then = "done"
  BY IdleType DEF Idle
<1>4. CASE Read(r) \/ SelectCandidates(r)
  <2>1. CASE Read(r)
    <3>1. PICK ms \in SUBSET Saved : Becomes(r, Reading(Idle, ms, "done"))
      BY <2>1 DEF Read
    <3>2. QED
      BY <1>3, <3>1, ReadingIs
  <2>2. CASE SelectCandidates(r)
    <3> DEFINE ms == {m \in Saved : row[m].status \in Online}
    <3>1. Becomes(r, Reading(Idle, ms, "offer"))
      BY <2>2 DEF SelectCandidates
    <3> HIDE DEF ms
    <3>2. QED
      BY <1>3, <3>1, ReadingIs
  <2>3. QED
    BY <1>4, <2>1, <2>2
<1>5. CASE StartCreate(r)
  <2>1. PICK text, status :
            Becomes(r, [Idle EXCEPT !.at = "find", !.text = text, !.status = status])
    BY <1>5 DEF StartCreate
  <2>2. /\ [Idle EXCEPT !.at = "find", !.text = text, !.status = status].at = "find"
        /\ [Idle EXCEPT !.at = "find", !.text = text, !.status = status].then = "done"
    BY DEF Idle
  <2>3. QED
    BY <2>1, <2>2
<1>6. CASE FindSample(r)
  <2>1. PICK text :
            \/ Becomes(r, [[Idle EXCEPT !.text = text, !.status = "active"] EXCEPT !.at = "find"])
            \/ \E m : Becomes(r, [[Idle EXCEPT !.text = text, !.status = "active"]
                                      EXCEPT !.at = "sample", !.item = {m}])
    BY <1>6 DEF FindSample
  <2> DEFINE sample == [Idle EXCEPT !.text = text, !.status = "active"]
  <2>2. /\ [sample EXCEPT !.at = "find"].at = "find"
        /\ [sample EXCEPT !.at = "find"].then = "done"
        /\ \A m : /\ [sample EXCEPT !.at = "sample", !.item = {m}].at = "sample"
                  /\ [sample EXCEPT !.at = "sample", !.item = {m}].then = "done"
    BY DEF Idle
  <2>3. \/ Becomes(r, [sample EXCEPT !.at = "find"])
        \/ \E m : Becomes(r, [sample EXCEPT !.at = "sample", !.item = {m}])
    BY <2>1
  <2> HIDE DEF sample
  <2>4. QED
    BY <2>2, <2>3
<1>7. CASE StartUpdate(r) \/ StartForget(r) \/ StartDelete(r)
  <2>1. PICK m \in Saved, status \in RequestStatus, first \in {"write", "tombstone", "delete"} :
            Becomes(r, Reading([Idle EXCEPT !.item = {m}, !.status = status], {m}, first))
    BY <1>7 DEF StartUpdate, StartForget, StartDelete, StartOn, RequestStatus, Status
  <2> DEFINE start == [Idle EXCEPT !.item = {m}, !.status = status]
  <2>2. start \in Requests
    BY IdleType DEF Requests, Saved
  <2>3. Becomes(r, Reading(start, {m}, first))
    BY <2>1
  <2> HIDE DEF start
  <2>4. QED
    BY <2>2, <2>3, ReadingIs
<1>8. CASE StartMaintain(r)
  <2> DEFINE list == Reading(Idle, Saved, "sweep")
             pairs == {{m, n} : m, n \in {o \in Saved : row[o].status \in Online}}
  <2>1. Becomes(r, [list EXCEPT !.pairs = pairs])
    BY <1>8 DEF StartMaintain
  <2> HIDE DEF pairs
  <2>2. [list EXCEPT !.pairs = pairs].at = "chunks" /\ [list EXCEPT !.pairs = pairs].then = "sweep"
    BY <1>3 DEF Reading, Requests
  <2>3. QED
    BY <2>1, <2>2
<1>9. QED
  BY <1>4, <1>5, <1>6, <1>7, <1>8

\* Requests that end, and createMemory up to its INSERT.
LEMMA EndReads ==
    ASSUME IInv, OwnInv, NEW r \in Request,
           Offer(r) \/ EndMaintain(r) \/ GetSample(r) \/ FindExisting(r) \/ Reget(r)
    PROVE  Reads(r)
<1> DEFINE p == req[r]
<1>1. p \in Requests
  BY RequestFacts
<1>2. /\ p.at \in {"offer", "sweep", "sample", "find", "reget"}
      /\ UNCHANGED <<stored, forgot, crashed>>
      /\ GetSample(r) \/ FindExisting(r) => Fresh(r)
  BY DEF Offer, EndMaintain, GetSample, FindExisting, Reget, At, history, Fresh, Unborn, Early
<1>3. SUFFICES \E q : /\ Becomes(r, q)
                      /\ q.at \in IF Fresh(r) THEN {"chunks", "find", "log", "insert"}
                                 ELSE {"done", "chunks"}
                      /\ q.then = "relate" => p.then = "relate" /\ q.seen = p.seen
  <2> SUFFICES ASSUME NEW q, Becomes(r, q),
                      q.at \in IF Fresh(r) THEN {"chunks", "find", "log", "insert"}
                              ELSE {"done", "chunks"},
                      q.then = "relate" => p.then = "relate" /\ q.seen = p.seen
               PROVE  Reads(r)
    BY <1>3
  <2>1. ~Waits(p) /\ ~At(r, "failed")
    BY <1>2 DEF Waits, At
  <2>2. Goes(r)
    BY <1>2, <2>1, GoesOn DEF At, Unborn, Early
  <2>3. QED
    BY <1>2, <2>2, BecomesIs DEF Reads
<1>4. Done.at = "done" /\ Done.then = "done"
  BY EndedIs DEF Done
<1>5. CASE Offer(r) \/ EndMaintain(r)
  <2>1. ~Fresh(r)
    BY <1>5 DEF Offer, EndMaintain, At, Fresh, Unborn, Early
  <2>2. QED
    BY <1>4, <1>5, <2>1 DEF Offer, EndMaintain
<1>6. CASE GetSample(r)
  <2> DEFINE q1 == [p EXCEPT !.at = "find", !.item = {}]
             q2 == Reading(Idle, p.item \cap Saved, "done")
  <2>1. Becomes(r, q1) \/ Becomes(r, q2)
    BY <1>6 DEF GetSample
  <2>2. q1.at = "find" /\ q1.then = p.then /\ q1.seen = p.seen
    BY <1>1 DEF Requests
  <2>3. q2.at = "chunks" /\ q2.then = "done"
    BY IdleType, ReadingIs
  <2>4. Fresh(r)
    BY <1>2, <1>6
  <2> HIDE DEF q1, q2
  <2>5. QED
    BY <2>1, <2>2, <2>3, <2>4
<1>7. CASE FindExisting(r)
  <2> DEFINE q1 == [p EXCEPT !.at = "insert"]
             q2(m) == [p EXCEPT !.at = "log", !.then = "reget", !.item = {m},
                                !.status = row[m].status]
  <2>1. Becomes(r, q1) \/ \E m \in Request : Becomes(r, q2(m))
    BY <1>7 DEF FindExisting, Proceeds, Live, Saved
  <2>2. q1.at = "insert" /\ q1.then = p.then /\ q1.seen = p.seen
    BY <1>1 DEF Requests
  <2>3. \A m : q2(m).at = "log" /\ q2(m).then = "reget"
    BY <1>1 DEF Requests
  <2>4. Fresh(r)
    BY <1>2, <1>7
  <2> HIDE DEF q1, q2
  <2>5. QED
    BY <2>1, <2>2, <2>3, <2>4
<1>8. CASE Reget(r)
  <2>1. \/ Becomes(r, Done)
        \/ Becomes(r, Reading(Idle, req[r].item \cap Saved, "done"))
    BY <1>8 DEF Reget
  <2>2. ~Fresh(r)
    BY <1>8 DEF Reget, At, Fresh, Unborn, Early
  <2>3. QED
    BY <1>4, <2>1, <2>2, IdleType, ReadingIs
<1>9. QED
  BY <1>5, <1>6, <1>7, <1>8

\* createMemory reads its memory again, and looks for copies.
LEMMA CreatedReads ==
    ASSUME IInv, OwnInv, NEW r \in Request, GetCreated(r) \/ SelectOthers(r)
    PROVE  Reads(r)
<1> DEFINE p == req[r]
<1>1. p \in Requests
  BY RequestFacts
<1>2. p.at \in {"get", "relate"} /\ UNCHANGED <<stored, forgot, crashed>>
  BY DEF GetCreated, SelectOthers, At, history
<1>3. CASE GetCreated(r) /\ r \in Saved
  <2> DEFINE q == Reading(p, {r}, "relate")
  <2>1. Becomes(r, q)
    BY <1>3 DEF GetCreated
  <2>2. q.at = "chunks" /\ q.then = "relate"
    BY <1>1, ReadingIs
  <2>3. r \in SeenBy(q)
    <3>1. q.seen = [m \in Request |-> IF m \in {r} THEN row[m] ELSE NoRow]
      BY <1>1 DEF Reading, Requests
    <3>2. q.seen[r] = row[r]
      BY <3>1
    <3>3. QED
      BY <1>3, <3>2 DEF SeenBy, Saved
  <2> HIDE DEF q
  <2>4. req'[r] = q /\ \A s \in Request : s # r => req'[s] = req[s]
    BY <2>1, BecomesIs
  <2>5. QED
    BY <1>2, <2>2, <2>3, <2>4 DEF Reads, Goes, Own, Waits, At, Fresh, Unborn, Early
<1>4. CASE GetCreated(r) /\ r \notin Saved
  <2>1. Becomes(r, Ended("failed"))
    BY <1>4 DEF GetCreated
  <2>2. Goes(r)
    BY <1>2, <2>1, EndedIs, GoesOn DEF At, Unborn, Early
  <2>3. QED
    BY <1>2, <2>1, <2>2, BecomesIs, EndedIs DEF Reads
<1>5. CASE SelectOthers(r)
  <2> DEFINE q == [p EXCEPT !.at = "relating", !.left = Copies(r)]
  <2>1. Becomes(r, q) /\ At(r, "relate")
    BY <1>5 DEF SelectOthers
  <2>2. q.at = "relating" /\ q.left = Copies(r) /\ q.then = p.then /\ q.seen = p.seen
    BY <1>1 DEF Requests
  <2> HIDE DEF q
  <2>3. Goes(r)
    BY <1>2, <2>1, <2>2, GoesOn DEF At, Unborn, Early
  <2>4. QED
    BY <1>2, <2>1, <2>2, <2>3, BecomesIs DEF Reads
<1>6. QED
  BY <1>3, <1>4, <1>5

\* Hydration goes on to the next memory, or the request to what it reads for.
LEMMA HydratedIs ==
    ASSUME NEW p \in Requests, p.at \in {"chunks", "clear", "fill"}, Sound(p), Right(p),
           NEW q \in Requests, Same(p, q), q.then = p.then, q.status = p.status,
           q.todo \subseteq SeenBy(p)
    PROVE  /\ Hydrated(q).at \notin {"fill", "failed"} \cup Unborn
           /\ Hydrated(q).at = "relate" => Hydrated(q).then = "relate"
           /\ Hydrated(q).then = "relate" =>
                  p.then = "relate" /\ Hydrated(q).seen = p.seen
           /\ Waits(p) => Waits(Hydrated(q))
<1>1. CASE q.todo = {} /\ q.then = "done"
  BY <1>1, EndedIs DEF Hydrated, Continued, Done, Waits, Thens, Unborn, Early
<1>2. CASE q.todo = {} /\ q.then # "done"
  <2>1. Hydrated(q) = [q EXCEPT !.at = q.then]
    BY <1>2 DEF Hydrated, Continued
  <2>2. /\ Hydrated(q).at = p.then /\ Hydrated(q).then = p.then
        /\ Hydrated(q).seen = p.seen /\ p.then \in Thens \ {"done"}
    BY <1>2, <2>1 DEF Requests, Same, Thens
  <2>3. QED
    BY <2>2 DEF Waits, Thens, Unborn, Early
<1>3. CASE q.todo # {}
  <2>1. Hydrated(q) = [q EXCEPT !.at = "clear"]
    BY <1>3 DEF Hydrated
  <2>2. Hydrated(q).at = "clear" /\ Hydrated(q).then = p.then /\ Hydrated(q).seen = p.seen
    BY <2>1 DEF Requests, Same
  <2>3. QED
    BY <2>2 DEF Waits, Unborn, Early
<1>4. QED
  BY <1>1, <1>2, <1>3

\* The SELECT of chunks.
LEMMA ChunksReads ==
    ASSUME IInv, OwnInv, NEW r \in Request, SelectChunks(r)
    PROVE  Reads(r)
<1> DEFINE p == req[r]
           missing == {m \in SeenBy(p) : p.seen[m].status # "forgotten" /\ chunks[m] = {}}
           q == [p EXCEPT !.todo = missing]
<1>1. p \in Requests /\ Sound(p) /\ Right(p) /\ p.at = "chunks"
  BY RequestFacts DEF SelectChunks, At
<1>2. q \in Requests /\ Same(p, q) /\ q.then = p.then /\ q.status = p.status
      /\ q.todo \subseteq SeenBy(p)
  BY <1>1 DEF Requests, Same, SeenBy
<1>3. Becomes(r, Hydrated(q)) /\ UNCHANGED <<stored, forgot, crashed>>
  BY DEF SelectChunks, history
<1> HIDE DEF q
<1>4. /\ Hydrated(q).at \notin {"fill", "failed"} \cup Unborn
      /\ Hydrated(q).at = "relate" => Hydrated(q).then = "relate"
      /\ Hydrated(q).then = "relate" => p.then = "relate" /\ Hydrated(q).seen = p.seen
      /\ Waits(p) => Waits(Hydrated(q))
  BY <1>1, <1>2, HydratedIs
<1>5. Goes(r)
  BY <1>1, <1>3, <1>4, GoesOn DEF At, Unborn, Early
<1>6. QED
  BY <1>1, <1>3, <1>4, <1>5, BecomesIs DEF Reads

\* The DELETE of chunks: the request fills the memory next, from its first part,
\* unless what it has seen of it was a tombstone.
LEMMA ClearMoves ==
    ASSUME IInv, OwnInv, NEW r \in Request, ClearChunks(r)
    PROVE  /\ Goes(r) /\ At(r, "clear")
           /\ UNCHANGED <<row, relations, actions, forgot>>
           /\ \E m \in SeenBy(req[r]) :
                  /\ chunks' = [chunks EXCEPT ![m] = {}]
                  /\ \/ req[r].seen[m].text = Erased /\ req'[r].at # "fill"
                     \/ req'[r].at = "fill" /\ req'[r].part = 1 /\ req'[r].left = {m}
<1> DEFINE p == req[r]
<1>1. p \in Requests /\ Sound(p) /\ Right(p) /\ p.at = "clear"
  BY RequestFacts DEF ClearChunks, At
<1>2. PICK m \in p.todo :
          /\ chunks' = [chunks EXCEPT ![m] = {}]
          /\ Becomes(r, IF p.seen[m].text = Erased
                        THEN Hydrated([p EXCEPT !.todo = @ \ {m}])
                        ELSE [p EXCEPT !.at = "fill", !.part = 1, !.todo = @ \ {m},
                                       !.left = {m}])
  BY DEF ClearChunks
<1>3. m \in SeenBy(p) /\ m \in Request /\ p.todo \subseteq SeenBy(p)
  BY <1>1 DEF Sound, SeenBy
<1>4. UNCHANGED <<row, relations, actions, forgot, crashed>>
  BY DEF ClearChunks, history
<1>5. CASE p.seen[m].text = Erased
  <2> DEFINE q == [p EXCEPT !.todo = @ \ {m}]
  <2>1. q \in Requests /\ Same(p, q) /\ q.then = p.then /\ q.status = p.status
        /\ q.todo \subseteq SeenBy(p)
    BY <1>1, <1>3 DEF Requests, Same
  <2>2. Becomes(r, Hydrated(q))
    BY <1>2, <1>5
  <2> HIDE DEF q
  <2>3. /\ Hydrated(q).at \notin {"fill", "failed"} \cup Unborn
        /\ Hydrated(q).at = "relate" => Hydrated(q).then = "relate"
        /\ Hydrated(q).then = "relate" => p.then = "relate" /\ Hydrated(q).seen = p.seen
        /\ Waits(p) => Waits(Hydrated(q))
    BY <1>1, <2>1, HydratedIs
  <2>4. Goes(r)
    BY <1>1, <1>4, <2>2, <2>3, GoesOn DEF At, Unborn, Early
  <2>5. req'[r].at # "fill"
    BY <2>2, <2>3, BecomesIs
  <2>6. QED
    BY <1>1, <1>2, <1>3, <1>4, <1>5, <2>4, <2>5 DEF At
<1>6. CASE p.seen[m].text # Erased
  <2> DEFINE q == [p EXCEPT !.at = "fill", !.part = 1, !.todo = @ \ {m}, !.left = {m}]
  <2>1. /\ q.at = "fill" /\ q.part = 1 /\ q.left = {m} /\ q.seen = p.seen
        /\ q.then = p.then
    BY <1>1 DEF Requests
  <2>2. Becomes(r, q)
    BY <1>2, <1>6
  <2> HIDE DEF q
  <2>3. Waits(p) => Waits(q)
    BY <1>1, <2>1 DEF Waits
  <2>4. Goes(r)
    BY <1>1, <1>3, <1>4, <2>1, <2>2, <2>3, GoesOn DEF At, Unborn, Early
  <2>5. req'[r] = q
    BY <2>2, BecomesIs
  <2>6. QED
    BY <1>1, <1>2, <1>3, <1>4, <2>1, <2>4, <2>5 DEF At
<1>7. QED
  BY <1>5, <1>6

\* The INSERT of a chunk: the request fails on one that is there, or goes on
\* with the next part, or has filled the memory.
LEMMA InsertMoves ==
    ASSUME IInv, OwnInv, NEW r \in Request, InsertChunk(r)
    PROVE  /\ Goes(r) /\ At(r, "fill")
           /\ UNCHANGED <<row, relations, actions, forgot>>
           /\ req[r].part \in 1 .. Parts
           /\ \E m \in SeenBy(req[r]) :
                  /\ req[r].left = {m}
                  /\ \/ /\ req[r].part \in chunks[m] /\ chunks' = chunks
                        /\ req'[r].at # "fill"
                     \/ /\ req[r].part \notin chunks[m]
                        /\ chunks' = [chunks EXCEPT ![m] = @ \cup {req[r].part}]
                        /\ \/ req[r].part = Parts /\ req'[r].at # "fill"
                           \/ /\ req'[r].at = "fill" /\ req'[r].left = {m}
                              /\ req'[r].part = req[r].part + 1
<1> DEFINE p == req[r]
<1>1. p \in Requests /\ Sound(p) /\ Right(p) /\ p.at = "fill" /\ p.part \in 1 .. Parts
  <2>1. p \in Requests /\ Sound(p) /\ Right(p) /\ p.at = "fill"
    BY RequestFacts DEF InsertChunk, At
  <2>2. QED
    BY <2>1, TextAssumption DEF Sound, Requests
<1>2. PICK m \in Request : p.left = {m}
  BY <1>1 DEF OwnInv, Own, At
<1>3. m \in SeenBy(p)
  <2>1. p.seen[m].text \in Text
    BY <1>1, <1>2 DEF Sound
  <2>2. QED
    BY <1>1, <2>1, SeenFacts, TextAssumption
<1>4. IF p.part \in chunks[m]
      THEN Becomes(r, Ended("failed")) /\ UNCHANGED chunks
      ELSE /\ chunks' = [chunks EXCEPT ![m] = @ \cup {p.part}]
           /\ Becomes(r, IF LastPart(p.part)
                         THEN Hydrated([p EXCEPT !.part = 0, !.left = {}])
                         ELSE [p EXCEPT !.part = @ + 1])
  BY <1>2 DEF InsertChunk
<1>5. UNCHANGED <<row, relations, actions, forgot, crashed>>
  BY DEF InsertChunk, history
<1>6. CASE p.part \in chunks[m]
  <2>1. Becomes(r, Ended("failed")) /\ chunks' = chunks
    BY <1>4, <1>6
  <2>2. Goes(r)
    BY <1>1, <1>5, <2>1, EndedIs, GoesOn DEF At, Unborn, Early
  <2>3. req'[r].at # "fill"
    BY <2>1, BecomesIs, EndedIs
  <2>4. QED
    BY <1>1, <1>2, <1>3, <1>5, <1>6, <2>1, <2>2, <2>3 DEF At
<1>7. CASE p.part \notin chunks[m] /\ LastPart(p.part)
  <2> DEFINE q == [p EXCEPT !.part = 0, !.left = {}]
  <2>1. q \in Requests /\ Same(p, q) /\ q.then = p.then /\ q.status = p.status
        /\ q.todo \subseteq SeenBy(p)
    <3>1. 0 \in 0 .. Parts
      BY TextAssumption
    <3>2. q \in Requests
      BY <1>1, <3>1 DEF Requests
    <3>3. p.todo \subseteq SeenBy(p)
      BY <1>1 DEF Sound
    <3>4. QED
      BY <1>1, <3>2, <3>3 DEF Requests, Same
  <2>2. Becomes(r, Hydrated(q))
    BY <1>4, <1>7
  <2> HIDE DEF q
  <2>3. /\ Hydrated(q).at \notin {"fill", "failed"} \cup Unborn
        /\ Hydrated(q).at = "relate" => Hydrated(q).then = "relate"
        /\ Hydrated(q).then = "relate" => p.then = "relate" /\ Hydrated(q).seen = p.seen
        /\ Waits(p) => Waits(Hydrated(q))
    BY <1>1, <2>1, HydratedIs
  <2>4. Goes(r)
    BY <1>1, <1>5, <2>2, <2>3, GoesOn DEF At, Unborn, Early
  <2>5. req'[r].at # "fill"
    BY <2>2, <2>3, BecomesIs
  <2>6. QED
    BY <1>1, <1>2, <1>3, <1>4, <1>5, <1>7, <2>4, <2>5 DEF At, LastPart
<1>8. CASE p.part \notin chunks[m] /\ ~LastPart(p.part)
  <2> DEFINE q == [p EXCEPT !.part = @ + 1]
  <2>1. /\ q.at = "fill" /\ q.part = p.part + 1 /\ q.left = p.left /\ q.seen = p.seen
        /\ q.then = p.then
    BY <1>1 DEF Requests
  <2>2. Becomes(r, q)
    BY <1>4, <1>8
  <2> HIDE DEF q
  <2>3. Waits(p) => Waits(q)
    BY <1>1, <2>1 DEF Waits
  <2>4. Goes(r)
    BY <1>1, <1>2, <1>5, <2>1, <2>2, <2>3, GoesOn DEF At, Unborn, Early
  <2>5. req'[r] = q
    BY <2>2, BecomesIs
  <2>6. QED
    BY <1>1, <1>2, <1>3, <1>4, <1>5, <1>8, <2>1, <2>4, <2>5 DEF At
<1>9. QED
  BY <1>6, <1>7, <1>8

\* The INSERT of a memory: its creator owes its status and its relations.
LEMMA CreateMoves ==
    ASSUME IInv, OwnInv, NEW r \in Request, InsertMemory(r)
    PROVE  /\ Goes(r) /\ At(r, "insert") /\ Waits(req'[r])
           /\ r \notin Saved /\ chunks[r] \in SUBSET (1 .. Parts)
           /\ UNCHANGED <<chunks, relations, actions, forgot>>
           /\ req[r].text \in Text
           /\ \E status : /\ row' = [row EXCEPT ![r] = [status |-> status,
                                                        text |-> req[r].text]]
                          /\ req'[r].at = "log" /\ r \in req'[r].item
                          /\ req'[r].status = status
<1> DEFINE p == req[r]
<1>1. p \in Requests /\ Sound(p) /\ p.at = "insert" /\ chunks[r] \in SUBSET (1 .. Parts)
  BY RequestFacts DEF InsertMemory, At
<1>2. r \notin Saved /\ p.text \in Text
  BY <1>1, SavedIsBorn DEF Fresh, Unborn, Early, Sound
<1>3. PICK status :
          /\ row' = [row EXCEPT ![r] = [status |-> status, text |-> p.text]]
          /\ Becomes(r, [p EXCEPT !.at = "log", !.then = "get", !.item = {r}, !.status = status])
  BY DEF InsertMemory
<1>4. UNCHANGED <<chunks, relations, actions, forgot, crashed>>
  BY DEF InsertMemory, history
<1> DEFINE q == [p EXCEPT !.at = "log", !.then = "get", !.item = {r}, !.status = status]
<1>5. q.at = "log" /\ q.then = "get" /\ q.item = {r} /\ q.status = status /\ Becomes(r, q)
  BY <1>1, <1>3 DEF Requests
<1> HIDE DEF q
<1>6. Waits(q)
  BY <1>5 DEF Waits
<1>7. Goes(r)
  BY <1>1, <1>4, <1>5, <1>6, GoesOn DEF At, Unborn, Early
<1>8. req'[r] = q
  BY <1>5, BecomesIs
<1>9. QED
  BY <1>1, <1>2, <1>3, <1>4, <1>5, <1>6, <1>7, <1>8 DEF At

\* addMemoryAction: the status that was owed is written.
LEMMA LogMoves ==
    ASSUME IInv, OwnInv, NEW r \in Request, LogAction(r)
    PROVE  /\ Goes(r) /\ At(r, "log") /\ req'[r].at # "fill"
           /\ UNCHANGED <<row, chunks, relations, forgot>>
           /\ \E m \in Request :
                  /\ \A n \in req[r].item : n = m
                  /\ actions' = [actions EXCEPT ![m] = @ \cup {req[r].status}]
<1> DEFINE p == req[r]
<1>1. p \in Requests /\ Sound(p) /\ p.at = "log"
  BY RequestFacts DEF LogAction, At
<1>2. PICK m \in p.item : actions' = [actions EXCEPT ![m] = @ \cup {p.status}]
  BY DEF LogAction
<1>3. m \in Request /\ \A n \in p.item : n = m
  BY <1>1 DEF Sound, Requests
<1>4. UNCHANGED <<row, chunks, relations, forgot, crashed>>
  BY DEF LogAction, history
<1> DEFINE q == [p EXCEPT !.at = p.then]
<1>5. q.at = p.then /\ q.then = p.then /\ q.seen = p.seen /\ p.then \in Thens /\ Becomes(r, q)
  BY <1>1 DEF Requests, Thens, LogAction, Proceeds
<1> HIDE DEF q
<1>6. Waits(p) => Waits(q)
  BY <1>1, <1>5 DEF Waits
<1>7. Goes(r)
  BY <1>1, <1>4, <1>5, <1>6, GoesOn DEF At, Thens, Unborn, Early
<1>8. req'[r] = q
  BY <1>5, BecomesIs
<1>9. QED
  BY <1>1, <1>2, <1>3, <1>4, <1>5, <1>7, <1>8 DEF At, Thens

\* The relation to a copy is written, until none is left.
LEMMA RelateMoves ==
    ASSUME IInv, OwnInv, NEW r \in Request, Relate(r)
    PROVE  /\ Goes(r) /\ At(r, "relating") /\ req'[r].at # "fill"
           /\ UNCHANGED <<row, chunks, actions, forgot>>
           /\ \/ req[r].left = {} /\ relations' = relations
              \/ \E m \in req[r].left :
                     /\ relations' = relations \cup {<<r, m>>}
                     /\ req'[r].at = "relating" /\ req'[r].left = req[r].left \ {m}
<1> DEFINE p == req[r]
<1>1. p \in Requests /\ p.at = "relating" /\ ~Waits(p)
  BY RequestFacts DEF Relate, At, Waits
<1>2. UNCHANGED <<row, chunks, actions, forgot, crashed>>
  BY DEF Relate, history
<1>3. CASE p.left = {}
  <2> DEFINE q == [p EXCEPT !.at = "reget"]
  <2>1. q.at = "reget" /\ q.then = p.then /\ q.seen = p.seen /\ Becomes(r, q)
        /\ relations' = relations
    BY <1>1, <1>3 DEF Requests, Relate, Proceeds
  <2> HIDE DEF q
  <2>2. Goes(r)
    BY <1>1, <1>2, <2>1, GoesOn DEF At, Unborn, Early
  <2>3. req'[r] = q
    BY <2>1, BecomesIs
  <2>4. QED
    BY <1>1, <1>2, <1>3, <2>1, <2>2, <2>3 DEF At
<1>4. CASE p.left # {}
  <2>1. PICK m \in p.left : /\ relations' = relations \cup {<<r, m>>}
                            /\ Becomes(r, [p EXCEPT !.left = @ \ {m}])
    BY <1>4 DEF Relate
  <2> DEFINE q == [p EXCEPT !.left = @ \ {m}]
  <2>2. /\ q.at = "relating" /\ q.then = p.then /\ q.seen = p.seen /\ q.left = p.left \ {m}
        /\ Becomes(r, q)
    BY <1>1, <2>1 DEF Requests
  <2> HIDE DEF q
  <2>3. Goes(r)
    BY <1>1, <1>2, <2>2, GoesOn DEF At, Unborn, Early
  <2>4. req'[r] = q
    BY <2>2, BecomesIs
  <2>5. QED
    BY <1>1, <1>2, <2>1, <2>2, <2>3, <2>4 DEF At
<1>5. QED
  BY <1>3, <1>4

\* An UPDATE of a status, by updateMemory or maintainMemories: the request owes
\* it to the actions of the memory.
LEMMA StatusMoves ==
    ASSUME IInv, OwnInv, NEW r \in Request, Write(r) \/ Archive(r) \/ MoveOfPair(r)
    PROVE  /\ Goes(r) /\ req[r].at \in {"write", "sweep"}
           /\ UNCHANGED <<chunks, relations, actions, forgot>>
           /\ \E m \in Request, status \in {req'[r].status} :
                  /\ row' = IF m \in Saved THEN [row EXCEPT ![m].status = status] ELSE row
                  /\ req'[r].at = "log" /\ m \in req'[r].item
<1> DEFINE p == req[r]
<1>1. p \in Requests /\ p.at \in {"write", "sweep"} /\ ~Waits(p)
  BY RequestFacts DEF Write, Archive, MoveOfPair, At, Waits
<1>2. UNCHANGED <<chunks, relations, actions, forgot, crashed>>
  BY DEF Write, Archive, MoveOfPair, Moves, history
<1>3. ASSUME NEW q, Becomes(r, q), q.at = "log", q.then # "relate",
             NEW m \in q.item, m \in Request,
             row' = IF m \in Saved THEN [row EXCEPT ![m].status = q.status] ELSE row
      PROVE  /\ Goes(r)
             /\ \E n \in Request, status \in {req'[r].status} :
                    /\ row' = IF n \in Saved THEN [row EXCEPT ![n].status = status] ELSE row
                    /\ req'[r].at = "log" /\ n \in req'[r].item
  <2>1. Goes(r)
    BY <1>1, <1>2, <1>3, GoesOn DEF At, Unborn, Early
  <2>2. req'[r] = q
    BY <1>3, BecomesIs
  <2>3. QED
    BY <1>3, <2>1, <2>2
<1>4. CASE Write(r)
  <2>1. PICK m \in p.item :
            LET status == NextStatus(p.status, p.seen[m].status) IN
            /\ row' = IF m \in Saved THEN [row EXCEPT ![m].status = status] ELSE row
            /\ Becomes(r, [p EXCEPT !.at = "log", !.then = "reget", !.status = status])
    BY <1>4 DEF Write
  <2> DEFINE status == NextStatus(p.status, p.seen[m].status)
             q == [p EXCEPT !.at = "log", !.then = "reget", !.status = status]
  <2>2. /\ q.at = "log" /\ q.then = "reget" /\ q.item = p.item /\ q.status = status
        /\ Becomes(r, q) /\ m \in Request
        /\ row' = IF m \in Saved THEN [row EXCEPT ![m].status = status] ELSE row
    BY <1>1, <2>1 DEF Requests
  <2> HIDE DEF q, status
  <2>3. QED
    BY <1>1, <1>2, <1>3, <2>1, <2>2
<1>5. CASE Archive(r)
  <2>1. PICK m \in Request :
            /\ row' = IF m \in Saved THEN [row EXCEPT ![m].status = "archived"] ELSE row
            /\ Becomes(r, [Maintained(r, m, "archived") EXCEPT !.todo = @ \cup {m}])
    BY <1>5 DEF Archive, Moves, SeenBy
  <2> DEFINE n == Maintained(r, m, "archived")
             q == [n EXCEPT !.todo = @ \cup {m}]
  <2>2. n = [p EXCEPT !.at = "log", !.then = "sweep", !.item = {m}, !.status = "archived"]
    BY DEF Maintained
  <2>3. q.at = "log" /\ q.then = "sweep" /\ q.item = {m} /\ q.status = "archived"
    BY <1>1, <2>2 DEF Requests
  <2>4. Becomes(r, q)
    BY <2>1
  <2> HIDE DEF q
  <2>5. QED
    BY <1>1, <1>2, <1>3, <2>1, <2>3, <2>4
<1>6. CASE MoveOfPair(r)
  <2>1. PICK pair \in p.pairs, status \in {"archived", "suspended"} :
            \E m \in pair :
                /\ row' = IF m \in Saved THEN [row EXCEPT ![m].status = status] ELSE row
                /\ Becomes(r, [Maintained(r, m, status) EXCEPT !.pairs = @ \ {pair},
                                                               !.todo = SeenBy(req[r])])
    BY <1>6 DEF MoveOfPair, Moves
  <2>2. PICK m \in pair :
            /\ row' = IF m \in Saved THEN [row EXCEPT ![m].status = status] ELSE row
            /\ Becomes(r, [Maintained(r, m, status) EXCEPT !.pairs = @ \ {pair},
                                                           !.todo = SeenBy(req[r])])
    BY <2>1
  <2> DEFINE n == Maintained(r, m, status)
             q == [n EXCEPT !.pairs = @ \ {pair}, !.todo = SeenBy(req[r])]
  <2>3. n = [p EXCEPT !.at = "log", !.then = "sweep", !.item = {m}, !.status = status]
    BY DEF Maintained
  <2>4. q.at = "log" /\ q.then = "sweep" /\ q.item = {m} /\ q.status = status /\ m \in Request
    BY <1>1, <2>1, <2>3 DEF Requests
  <2>5. Becomes(r, q)
    BY <2>2
  <2> HIDE DEF q
  <2>6. QED
    BY <1>1, <1>2, <1>3, <2>2, <2>4, <2>5
<1>7. QED
  BY <1>4, <1>5, <1>6

\* The UPDATE to a tombstone: the request owes the actions the status, and the
\* memory the deletion of its chunks.
LEMMA EntombMoves ==
    ASSUME IInv, OwnInv, NEW r \in Request, Entomb(r)
    PROVE  /\ Goes(r) /\ At(r, "tombstone")
           /\ UNCHANGED <<chunks, relations, actions, forgot>>
           /\ \E m \in Request :
                  /\ row' = IF m \in Saved THEN [row EXCEPT ![m] = Tombstone(m)] ELSE row
                  /\ req'[r].at = "erase" /\ m \in req'[r].item
                  /\ req'[r].status = "forgotten"
<1> DEFINE p == req[r]
           q == [p EXCEPT !.at = "erase"]
<1>1. p \in Requests /\ Sound(p) /\ p.at = "tombstone" /\ ~Waits(p)
  BY RequestFacts DEF Entomb, At, Waits
<1>2. PICK m \in p.item : row' = IF m \in Saved THEN [row EXCEPT ![m] = Tombstone(m)] ELSE row
  BY DEF Entomb
<1>3. /\ q.at = "erase" /\ q.then = p.then /\ q.seen = p.seen /\ q.item = p.item
      /\ q.status = "forgotten" /\ Becomes(r, q) /\ m \in Request
  BY <1>1, <1>2 DEF Requests, Sound, Entomb, Proceeds
<1> HIDE DEF q
<1>4. UNCHANGED <<chunks, relations, actions, forgot, crashed>>
  BY DEF Entomb, history
<1>5. Goes(r)
  BY <1>1, <1>3, <1>4, GoesOn DEF At, Unborn, Early
<1>6. req'[r] = q
  BY <1>3, BecomesIs
<1>7. QED
  BY <1>1, <1>2, <1>3, <1>4, <1>5, <1>6 DEF At

\* The deletion of the chunks of a tombstone, or of a memory that is gone.
LEMMA EraseMoves ==
    ASSUME IInv, OwnInv, NEW r \in Request, EraseChunks(r)
    PROVE  /\ Goes(r) /\ At(r, "erase") /\ req'[r].at = "log"
           /\ UNCHANGED <<row, relations, actions>>
           /\ forgot' = forgot \cup req[r].item
           /\ req'[r].item = req[r].item /\ req'[r].status = req[r].status
           /\ \E m \in Request : /\ row[m].text \notin Text
                                 /\ chunks' = [chunks EXCEPT ![m] = {}]
<1> DEFINE p == req[r]
           q == [p EXCEPT !.at = "log", !.then = "reget"]
<1>1. p \in Requests /\ Right(p) /\ p.at = "erase" /\ ~Waits(p)
  BY RequestFacts DEF EraseChunks, At, Waits
<1>2. PICK m \in p.item : chunks' = [chunks EXCEPT ![m] = {}]
  BY DEF EraseChunks
<1>3. m \in Request /\ row[m].text \notin Text
  BY <1>1 DEF Right, Requests
<1>4. /\ q.at = "log" /\ q.then = "reget" /\ q.item = p.item /\ q.status = p.status
      /\ Becomes(r, q)
  BY <1>1 DEF Requests, EraseChunks
<1> HIDE DEF q
<1>5. UNCHANGED <<row, relations, actions, crashed>> /\ forgot' = forgot \cup p.item
  BY DEF EraseChunks
<1>6. Goes(r)
  BY <1>1, <1>4, <1>5, GoesOn DEF At, Unborn, Early
<1>7. req'[r] = q
  BY <1>4, BecomesIs
<1>8. QED
  BY <1>1, <1>2, <1>3, <1>4, <1>5, <1>6, <1>7 DEF At

\* The transaction that deletes a sample, or its refusal.
LEMMA DeleteMoves ==
    ASSUME IInv, OwnInv, NEW r \in Request, Delete(r)
    PROVE  /\ Goes(r) /\ At(r, "delete") /\ req'[r].at \in {"done", "failed"}
           /\ forgot' = forgot
           /\ \/ UNCHANGED stored
              \/ \E m \in Request :
                     /\ ~Fresh(m)
                     /\ row' = [row EXCEPT ![m] = NoRow]
                     /\ chunks' = [chunks EXCEPT ![m] = {}]
                     /\ relations' = {pair \in relations : m \notin {pair[1], pair[2]}}
                     /\ actions' = [actions EXCEPT ![m] = {}]
<1> DEFINE p == req[r]
<1>1. p \in Requests /\ Right(p) /\ p.at = "delete" /\ ~Waits(p)
  BY RequestFacts DEF Delete, At, Waits
<1>2. PICK m \in p.item :
          IF p.seen[m].text \in Sample
          THEN /\ row' = [row EXCEPT ![m] = NoRow]
               /\ chunks' = [chunks EXCEPT ![m] = {}]
               /\ relations' = {pair \in relations : m \notin {pair[1], pair[2]}}
               /\ actions' = [actions EXCEPT ![m] = {}]
               /\ Becomes(r, Done)
          ELSE Becomes(r, Ended("failed")) /\ UNCHANGED stored
  BY DEF Delete
<1>3. m \in Request /\ ~Fresh(m)
  BY <1>1 DEF Right, Knows, Requests
<1>4. UNCHANGED <<forgot, crashed>>
  BY DEF Delete, history
<1>5. PICK outcome \in {"done", "failed"} : Becomes(r, Ended(outcome))
  BY <1>2 DEF Done
<1>6. Goes(r)
  BY <1>1, <1>4, <1>5, EndedIs, GoesOn DEF At, Unborn, Early
<1>7. req'[r].at \in {"done", "failed"}
  BY <1>5, BecomesIs, EndedIs
<1>8. QED
  BY <1>1, <1>2, <1>3, <1>4, <1>6, <1>7 DEF At

\* Every step of a request is one of these.
LEMMA MovesOf ==
    ASSUME NEW r \in Request,
           Hydrate(r) \/ Retrieve(r) \/ Create(r) \/ Change(r) \/ Maintain(r)
    PROVE  \/ Read(r) \/ SelectCandidates(r) \/ StartCreate(r) \/ FindSample(r)
              \/ StartUpdate(r) \/ StartForget(r) \/ StartDelete(r) \/ StartMaintain(r)
           \/ Offer(r) \/ EndMaintain(r) \/ GetSample(r) \/ FindExisting(r) \/ Reget(r)
           \/ GetCreated(r) \/ SelectOthers(r) \/ SelectChunks(r)
           \/ ClearChunks(r) \/ InsertChunk(r)
           \/ InsertMemory(r) \/ LogAction(r) \/ Relate(r)
           \/ Write(r) \/ Archive(r) \/ MoveOfPair(r)
           \/ Entomb(r) \/ EraseChunks(r) \/ Delete(r)
BY DEF Hydrate, Retrieve, Create, Change, Maintain

-----------------------------------------------------------------------------
(* What is owed to the chunks                                              *)

\* Where a step fills and clears nothing of a memory, what is owed stays owed.
LEMMA OtherChunks ==
    ASSUME NEW m \in Request, NEW r \in Request,
           \A s \in Request : s # r => req'[s] = req[s],
           ~Filling(r, m), ~Filling(r, m)', chunks'[m] = chunks[m]
    PROVE  /\ Covered(m) => Covered(m)'
           /\ Untouched(m) => Untouched(m)'
<1>1. \A s \in Request : Filling(s, m) => s # r /\ Filling(s, m)' /\ req'[s] = req[s]
  BY DEF Filling, At
<1>2. \A s \in Request : Filling(s, m)' => Filling(s, m)
  BY DEF Filling, At
<1>3. \A s \in Request, i \in 1 .. Parts : Fills(s, m, i) => Fills(s, m, i)'
  BY <1>1 DEF Fills
<1>4. QED
  BY <1>2, <1>3 DEF Covered, Untouched

TextKept(r, m) ==
    \/ row'[m].text = row[m].text
    \/ row'[m].text = Erased /\ Erases(r, m)'

\* A step that touches nothing of a memory, or makes it a tombstone.
LEMMA ChunksKept ==
    ASSUME NEW m \in Request, NEW r \in Request, Goes(r), ChunksOwed(m),
           ~Filling(r, m), ~Filling(r, m)', chunks'[m] = chunks[m],
           TextKept(r, m),
           m \in forgot \/ Erases(r, m) => m \in forgot'
    PROVE  ChunksOwed(m)'
<1>1. \A s \in Request : s # r => req'[s] = req[s]
  BY DEF Goes
<1>2. Fresh(m)' => Fresh(m)
  BY <1>1 DEF Goes, Fresh
<1>3. (Covered(m) => Covered(m)') /\ (Untouched(m) => Untouched(m)')
  BY <1>1, OtherChunks
<1>4. \A s \in Request : Erases(s, m) => Erases(s, m)' \/ m \in forgot'
  BY <1>1 DEF Erases, At
<1>5. CASE row'[m].text = row[m].text
  BY <1>2, <1>3, <1>4, <1>5 DEF ChunksOwed
<1>6. CASE row'[m].text = Erased /\ Erases(r, m)'
  BY <1>2, <1>6, TextAssumption DEF ChunksOwed
<1>7. QED
  BY <1>5, <1>6 DEF TextKept

LEMMA ChunksRead ==
    ASSUME IInv, ChunkInv, NEW r \in Request, Reads(r)
    PROVE  ChunkInv'
<1> SUFFICES ASSUME NEW m \in Request
             PROVE  ChunksOwed(m)'
  BY DEF ChunkInv
<1>1. ChunksOwed(m) /\ Goes(r)
  BY DEF ChunkInv, Reads
<1>2. ~Filling(r, m) /\ ~Filling(r, m)' /\ ~Erases(r, m)
  BY DEF Reads, Filling, Erases, At
<1>3. chunks' = chunks /\ TextKept(r, m) /\ forgot' = forgot
  BY DEF Reads, stored, TextKept
<1>4. QED
  BY <1>1, <1>2, <1>3, ChunksKept

\* Steps that write a status, an action or a relation.
LEMMA ChunksNoted ==
    ASSUME IInv, OwnInv, ChunkInv, NEW r \in Request,
           LogAction(r) \/ Relate(r) \/ Write(r) \/ Archive(r) \/ MoveOfPair(r)
    PROVE  ChunkInv'
<1> SUFFICES ASSUME NEW m \in Request
             PROVE  ChunksOwed(m)'
  BY DEF ChunkInv
<1>1. ChunksOwed(m) /\ TypeOK
  BY DEF ChunkInv, IInv
<1>2. /\ Goes(r) /\ req[r].at \notin {"fill", "erase"} /\ req'[r].at # "fill"
      /\ UNCHANGED <<chunks, forgot>>
      /\ row'[m].text = row[m].text
  <2>1. CASE LogAction(r)
    BY <2>1, LogMoves DEF At
  <2>2. CASE Relate(r)
    BY <2>2, RelateMoves DEF At
  <2>3. CASE Write(r) \/ Archive(r) \/ MoveOfPair(r)
    <3>1. /\ Goes(r) /\ req[r].at \in {"write", "sweep"} /\ req'[r].at = "log"
          /\ UNCHANGED <<chunks, forgot>>
      BY <2>3, StatusMoves
    <3>2. PICK n \in Request, status \in {req'[r].status} :
              row' = IF n \in Saved THEN [row EXCEPT ![n].status = status] ELSE row
      BY <2>3, StatusMoves
    <3>3. row'[m].text = row[m].text
      BY <1>1, <3>2 DEF TypeOK, Rows, NoRow
    <3>4. QED
      BY <3>1, <3>3
  <2>4. QED
    BY <2>1, <2>2, <2>3
<1>3. ~Filling(r, m) /\ ~Filling(r, m)' /\ ~Erases(r, m)
  BY <1>2 DEF Filling, Erases, At
<1>4. QED
  BY <1>1, <1>2, <1>3, ChunksKept DEF TextKept

LEMMA ChunksEntombed ==
    ASSUME IInv, OwnInv, ChunkInv, NEW r \in Request, Entomb(r)
    PROVE  ChunkInv'
<1> SUFFICES ASSUME NEW m \in Request
             PROVE  ChunksOwed(m)'
  BY DEF ChunkInv
<1>1. ChunksOwed(m) /\ row \in [Request -> Rows]
  BY DEF ChunkInv, IInv, TypeOK
<1>2. Goes(r) /\ At(r, "tombstone") /\ UNCHANGED <<chunks, forgot>>
  BY EntombMoves
<1>3. PICK n \in Request : /\ row' = IF n \in Saved THEN [row EXCEPT ![n] = Tombstone(n)] ELSE row
                           /\ req'[r].at = "erase" /\ n \in req'[r].item
  BY EntombMoves
<1>4. ~Filling(r, m) /\ ~Filling(r, m)' /\ ~Erases(r, m)
  BY <1>2, <1>3 DEF Filling, Erases, At
<1>5. TextKept(r, m)
  <2>1. CASE m = n /\ n \in Saved
    BY <1>1, <1>3, <2>1 DEF Tombstone, Erases, At, TextKept
  <2>2. CASE ~(m = n /\ n \in Saved)
    <3>1. row'[m] = row[m]
      BY <1>1, <1>3, <2>2
    <3>2. QED
      BY <3>1 DEF TextKept
  <2>3. QED
    BY <2>1, <2>2
<1>6. QED
  BY <1>1, <1>2, <1>4, <1>5, ChunksKept

LEMMA ChunksErased ==
    ASSUME IInv, OwnInv, ChunkInv, NEW r \in Request, EraseChunks(r)
    PROVE  ChunkInv'
<1> SUFFICES ASSUME NEW m \in Request
             PROVE  ChunksOwed(m)'
  BY DEF ChunkInv
<1>1. ChunksOwed(m) /\ chunks \in [Request -> SUBSET (1 .. Parts)]
  BY DEF ChunkInv, IInv, TypeOK
<1>2. /\ Goes(r) /\ At(r, "erase") /\ req'[r].at = "log" /\ row' = row
      /\ forgot' = forgot \cup req[r].item
  BY EraseMoves
<1>3. PICK n \in Request : row[n].text \notin Text /\ chunks' = [chunks EXCEPT ![n] = {}]
  BY EraseMoves
<1>4. ~Filling(r, m) /\ ~Filling(r, m)' /\ (Erases(r, m) => m \in forgot')
  BY <1>2 DEF Filling, Erases, At
<1>5. CASE m # n
  <2>1. chunks'[m] = chunks[m] /\ TextKept(r, m)
    BY <1>1, <1>2, <1>3, <1>5 DEF TextKept
  <2>2. QED
    BY <1>1, <1>2, <1>4, <2>1, ChunksKept
<1>6. CASE m = n
  <2>1. chunks'[m] = {} /\ row'[m].text \notin Text
    BY <1>1, <1>2, <1>3, <1>6
  <2>2. row'[m].text = Erased => m \in forgot' \/ \E s \in Request : Erases(s, m)'
    BY <1>1, <1>2, <1>4 DEF ChunksOwed, Goes, Erases, At
  <2>3. QED
    BY <2>1, <2>2 DEF ChunksOwed
<1>7. QED
  BY <1>5, <1>6

LEMMA ChunksDeleted ==
    ASSUME IInv, OwnInv, ChunkInv, NEW r \in Request, Delete(r)
    PROVE  ChunkInv'
<1> SUFFICES ASSUME NEW m \in Request
             PROVE  ChunksOwed(m)'
  BY DEF ChunkInv
<1>1. /\ ChunksOwed(m) /\ chunks \in [Request -> SUBSET (1 .. Parts)]
      /\ row \in [Request -> Rows]
  BY DEF ChunkInv, IInv, TypeOK
<1>2. Goes(r) /\ At(r, "delete") /\ req'[r].at \in {"done", "failed"} /\ forgot' = forgot
  BY DeleteMoves
<1>3. ~Filling(r, m) /\ ~Filling(r, m)' /\ ~Erases(r, m)
  BY <1>2 DEF Filling, Erases, At
<1>4. CASE UNCHANGED stored
  <2>1. chunks'[m] = chunks[m] /\ TextKept(r, m)
    BY <1>4 DEF TextKept, stored
  <2>2. QED
    BY <1>1, <1>2, <1>3, <2>1, ChunksKept
<1>5. CASE \E n \in Request : /\ row' = [row EXCEPT ![n] = NoRow]
                              /\ chunks' = [chunks EXCEPT ![n] = {}]
  <2>1. PICK n \in Request : /\ row' = [row EXCEPT ![n] = NoRow]
                             /\ chunks' = [chunks EXCEPT ![n] = {}]
    BY <1>5
  <2>2. CASE m # n
    <3>1. TextKept(r, m) /\ chunks'[m] = chunks[m]
      BY <1>1, <2>1, <2>2 DEF TextKept
    <3>2. QED
      BY <1>1, <1>2, <1>3, <3>1, ChunksKept
  <2>3. CASE m = n
    <3>1. row'[m].text = None /\ chunks'[m] = {}
      BY <1>1, <2>1, <2>3 DEF NoRow
    <3>2. QED
      BY <3>1, TextAssumption DEF ChunksOwed
  <2>4. QED
    BY <2>2, <2>3
<1>6. QED
  BY <1>4, <1>5, DeleteMoves

\* A request that fills a memory has seen its text.
LEMMA FillerKnows ==
    ASSUME IInv, OwnInv, NEW r \in Request, NEW m \in Request, Filling(r, m)
    PROVE  ~Fresh(m)
<1>1. req[r] \in Requests /\ Sound(req[r]) /\ Right(req[r])
  BY RequestFacts
<1>2. req[r].seen[m].text \in Text
  BY <1>1 DEF Filling, At, Sound
<1>3. m \in SeenBy(req[r])
  BY <1>1, <1>2, SeenFacts, TextAssumption
<1>4. QED
  BY <1>1, <1>3 DEF Right, Knows

LEMMA ChunksCleared ==
    ASSUME IInv, OwnInv, ChunkInv, NEW r \in Request, ClearChunks(r)
    PROVE  ChunkInv'
<1> SUFFICES ASSUME NEW m \in Request
             PROVE  ChunksOwed(m)'
  BY DEF ChunkInv
<1>1. ChunksOwed(m) /\ chunks \in [Request -> SUBSET (1 .. Parts)] /\ Right(req[r])
  BY RequestFacts DEF ChunkInv
<1>2. Goes(r) /\ At(r, "clear") /\ UNCHANGED <<row, forgot>>
  BY ClearMoves
<1>3. PICK n \in SeenBy(req[r]) :
          /\ chunks' = [chunks EXCEPT ![n] = {}]
          /\ \/ req[r].seen[n].text = Erased /\ req'[r].at # "fill"
             \/ req'[r].at = "fill" /\ req'[r].part = 1 /\ req'[r].left = {n}
  BY ClearMoves
<1>4. n \in Request /\ ~Erases(r, m) /\ ~Filling(r, m) /\ TextKept(r, m)
  BY <1>2 DEF SeenBy, Erases, Filling, At, TextKept
<1>5. CASE m # n
  <2>1. chunks'[m] = chunks[m] /\ ~Filling(r, m)'
    BY <1>1, <1>3, <1>4, <1>5 DEF Filling, At
  <2>2. QED
    BY <1>1, <1>2, <1>4, <2>1, ChunksKept
<1>6. CASE m = n
  <2>1. chunks'[m] = {}
    BY <1>1, <1>3, <1>4, <1>6
  <2>2. row'[m].text \in Text => Covered(m)'
    <3> SUFFICES ASSUME row[m].text \in Text
                 PROVE  Covered(m)'
      BY <1>2
    <3>1. req[r].seen[n].text # Erased
      BY <1>1, <1>6, TextAssumption DEF Right
    <3>2. req'[r].at = "fill" /\ req'[r].part = 1 /\ req'[r].left = {m}
      BY <1>3, <1>6, <3>1
    <3>3. ASSUME NEW i \in 1 .. Parts
          PROVE  Fills(r, m, i)'
      BY <2>1, <3>2 DEF Fills, Filling, At
    <3>4. QED
      BY <3>3 DEF Covered
  <2>3. row'[m].text = Erased => m \in forgot' \/ \E s \in Request : Erases(s, m)'
    <3>1. \A s \in Request : Erases(s, m) => Erases(s, m)'
      BY <1>2, <1>4 DEF Goes, Erases, At
    <3>2. QED
      BY <1>1, <1>2, <3>1 DEF ChunksOwed
  <2>4. QED
    BY <2>1, <2>2, <2>3 DEF ChunksOwed
<1>7. QED
  BY <1>5, <1>6

LEMMA ChunksInserted ==
    ASSUME IInv, OwnInv, ChunkInv, NEW r \in Request, InsertChunk(r)
    PROVE  ChunkInv'
<1> SUFFICES ASSUME NEW m \in Request
             PROVE  ChunksOwed(m)'
  BY DEF ChunkInv
<1> DEFINE part == req[r].part
<1>1. /\ ChunksOwed(m) /\ chunks \in [Request -> SUBSET (1 .. Parts)]
      /\ \A s \in Request : req[s].part \in Nat
  BY RequestFacts DEF ChunkInv, Requests
<1>2. Goes(r) /\ At(r, "fill") /\ UNCHANGED <<row, forgot>> /\ part \in 1 .. Parts
  BY InsertMoves
<1>3. PICK n \in SeenBy(req[r]) :
          /\ req[r].left = {n}
          /\ \/ part \in chunks[n] /\ chunks' = chunks /\ req'[r].at # "fill"
             \/ /\ part \notin chunks[n]
                /\ chunks' = [chunks EXCEPT ![n] = @ \cup {part}]
                /\ \/ part = Parts /\ req'[r].at # "fill"
                   \/ /\ req'[r].at = "fill" /\ req'[r].left = {n}
                      /\ req'[r].part = part + 1
  BY InsertMoves
<1>4. n \in Request /\ ~Erases(r, m) /\ TextKept(r, m) /\ Parts \in Nat
  BY <1>2, TextAssumption DEF SeenBy, Erases, At, TextKept
<1>5. CASE m # n
  <2>1. chunks'[m] = chunks[m] /\ ~Filling(r, m) /\ ~Filling(r, m)'
    BY <1>1, <1>3, <1>4, <1>5 DEF Filling, At
  <2>2. QED
    BY <1>1, <1>2, <1>4, <2>1, ChunksKept
<1>6. CASE m = n
  <2>1. Filling(r, m) /\ ~Fresh(m)
    BY <1>2, <1>3, <1>6, FillerKnows DEF Filling
  <2>2. ~Fresh(m)'
    BY <1>2, <2>1 DEF Goes, Fresh
  <2>3. row'[m].text = Erased => m \in forgot' \/ \E s \in Request : Erases(s, m)'
    <3>1. \A s \in Request : Erases(s, m) => Erases(s, m)'
      BY <1>2, <1>4 DEF Goes, Erases, At
    <3>2. QED
      BY <1>1, <1>2, <3>1 DEF ChunksOwed
  <2>4. \A s \in Request : s # r => req'[s] = req[s]
    BY <1>2 DEF Goes
  <2>5. ASSUME Covered(m), NEW i \in (1 .. Parts) \ chunks'[m]
        PROVE  \E s \in Request : Fills(s, m, i)'
    <3>1. CASE part \in chunks[m]
      <4>1. chunks' = chunks
        BY <1>3, <1>6, <3>1
      <4>2. PICK s \in Request : Fills(s, m, i)
        BY <2>5, <4>1 DEF Covered
      <4>3. s # r
        BY <1>1, <1>2, <3>1, <4>2 DEF Fills
      <4>4. Fills(s, m, i)'
        BY <2>4, <4>1, <4>2, <4>3 DEF Fills, Filling, At
      <4>5. QED
        BY <4>4
    <3>2. CASE part \notin chunks[m]
      <4>1. /\ chunks'[m] = chunks[m] \cup {part}
            /\ part # Parts => req'[r].at = "fill" /\ req'[r].left = {m}
                               /\ req'[r].part = part + 1
        BY <1>1, <1>3, <1>4, <1>6, <3>2
      <4>2. i \notin chunks[m] /\ i # part /\ i \in 1 .. Parts
        BY <4>1
      <4>3. PICK s \in Request : Fills(s, m, i)
        BY <2>5, <4>2 DEF Covered
      <4>4. CASE part \in req[s].part .. i
        <5>1. part < i /\ part # Parts
          BY <1>2, <1>4, <4>2, <4>4, <1>1
        <5>2. \A j \in part + 1 .. i : j \in req[s].part .. i /\ j # part
          BY <1>1, <1>2, <4>2, <4>4
        <5>3. \A j \in part + 1 .. i : j \notin chunks'[m]
          BY <4>1, <4>3, <5>2 DEF Fills
        <5>4. part + 1 <= i
          BY <1>2, <4>2, <5>1
        <5>5. Fills(r, m, i)'
          BY <4>1, <5>1, <5>3, <5>4 DEF Fills, Filling, At
        <5>6. QED
          BY <5>5
      <4>5. CASE part \notin req[s].part .. i
        <5>1. s # r
          <6>1. part <= i => part \in part .. i
            BY <1>2, <4>2
          <6>2. QED
            BY <4>3, <4>5, <6>1 DEF Fills
        <5>2. \A j \in req[s].part .. i : j \notin chunks'[m]
          BY <4>1, <4>3, <4>5 DEF Fills
        <5>3. req'[s] = req[s]
          BY <2>4, <5>1
        <5>4. Fills(s, m, i)'
          BY <4>3, <5>2, <5>3 DEF Fills, Filling, At
        <5>5. QED
          BY <5>4
      <4>6. QED
        BY <4>4, <4>5
    <3>3. QED
      BY <3>1, <3>2
  <2>6. row'[m].text \in Text => Covered(m)'
    <3>1. ~Untouched(m)
      BY <2>1 DEF Untouched
    <3>2. Covered(m) => Covered(m)'
      BY <2>5 DEF Covered
    <3>3. QED
      BY <1>1, <1>2, <3>1, <3>2 DEF ChunksOwed
  <2>7. QED
    BY <2>2, <2>3, <2>6 DEF ChunksOwed
<1>7. QED
  BY <1>5, <1>6

LEMMA ChunksCreated ==
    ASSUME IInv, OwnInv, ChunkInv, NEW r \in Request, InsertMemory(r)
    PROVE  ChunkInv'
<1> SUFFICES ASSUME NEW m \in Request
             PROVE  ChunksOwed(m)'
  BY DEF ChunkInv
<1>1. ChunksOwed(m) /\ row \in [Request -> Rows]
  BY DEF ChunkInv, IInv, TypeOK
<1>2. /\ Goes(r) /\ At(r, "insert") /\ UNCHANGED <<chunks, forgot>>
      /\ req[r].text \in Text /\ req'[r].at = "log"
  BY CreateMoves
<1>3. PICK status : row' = [row EXCEPT ![r] = [status |-> status, text |-> req[r].text]]
  BY CreateMoves
<1>4. ~Erases(r, m) /\ ~Filling(r, m) /\ ~Filling(r, m)'
  BY <1>2 DEF Erases, Filling, At
<1>5. CASE m # r
  <2>1. TextKept(r, m)
    BY <1>1, <1>3, <1>5 DEF TextKept
  <2>2. QED
    BY <1>1, <1>2, <1>4, <2>1, ChunksKept
<1>6. CASE m = r
  <2>1. Fresh(m) /\ chunks[m] = {}
    BY <1>1, <1>2, <1>6 DEF ChunksOwed, Fresh, At, Unborn, Early
  <2>2. \A s \in Request : ~Filling(s, m)
    BY <2>1, FillerKnows
  <2>3. \A s \in Request : ~Filling(s, m)'
    BY <1>2, <1>4, <2>2 DEF Goes, Filling, At
  <2>4. Untouched(m)'
    BY <1>2, <2>1, <2>3 DEF Untouched
  <2>5. row'[m].text \in Text
    BY <1>1, <1>2, <1>3, <1>6
  <2>6. QED
    BY <1>2, <2>1, <2>4, <2>5, TextAssumption DEF ChunksOwed
<1>7. QED
  BY <1>5, <1>6

\* What is owed to the chunks stays owed.
LEMMA ChunkStep ==
    ASSUME IInv, OwnInv, ChunkInv, NEW r \in Request,
           Hydrate(r) \/ Retrieve(r) \/ Create(r) \/ Change(r) \/ Maintain(r)
    PROVE  ChunkInv'
BY MovesOf, StartReads, EndReads, CreatedReads, ChunksReads, ChunksRead, ChunksNoted,
   ChunksEntombed, ChunksErased, ChunksDeleted, ChunksCleared, ChunksInserted, ChunksCreated

-----------------------------------------------------------------------------
(* What is owed to the actions                                             *)

\* Steps that write no action and take nothing out of the log of a request.
Silent(r) ==
    /\ Goes(r)
    /\ req[r].at \notin {"erase", "log"}
    /\ UNCHANGED <<actions, forgot>>

LEMMA SilentMoves ==
    ASSUME IInv, OwnInv, NEW r \in Request,
           \/ Reads(r) \/ ClearChunks(r) \/ InsertChunk(r) \/ InsertMemory(r) \/ Relate(r)
           \/ Write(r) \/ Archive(r) \/ MoveOfPair(r) \/ Entomb(r)
    PROVE  Silent(r)
<1>1. CASE Reads(r)
  BY <1>1 DEF Reads, Silent, stored
<1>2. CASE ClearChunks(r)
  BY <1>2, ClearMoves DEF Silent, At
<1>3. CASE InsertChunk(r)
  BY <1>3, InsertMoves DEF Silent, At
<1>4. CASE InsertMemory(r)
  BY <1>4, CreateMoves DEF Silent, At
<1>5. CASE Relate(r)
  BY <1>5, RelateMoves DEF Silent, At
<1>6. CASE Write(r) \/ Archive(r) \/ MoveOfPair(r)
  BY <1>6, StatusMoves DEF Silent
<1>7. CASE Entomb(r)
  BY <1>7, EntombMoves DEF Silent, At
<1>8. QED
  BY <1>1, <1>2, <1>3, <1>4, <1>5, <1>6, <1>7

\* A step of request r, by what it does to actions.
LEMMA NotedMoves ==
    ASSUME IInv, OwnInv, NEW r \in Request,
           Hydrate(r) \/ Retrieve(r) \/ Create(r) \/ Change(r) \/ Maintain(r)
    PROVE  Silent(r) \/ LogAction(r) \/ EraseChunks(r) \/ Delete(r)
BY MovesOf, StartReads, EndReads, CreatedReads, ChunksReads, SilentMoves

\* Every step is a step of its request.
LEMMA GoesBy ==
    ASSUME IInv, OwnInv, NEW r \in Request,
           Hydrate(r) \/ Retrieve(r) \/ Create(r) \/ Change(r) \/ Maintain(r)
    PROVE  Goes(r)
BY NotedMoves, LogMoves, EraseMoves, DeleteMoves DEF Silent

\* What is recorded of a memory that is still there stays recorded.
LEMMA RecordedStays ==
    ASSUME IInv, OwnInv, NEW r \in Request,
           Hydrate(r) \/ Retrieve(r) \/ Create(r) \/ Change(r) \/ Maintain(r),
           NEW m \in Request, m \in Saved', NEW status, Recorded(m, status)
    PROVE  Recorded(m, status)'
<1>1. Goes(r) /\ actions \in [Request -> SUBSET Status] /\ row \in [Request -> Rows]
  BY GoesBy DEF IInv, TypeOK
<1>2. \A s \in Request : s # r /\ Logs(s, m, status) => Logs(s, m, status)'
  BY <1>1 DEF Goes, Logs
<1>3. ASSUME actions[m] \subseteq actions'[m],
             Logs(r, m, status) => Recorded(m, status)'
      PROVE  Recorded(m, status)'
  BY <1>2, <1>3 DEF Recorded
<1>4. CASE Silent(r)
  BY <1>3, <1>4 DEF Silent, Logs
<1>5. CASE LogAction(r)
  <2>1. PICK n \in Request : /\ \A k \in req[r].item : k = n
                             /\ actions' = [actions EXCEPT ![n] = @ \cup {req[r].status}]
    BY <1>5, LogMoves
  <2>2. actions[m] \subseteq actions'[m]
    BY <1>1, <2>1
  <2>3. Logs(r, m, status) => status \in actions'[m]
    BY <1>1, <2>1 DEF Logs
  <2>4. QED
    BY <1>3, <2>2, <2>3 DEF Recorded
<1>6. CASE EraseChunks(r)
  <2>1. actions' = actions /\ (Logs(r, m, status) => Logs(r, m, status)')
    BY <1>6, EraseMoves DEF Logs
  <2>2. QED
    BY <1>3, <2>1 DEF Recorded
<1>7. CASE Delete(r)
  <2>1. ~Logs(r, m, status)
    BY <1>7, DeleteMoves DEF Logs, At
  <2>2. CASE UNCHANGED stored
    BY <1>3, <2>1, <2>2 DEF stored
  <2>3. CASE \E n \in Request : /\ row' = [row EXCEPT ![n] = NoRow]
                                /\ actions' = [actions EXCEPT ![n] = {}]
    <3>1. PICK n \in Request : /\ row' = [row EXCEPT ![n] = NoRow]
                               /\ actions' = [actions EXCEPT ![n] = {}]
      BY <2>3
    <3>2. m # n
      BY <1>1, <3>1 DEF Saved, NoRow
    <3>3. actions'[m] = actions[m]
      BY <1>1, <3>1, <3>2
    <3>4. QED
      BY <1>3, <2>1, <3>3
  <2>4. QED
    BY <1>7, <2>2, <2>3, DeleteMoves
<1>8. QED
  BY <1>4, <1>5, <1>6, <1>7, NotedMoves

\* What a step does to the row of a memory that is there after it: nothing, or
\* the creation, a status that it owes to the actions, or a tombstone.
RowMoves(r, m) ==
    \/ row'[m] = row[m]
    \/ /\ InsertMemory(r) /\ m = r /\ row'[m].text = req[r].text /\ req[r].text \in Text
       /\ Logs(r, m, row[m].status)'
    \/ row'[m].text = row[m].text /\ m \in Saved /\ Logs(r, m, row[m].status)'
    \/ row'[m].text = Erased /\ m \in Saved /\ Logs(r, m, "forgotten")'
       /\ row'[m].status = "forgotten"

LEMMA RowMovesOf ==
    ASSUME IInv, OwnInv, NEW r \in Request,
           Hydrate(r) \/ Retrieve(r) \/ Create(r) \/ Change(r) \/ Maintain(r),
           NEW m \in Request, m \in Saved'
    PROVE  RowMoves(r, m)
<1>1. row \in [Request -> Rows]
  BY DEF IInv, TypeOK
<1>2. CASE Reads(r)
  BY <1>2 DEF Reads, stored, RowMoves
<1>3. CASE ClearChunks(r) \/ InsertChunk(r) \/ LogAction(r) \/ Relate(r) \/ EraseChunks(r)
  <2>1. row' = row
    BY <1>3 DEF ClearChunks, InsertChunk, LogAction, Relate, EraseChunks
  <2>2. QED
    BY <2>1 DEF RowMoves
<1>4. CASE InsertMemory(r)
  <2>1. PICK status : /\ row' = [row EXCEPT ![r] = [status |-> status, text |-> req[r].text]]
                      /\ req'[r].at = "log" /\ r \in req'[r].item /\ req'[r].status = status
    BY <1>4, CreateMoves
  <2>2. CASE m = r
    <3>1. row'[m].text = req[r].text /\ row'[m].status = req'[r].status
      BY <1>1, <2>1, <2>2
    <3>2. req[r].text \in Text
      BY <1>4, CreateMoves
    <3>3. Logs(r, m, row[m].status)'
      BY <2>1, <2>2, <3>1 DEF Logs
    <3>4. QED
      BY <1>4, <2>2, <3>1, <3>2, <3>3 DEF RowMoves
  <2>3. CASE m # r
    BY <1>1, <2>1, <2>3 DEF RowMoves
  <2>4. QED
    BY <2>2, <2>3
<1>5. CASE Write(r) \/ Archive(r) \/ MoveOfPair(r)
  <2>1. PICK n \in Request, status \in {req'[r].status} :
            /\ row' = IF n \in Saved THEN [row EXCEPT ![n].status = status] ELSE row
            /\ req'[r].at = "log" /\ n \in req'[r].item
    BY <1>5, StatusMoves
  <2>2. CASE m = n /\ n \in Saved
    <3>1. row'[m].text = row[m].text /\ row'[m].status = req'[r].status
      BY <1>1, <2>1, <2>2 DEF Rows, NoRow
    <3>2. Logs(r, m, row[m].status)'
      BY <2>1, <2>2, <3>1 DEF Logs
    <3>3. QED
      BY <2>2, <3>1, <3>2 DEF RowMoves
  <2>3. CASE ~(m = n /\ n \in Saved)
    <3>1. row'[m] = row[m]
      BY <1>1, <2>1, <2>3
    <3>2. QED
      BY <3>1 DEF RowMoves
  <2>4. QED
    BY <2>2, <2>3
<1>6. CASE Entomb(r)
  <2>1. PICK n \in Request : /\ row' = IF n \in Saved THEN [row EXCEPT ![n] = Tombstone(n)] ELSE row
                             /\ req'[r].at = "erase" /\ n \in req'[r].item
                             /\ req'[r].status = "forgotten"
    BY <1>6, EntombMoves
  <2>2. CASE m = n /\ n \in Saved
    <3>1. row'[m].text = Erased /\ row'[m].status = "forgotten"
      BY <1>1, <2>1, <2>2 DEF Tombstone
    <3>2. Logs(r, m, "forgotten")'
      BY <2>1, <2>2 DEF Logs
    <3>3. QED
      BY <2>2, <3>1, <3>2 DEF RowMoves
  <2>3. CASE ~(m = n /\ n \in Saved)
    <3>1. row'[m] = row[m]
      BY <1>1, <2>1, <2>3
    <3>2. QED
      BY <3>1 DEF RowMoves
  <2>4. QED
    BY <2>2, <2>3
<1>7. CASE Delete(r)
  <2>1. row' = row \/ \E n \in Request : row' = [row EXCEPT ![n] = NoRow]
    BY <1>7, DeleteMoves DEF stored
  <2>2. row'[m] = row[m]
    BY <1>1, <2>1 DEF Saved, NoRow
  <2>3. QED
    BY <2>2 DEF RowMoves
<1>8. QED
  BY <1>2, <1>3, <1>4, <1>5, <1>6, <1>7, MovesOf, StartReads, EndReads, CreatedReads, ChunksReads

\* The statuses of memories stay recorded, or owed.
LEMMA StatusStep ==
    ASSUME IInv, OwnInv, StatusInv, NEW r \in Request,
           Hydrate(r) \/ Retrieve(r) \/ Create(r) \/ Change(r) \/ Maintain(r)
    PROVE  StatusInv'
<1> SUFFICES ASSUME NEW m \in Request, m \in Saved'
             PROVE  /\ Recorded(m, row[m].status)'
                    /\ row'[m].text = Erased => Recorded(m, "forgotten")'
  BY DEF StatusInv, Saved
<1>1. ASSUME NEW status, Logs(r, m, status)'
      PROVE  Recorded(m, status)'
  BY <1>1 DEF Recorded
<1>2. ASSUME NEW status, Recorded(m, status)
      PROVE  Recorded(m, status)'
  BY <1>2, RecordedStays
<1>3. CASE row'[m] = row[m]
  <2>1. m \in Saved
    BY <1>3 DEF Saved
  <2>2. Recorded(m, row[m].status) /\ (row[m].text = Erased => Recorded(m, "forgotten"))
    BY <2>1 DEF StatusInv
  <2>3. Recorded(m, row[m].status)'
    <3>1. PICK status \in {row[m].status} : Recorded(m, status)
      BY <2>2
    <3>2. Recorded(m, status)'
      BY <1>2, <3>1
    <3>3. status = row'[m].status
      BY <1>3
    <3>4. QED
      BY <3>2, <3>3
  <2>4. QED
    BY <1>2, <1>3, <2>2, <2>3
<1>4. CASE row'[m].text \in Text /\ Logs(r, m, row[m].status)'
  BY <1>4, TextAssumption DEF Recorded
<1>5. CASE row'[m].text = row[m].text /\ m \in Saved /\ Logs(r, m, row[m].status)'
  BY <1>2, <1>5 DEF Recorded, StatusInv
<1>6. CASE row'[m].text = Erased /\ Logs(r, m, "forgotten")' /\ row'[m].status = "forgotten"
  BY <1>6 DEF Recorded
<1>7. QED
  BY <1>3, <1>4, <1>5, <1>6, RowMovesOf DEF RowMoves

-----------------------------------------------------------------------------
(* What is owed to the relations                                           *)

\* Relations between memories that are still there are still there.
LEMMA RelationsStay ==
    ASSUME IInv, OwnInv, NEW r \in Request,
           Hydrate(r) \/ Retrieve(r) \/ Create(r) \/ Change(r) \/ Maintain(r),
           NEW a \in Request, NEW b \in Request, a \in Saved', b \in Saved',
           <<a, b>> \in relations
    PROVE  <<a, b>> \in relations'
<1>1. row \in [Request -> Rows]
  BY DEF IInv, TypeOK
<1>2. CASE Reads(r)
  BY <1>2 DEF Reads, stored
<1>3. CASE ClearChunks(r) \/ InsertChunk(r) \/ LogAction(r) \/ Entomb(r) \/ EraseChunks(r)
           \/ InsertMemory(r)
  BY <1>3 DEF ClearChunks, InsertChunk, LogAction, Entomb, EraseChunks, InsertMemory
<1>4. CASE Write(r) \/ Archive(r) \/ MoveOfPair(r)
  BY <1>4, StatusMoves
<1>5. CASE Relate(r)
  BY <1>5, RelateMoves
<1>6. CASE Delete(r)
  <2>1. CASE UNCHANGED stored
    BY <2>1 DEF stored
  <2>2. CASE \E n \in Request :
                 /\ row' = [row EXCEPT ![n] = NoRow]
                 /\ relations' = {pair \in relations : n \notin {pair[1], pair[2]}}
    <3>1. PICK n \in Request :
              /\ row' = [row EXCEPT ![n] = NoRow]
              /\ relations' = {pair \in relations : n \notin {pair[1], pair[2]}}
      BY <2>2
    <3>2. a # n /\ b # n
      BY <1>1, <3>1 DEF Saved, NoRow
    <3>3. <<a, b>>[1] = a /\ <<a, b>>[2] = b
      OBVIOUS
    <3>4. QED
      BY <3>1, <3>2, <3>3
  <2>3. QED
    BY <1>6, <2>1, <2>2, DeleteMoves
<1>7. QED
  BY <1>2, <1>3, <1>4, <1>5, <1>6, MovesOf, StartReads, EndReads, CreatedReads, ChunksReads

\* A request that relates its copies does nothing else.
LEMMA OnlyRelates ==
    ASSUME IInv, OwnInv, NEW r \in Request,
           Hydrate(r) \/ Retrieve(r) \/ Create(r) \/ Change(r) \/ Maintain(r),
           At(r, "relating")
    PROVE  Relate(r)
<1>1. ~Reads(r)
  BY DEF Reads, At
<1>2. ~ClearChunks(r) /\ ~InsertChunk(r) /\ ~InsertMemory(r) /\ ~LogAction(r)
      /\ ~Write(r) /\ ~Archive(r) /\ ~MoveOfPair(r)
      /\ ~Entomb(r) /\ ~EraseChunks(r) /\ ~Delete(r)
  BY DEF ClearChunks, InsertChunk, InsertMemory, LogAction, Write, Archive, MoveOfPair,
         Entomb, EraseChunks, Delete, At
<1>3. QED
  BY <1>1, <1>2, MovesOf, StartReads, EndReads, CreatedReads, ChunksReads

\* What a request finds when it looks for copies.
LEMMA FindsCopies ==
    ASSUME IInv, OwnInv, StatusInv, NEW r \in Saved, NEW s \in Saved, r # s,
           row[r].text = row[s].text,
           ~Recorded(r, "forgotten"), ~Recorded(s, "forgotten"),
           At(r, "relate")
    PROVE  s \in Copies(r)
<1>1. r \in Request /\ s \in Request /\ TypeOK /\ Right(req[r])
  BY RequestFacts DEF Saved, IInv
<1>2. row[s].status # "forgotten" /\ row[r].text # Erased
  BY DEF StatusInv
<1>3. row[r].text \in Text
  BY <1>1, <1>2, RowFacts
<1>4. r \in SeenBy(req[r])
  BY <1>1 DEF OwnInv, Own, At
<1>5. row[r].text = req[r].seen[r].text
  BY <1>1, <1>2, <1>3, <1>4, TextAssumption DEF Right
<1>6. QED
  BY <1>2, <1>5 DEF Copies

\* A relation that is owed stays owed or is written.
LEMMA RelatesStays ==
    ASSUME IInv, OwnInv, StatusInv, NEW r \in Request,
           Hydrate(r) \/ Retrieve(r) \/ Create(r) \/ Change(r) \/ Maintain(r),
           NEW a \in Saved, NEW b \in Saved, a \in Saved', b \in Saved',
           a # b, row[a].text = row[b].text,
           ~Recorded(a, "forgotten"), ~Recorded(b, "forgotten"),
           Relates(a, b)
    PROVE  Relates(a, b)'
<1>1. Goes(r) /\ a \in Request /\ b \in Request
  BY GoesBy DEF Saved
<1>2. CASE <<a, b>> \in relations
  BY <1>1, <1>2, RelationsStay DEF Relates
<1>3. CASE a # r /\ <<a, b>> \notin relations
  <2>1. req'[a] = req[a]
    BY <1>1, <1>3 DEF Goes
  <2>2. QED
    BY <1>3, <2>1 DEF Relates, At, Waits
<1>4. CASE a = r /\ Waits(req[r])
  <2>1. CASE At(r, "relate") /\ req'[r].at = "relating" /\ req'[r].left = Copies(r)
    <3>1. b \in Copies(r)
      BY <1>4, <2>1, FindsCopies
    <3>2. QED
      BY <1>4, <2>1, <3>1 DEF Relates, At
  <2>2. CASE Waits(req'[r]) \/ req'[r].at = "failed"
    BY <1>4, <2>2 DEF Relates, At, Waits
  <2>3. QED
    BY <1>1, <1>4, <2>1, <2>2 DEF Goes
<1>5. CASE a = r /\ At(r, "relating") /\ b \in req[r].left
  <2>1. Relate(r)
    BY <1>5, OnlyRelates
  <2>2. PICK m \in req[r].left :
            /\ relations' = relations \cup {<<r, m>>}
            /\ req'[r].at = "relating" /\ req'[r].left = req[r].left \ {m}
    BY <1>5, <2>1, RelateMoves
  <2>3. QED
    BY <1>5, <2>2 DEF Relates, At
<1>6. ~At(r, "failed")
  BY <1>1 DEF Goes
<1>7. QED
  BY <1>2, <1>3, <1>4, <1>5, <1>6 DEF Relates

\* The relations between copies stay written, or owed.
LEMMA CopyStep ==
    ASSUME IInv, OwnInv, StatusInv, CopyInv, NEW r \in Request,
           Hydrate(r) \/ Retrieve(r) \/ Create(r) \/ Change(r) \/ Maintain(r)
    PROVE  CopyInv'
<1> SUFFICES ASSUME NEW a \in Request, NEW b \in Request, a \in Saved', b \in Saved',
                    a # b, row'[a].text = row'[b].text,
                    ~Recorded(a, "forgotten")', ~Recorded(b, "forgotten")'
             PROVE  Relates(a, b)' \/ Relates(b, a)'
  BY DEF CopyInv, Saved
<1>1. ~Recorded(a, "forgotten") /\ ~Recorded(b, "forgotten")
  BY RecordedStays
<1>2. ASSUME NEW m \in {a, b}
      PROVE  \/ m \in Saved /\ row'[m].text = row[m].text
             \/ InsertMemory(r) /\ m = r
  <2>1. RowMoves(r, m) /\ ~Logs(r, m, "forgotten")'
    BY <1>2, RowMovesOf DEF Recorded
  <2>2. row'[m] = row[m] => m \in Saved
    BY <1>2 DEF Saved
  <2>3. QED
    BY <2>1, <2>2 DEF RowMoves
<1>3. CASE InsertMemory(r) /\ r \in {a, b}
  <2>1. Waits(req'[r])
    BY <1>3, CreateMoves
  <2>2. \A m \in Request : Relates(r, m)'
    BY <2>1 DEF Relates, Waits
  <2>3. QED
    BY <1>3, <2>2
<1>4. CASE \A m \in {a, b} : m \in Saved /\ row'[m].text = row[m].text
  <2>1. Relates(a, b) \/ Relates(b, a)
    BY <1>1, <1>4 DEF CopyInv
  <2>2. QED
    BY <1>1, <1>4, <2>1, RelatesStays
<1>5. QED
  BY <1>2, <1>3, <1>4

-----------------------------------------------------------------------------
(* The invariant, and what it says when every request has ended            *)

LEMMA InitMInv == Init => MInv
<1> SUFFICES ASSUME Init
             PROVE  MInv
  OBVIOUS
<1>1. /\ IInv
      /\ \A m \in Request : row[m] = NoRow /\ chunks[m] = {} /\ req[m] = Idle
  BY InitIInv DEF Init
<1>2. Idle.at = "idle" /\ Idle.then = "done"
  BY DEF Idle
<1>3. OwnInv
  BY <1>1, <1>2 DEF OwnInv, Own
<1>4. ChunkInv
  <2>1. \A m \in Request : Untouched(m)
    BY <1>1, <1>2 DEF Untouched, Filling, At
  <2>2. NoRow.text = None
    BY DEF NoRow
  <2>3. QED
    BY <1>1, <2>1, <2>2, TextAssumption DEF ChunkInv, ChunksOwed
<1>5. Saved = {}
  BY <1>1 DEF Saved, NoRow
<1>6. QED
  BY <1>1, <1>3, <1>4, <1>5 DEF MInv, OwedInv, StatusInv, CopyInv

LEMMA NextMInv == MInv /\ [Next]_vars => MInv'
<1> SUFFICES ASSUME MInv, [Next]_vars
             PROVE  MInv'
  OBVIOUS
<1>1. IInv /\ OwnInv /\ OwedInv /\ IInv'
  BY NextIInv DEF MInv
<1>2. ASSUME NEW r \in Request,
             Hydrate(r) \/ Retrieve(r) \/ Create(r) \/ Change(r) \/ Maintain(r)
      PROVE  MInv'
  <2>1. Goes(r)
    BY <1>1, <1>2, GoesBy
  <2>2. OwnInv'
    BY <1>1, <2>1 DEF Goes, Own, OwnInv
  <2>3. crashed' = crashed
    BY <2>1 DEF Goes
  <2>4. ~crashed => ChunkInv' /\ StatusInv' /\ CopyInv'
    BY <1>1, <1>2, ChunkStep, StatusStep, CopyStep DEF OwedInv
  <2>5. QED
    BY <1>1, <2>2, <2>3, <2>4 DEF MInv, OwedInv
<1>3. CASE Crash
  <2>1. \A r \in Request : req'[r] = req[r] \/ req'[r] = Ended("failed")
    BY <1>3 DEF Crash
  <2>2. OwnInv'
    BY <1>1, <2>1, EndedIs DEF OwnInv, Own
  <2>3. crashed'
    BY <1>3 DEF Crash
  <2>4. QED
    BY <1>1, <2>2, <2>3 DEF MInv, OwedInv
<1>4. CASE UNCHANGED vars
  <2>1. UNCHANGED <<row, chunks, relations, actions, req, forgot, crashed>>
    BY <1>4 DEF vars, stored, history
  <2>2. OwnInv'
    BY <1>1, <2>1 DEF OwnInv
  <2>3. ChunkInv => ChunkInv'
    BY <2>1 DEF ChunkInv, ChunksOwed, Fresh, Covered, Untouched, Fills, Filling, Erases, At
  <2>4. StatusInv => StatusInv'
    BY <2>1 DEF StatusInv, Saved, Recorded, Logs
  <2>5. CopyInv => CopyInv'
    BY <2>1 DEF CopyInv, Saved, Recorded, Logs, Relates, At
  <2>6. QED
    BY <1>1, <2>1, <2>2, <2>3, <2>4, <2>5 DEF MInv, OwedInv
<1>5. QED
  BY <1>2, <1>3, <1>4 DEF Next

\* Every request owes the tables what is missing in them.
THEOREM Owed == Spec => []MInv
BY InitMInv, NextMInv, PTL DEF Spec

\* Hydrations that fail on each other's chunks leave a memory all or none of them.
THEOREM ChunksAllOrNone == Spec => []ChunksComplete
<1>1. ASSUME MInv
      PROVE  ChunksComplete
  <2> SUFFICES ASSUME ~crashed, AtRest, NEW m \in Saved \ forgot
               PROVE  chunks[m] \in {{}, 1 .. Parts}
    BY DEF ChunksComplete
  <2>1. /\ m \in Request /\ ChunksOwed(m) /\ chunks[m] \subseteq 1 .. Parts
        /\ row[m].text \in Text \cup {Erased}
    BY <1>1, RowFacts DEF MInv, OwedInv, ChunkInv, Saved, IInv, TypeOK
  <2>2. \A r \in Request : ~Filling(r, m) /\ ~Erases(r, m)
    BY DEF AtRest, Filling, Erases, At
  <2>3. row[m].text \in Text
    BY <2>1, <2>2 DEF ChunksOwed
  <2>4. CASE Covered(m)
    <3>1. (1 .. Parts) \ chunks[m] = {}
      BY <2>2, <2>4 DEF Covered, Fills
    <3>2. QED
      BY <2>1, <3>1
  <2>5. CASE Untouched(m)
    BY <2>5 DEF Untouched
  <2>6. QED
    BY <2>1, <2>3, <2>4, <2>5 DEF ChunksOwed
<1>2. QED
  BY <1>1, Owed, PTL

\* The status of every memory is among its actions, whichever of the requests
\* that wrote it was last to log it.
THEOREM StatusIsRecorded == Spec => []StatusRecorded
<1>1. ASSUME MInv
      PROVE  StatusRecorded
  <2> SUFFICES ASSUME ~crashed, AtRest, NEW m \in Saved
               PROVE  row[m].status \in actions[m]
    BY DEF StatusRecorded
  <2>1. Recorded(m, row[m].status)
    BY <1>1 DEF MInv, OwedInv, StatusInv
  <2>2. \A r \in Request : \A status : ~Logs(r, m, status)
    BY DEF AtRest, Logs
  <2>3. QED
    BY <2>1, <2>2 DEF Recorded
<1>2. QED
  BY <1>1, Owed, PTL

\* Of two memories with the same text, whose creators have both succeeded, one
\* is related to the other.
THEOREM CopiesAreRelated == Spec => []CopiesRelated
<1>1. ASSUME MInv
      PROVE  CopiesRelated
  <2> SUFFICES ASSUME ~crashed, AtRest, NEW r \in Saved, NEW s \in Saved,
                      r # s, row[r].text = row[s].text,
                      \A m \in {r, s} : At(m, "done") /\ "forgotten" \notin actions[m]
               PROVE  <<r, s>> \in relations \/ <<s, r>> \in relations
    BY DEF CopiesRelated
  <2>1. \A m \in {r, s} : ~Recorded(m, "forgotten")
    BY DEF AtRest, Recorded, Logs
  <2>2. Relates(r, s) \/ Relates(s, r)
    BY <1>1, <2>1 DEF MInv, OwedInv, CopyInv
  <2>3. ASSUME NEW a \in {r, s}, NEW b \in {r, s}, Relates(a, b)
        PROVE  <<a, b>> \in relations
    BY <2>3 DEF Relates, Waits, At
  <2>4. QED
    BY <2>2, <2>3
<1>2. QED
  BY <1>1, Owed, PTL

=============================================================================
