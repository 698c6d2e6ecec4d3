----------------------------- MODULE MemoryProofs -----------------------------
(***************************************************************************)
(* What holds of memories for every set of requests.                       *)
(*                                                                         *)
(* Requests write what they derived from rows that others may have changed *)
(* since, so nothing of this is inductive alone.  IInv says how what a     *)
(* request has seen relates to the table: the text of a memory may only    *)
(* have been erased since, and an injected text that nobody asked to       *)
(* activate was not online in what was seen either.                        *)
(***************************************************************************)
EXTENDS Memory, TLAPS

\* A request that has not inserted its memory; no one else knows of it.
Early == {"sample", "find", "insert"}
Unborn == Early \cup {"idle"}
Fresh(m) == req[m].at \in Unborn

\* What holds of a request by itself.
Sound(q) ==
    /\ \A m, n \in q.item : m = n
    /\ q.at \in {"clear", "fill"} => q.todo \subseteq SeenBy(q)
    /\ q.at = "fill" => q.part # 0 /\ \A m \in q.left : q.seen[m].text \in Text
    /\ q.at \in Early => q.status \in Online /\ q.text \in Text
    /\ q.at = "log" => q.status \in Status
    /\ "write" \in {q.at, q.then} =>
           \A m \in q.item : q.seen[m].status # "none" /\ q.status \in Status \cup {"keep"}
    /\ "tombstone" \in {q.at, q.then} \/ q.at = "erase" => q.status = "forgotten"
    /\ "offer" \in {q.at, q.then} => \A m \in SeenBy(q) : q.seen[m].status \in Online

\* The memories a request knows of have been inserted.  Their texts may have
\* been erased since it has seen them.
Knows(q, m) == m \in q.item \/ m \in SeenBy(q) \/ \E pair \in q.pairs : m \in pair

Right(q) ==
    /\ \A m \in Request : Knows(q, m) => ~Fresh(m)
    /\ \A m \in q.item :
           /\ "write" \in {q.at, q.then} /\ q.status \in Online => m \in asked
           /\ q.at = "erase" => row[m].text \notin Text
    /\ \A m \in SeenBy(q) :
           /\ row[m].text \in {q.seen[m].text, Erased, None}
           /\ m \notin asked /\ q.seen[m].text \in Injected => q.seen[m].status \notin Online

RequestsRight == \A r \in Request : Sound(req[r]) /\ Right(req[r])

MemoriesRight ==
    \A m \in Request :
        /\ Fresh(m) => row[m] = NoRow /\ m \notin asked \cup offered \cup forgot
        /\ m \in forgot => row[m].text \notin Text

IInv == TypeOK /\ RequestsRight /\ MemoriesRight /\ InjectedNeedsUser

-----------------------------------------------------------------------------
(* Rows and readings                                                       *)

\* A row that is there has a status and a text, which is None in no such row.
LEMMA RowFacts ==
    ASSUME TypeOK, NEW m \in Request
    PROVE  /\ row[m] \in Rows
           /\ m \in Saved <=> row[m] # NoRow
           /\ m \in Saved => row[m].status \in Status /\ row[m].text \in Text \cup {Erased}
           /\ m \notin Saved => row[m] = NoRow /\ row[m].status = "none" /\ row[m].text = None
BY TextAssumption DEF TypeOK, Rows, NoRow, Saved, Status

\* What a request has seen is rows.
LEMMA SeenFacts ==
    ASSUME NEW q \in Requests, NEW m \in Request
    PROVE  /\ q.seen[m] \in Rows
           /\ m \in SeenBy(q) => /\ q.seen[m].status \in Status
                                 /\ q.seen[m].text \in Text \cup {Erased}
           /\ m \notin SeenBy(q) => q.seen[m] = NoRow /\ q.seen[m].text = None
BY TextAssumption DEF Requests, Rows, NoRow, SeenBy, Status

\* A memory that is there is not fresh.
LEMMA SavedIsBorn ==
    ASSUME IInv, NEW m \in Saved
    PROVE  m \in Request /\ ~Fresh(m)
BY DEF IInv, MemoriesRight, Saved, NoRow

\* A request that is idle, or that has ended, knows nothing.
LEMMA EndedFits ==
    ASSUME NEW q, q = Idle \/ q = Done \/ q = Ended("failed")
    PROVE  q \in Requests /\ Sound(q) /\ Right(q)
<1>1. Idle \in Requests /\ Idle.then = "done" /\ SeenBy(Idle) = {}
  BY TextAssumption DEF Idle, Requests, RequestStatus, NothingSeen, NoRow, Rows, SeenBy, Status
<1>2. /\ q \in Requests /\ q.at \in {"idle", "done", "failed"} /\ q.then = "done"
      /\ q.item = {} /\ q.pairs = {} /\ q.seen = NothingSeen
  <2>1. CASE q = Idle
    BY <1>1, <2>1 DEF Idle
  <2>2. CASE q = Done \/ q = Ended("failed")
    BY <2>2, <1>1 DEF Done, Ended, Requests, Idle
  <2>3. QED
    BY <2>1, <2>2
<1>3. SeenBy(q) = {}
  BY <1>2 DEF SeenBy, NothingSeen, NoRow
<1>4. QED
  BY <1>2, <1>3 DEF Sound, Right, Knows, Early

Thens == {"done", "offer", "get", "relate", "reget", "write", "tombstone", "delete", "sweep"}

\* What a request has read.
LEMMA ReadingFits ==
    ASSUME IInv, NEW q \in Requests, NEW ms \in SUBSET Saved, NEW then \in Thens,
           \A m, n \in q.item : m = n,
           \A m \in q.item : ~Fresh(m),
           \A pair \in q.pairs : \A m \in pair : ~Fresh(m),
           then = "write" => \A m \in q.item : /\ m \in ms
                                               /\ q.status \in Status \cup {"keep"}
                                               /\ q.status \in Online => m \in asked,
           then = "tombstone" => q.status = "forgotten",
           then = "offer" => \A m \in ms : row[m].status \in Online
    PROVE  LET p == Reading(q, ms, then) IN
           p \in Requests /\ p.at = "chunks" /\ Sound(p) /\ Right(p)
<1> DEFINE p == Reading(q, ms, then)
<1>1. TypeOK /\ MemoriesRight /\ InjectedNeedsUser
  BY DEF IInv
<1>2. p \in Requests
  <2>1. [m \in Request |-> IF m \in ms THEN row[m] ELSE NoRow] \in [Request -> Rows]
    BY <1>1 DEF TypeOK, Rows
  <2>2. QED
    BY <2>1 DEF Reading, Requests, Thens
<1>3. /\ p.at = "chunks" /\ p.then = then /\ p.item = q.item /\ p.pairs = q.pairs
      /\ p.status = q.status
      /\ p.seen = [m \in Request |-> IF m \in ms THEN row[m] ELSE NoRow]
  BY DEF Reading, Requests
<1>4. SeenBy(p) = ms /\ \A m \in ms : p.seen[m] = row[m]
  <2>1. \A m \in Request : p.seen[m] = IF m \in ms THEN row[m] ELSE NoRow
    BY <1>3
  <2>2. \A m \in ms : m \in Request /\ row[m].status # "none"
    BY DEF Saved
  <2>3. QED
    BY <2>1, <2>2 DEF SeenBy, NoRow
<1>5. Sound(p)
  BY <1>3, <1>4 DEF Sound, Early, Saved
<1>6. Right(p)
  <2>1. \A m \in ms : m \in Request /\ ~Fresh(m)
    BY SavedIsBorn
  <2>2. \A m \in Request : Knows(p, m) => ~Fresh(m)
    BY <1>3, <1>4, <2>1 DEF Knows
  <2>3. \A m \in p.item : "write" \in {p.at, p.then} /\ p.status \in Online => m \in asked
    BY <1>3
  <2>4. p.at # "erase"
    BY <1>3
  <2>5. \A m \in SeenBy(p) :
            /\ row[m].text \in {p.seen[m].text, Erased, None}
            /\ m \notin asked /\ p.seen[m].text \in Injected => p.seen[m].status \notin Online
    BY <1>1, <1>4, <2>1 DEF InjectedNeedsUser
  <2>6. QED
    BY <2>2, <2>3, <2>4, <2>5 DEF Right
<1>7. QED
  BY <1>2, <1>3, <1>5, <1>6

-----------------------------------------------------------------------------
(* Steps of one request                                                    *)

\* A request takes a step to q, which is not a step back to before its creation.
Steps(r, q) ==
    /\ q \in Requests
    /\ req' = [req EXCEPT ![r] = q]
    /\ q.at \in Unborn => Fresh(r)

\* Then no memory becomes fresh.
LEMMA NoneReborn ==
    ASSUME TypeOK, NEW r \in Request, NEW q, Steps(r, q)
    PROVE  /\ \A m \in Request : Fresh(m)' => Fresh(m)
           /\ \A s \in Request : req'[s] = IF s = r THEN q ELSE req[s]
           /\ req' \in [Request -> Requests]
BY DEF TypeOK, Steps, Fresh

\* The other requests are right as long as texts are only erased, except that
\* of a fresh memory, and nobody takes back a wish to activate a memory.
LEMMA OthersRight ==
    ASSUME IInv, NEW r \in Request, NEW q, Steps(r, q),
           asked \subseteq asked',
           \A m \in Request : ~Fresh(m) => row'[m].text \in {row[m].text, Erased, None}
    PROVE  \A s \in Request \ {r} : (Sound(req[s]) /\ Right(req[s]))'
<1> TAKE s \in Request \ {r}
<1>1. req'[s] = req[s] /\ req[s] \in Requests /\ Sound(req[s]) /\ Right(req[s])
  BY NoneReborn DEF IInv, RequestsRight, TypeOK
<1>2. \A m \in Request : Knows(req[s], m) => ~Fresh(m) /\ ~Fresh(m)'
  BY <1>1, NoneReborn DEF Right, IInv
<1>3. \A m \in req[s].item : m \in Request /\ Knows(req[s], m)
  BY <1>1 DEF Knows, Requests
<1>4. \A m \in SeenBy(req[s]) : m \in Request /\ Knows(req[s], m)
  BY DEF Knows, SeenBy
<1>5. \A m \in req[s].item :
          /\ "write" \in {req[s].at, req[s].then} /\ req[s].status \in Online => m \in asked'
          /\ req[s].at = "erase" => row'[m].text \notin Text
  BY <1>1, <1>2, <1>3, TextAssumption DEF Right
<1>6. \A m \in SeenBy(req[s]) :
          /\ row'[m].text \in {req[s].seen[m].text, Erased, None}
          /\ m \notin asked' /\ req[s].seen[m].text \in Injected
                => req[s].seen[m].status \notin Online
  BY <1>1, <1>2, <1>4 DEF Right
<1>7. Right(req[s])'
  BY <1>1, <1>2, <1>5, <1>6 DEF Right
<1>8. QED
  BY <1>1, <1>7

\* A step that writes neither rows nor history.
LEMMA QuietStep ==
    ASSUME IInv, NEW r \in Request, NEW q, Steps(r, q), Sound(q), Right(q),
           UNCHANGED <<row, history>>,
           chunks' \in [Request -> SUBSET (1 .. Parts)],
           relations' \subseteq Request \X Request,
           actions' \in [Request -> SUBSET Status]
    PROVE  IInv'
<1>1. UNCHANGED <<row, offered, asked, forgot, crashed>>
  BY DEF history
<1>2. /\ \A m \in Request : Fresh(m)' => Fresh(m)
      /\ \A s \in Request : req'[s] = IF s = r THEN q ELSE req[s]
      /\ req' \in [Request -> Requests]
  BY NoneReborn DEF IInv
<1>3. TypeOK'
  BY <1>1, <1>2 DEF IInv, TypeOK
<1>4. Right(q)'
  BY <1>1, <1>2 DEF Right
<1>5. RequestsRight'
  <2>1. \A s \in Request \ {r} : (Sound(req[s]) /\ Right(req[s]))'
    BY <1>1, OthersRight
  <2>2. (Sound(req[r]) /\ Right(req[r]))'
    BY <1>2, <1>4
  <2>3. QED
    BY <2>1, <2>2 DEF RequestsRight
<1>6. MemoriesRight'
  BY <1>1, <1>2 DEF IInv, MemoriesRight
<1>7. InjectedNeedsUser'
  BY <1>1 DEF IInv, InjectedNeedsUser
<1>8. QED
  BY <1>3, <1>5, <1>6, <1>7 DEF IInv

\* A step that writes the row of one memory, which is there or has been.
LEMMA RowStep ==
    ASSUME IInv, NEW r \in Request, NEW q, Steps(r, q), Sound(q), Right(q)',
           NEW m \in Request, NEW x \in Rows, ~Fresh(m),
           row' = [row EXCEPT ![m] = x],
           x.text \in {row[m].text, Erased, None},
           m \notin asked /\ x.text \in Injected => x.status \notin Online,
           UNCHANGED history,
           chunks' \in [Request -> SUBSET (1 .. Parts)],
           relations' \subseteq Request \X Request,
           actions' \in [Request -> SUBSET Status]
    PROVE  IInv'
<1>1. UNCHANGED <<offered, asked, forgot, crashed>>
  BY DEF history
<1>2. /\ \A n \in Request : Fresh(n)' => Fresh(n)
      /\ \A s \in Request : req'[s] = IF s = r THEN q ELSE req[s]
      /\ req' \in [Request -> Requests]
  BY NoneReborn DEF IInv
<1>3. /\ row' \in [Request -> Rows]
      /\ \A n \in Request : row'[n] = IF n = m THEN x ELSE row[n]
  BY DEF IInv, TypeOK
<1>4. TypeOK'
  BY <1>1, <1>2, <1>3 DEF IInv, TypeOK
<1>5. RequestsRight'
  <2>1. \A s \in Request \ {r} : (Sound(req[s]) /\ Right(req[s]))'
    BY <1>1, <1>3, OthersRight
  <2>2. (Sound(req[r]) /\ Right(req[r]))'
    BY <1>2
  <2>3. QED
    BY <2>1, <2>2 DEF RequestsRight
<1>6. MemoriesRight'
  BY <1>1, <1>2, <1>3, TextAssumption DEF IInv, MemoriesRight
<1>7. InjectedNeedsUser'
  <2> SUFFICES ASSUME NEW n \in Request \ asked, row'[n].text \in Injected
               PROVE  row'[n].status \notin Online /\ n \notin offered
    BY <1>1 DEF InjectedNeedsUser
  <2>1. CASE n = m
    BY <1>3, <2>1, TextAssumption DEF IInv, InjectedNeedsUser
  <2>2. CASE n # m
    BY <1>3, <2>2 DEF IInv, InjectedNeedsUser
  <2>3. QED
    BY <2>1, <2>2
<1>8. QED
  BY <1>4, <1>5, <1>6, <1>7 DEF IInv

\* A step that writes history and no row.
LEMMA HistoryStep ==
    ASSUME IInv, NEW r \in Request, NEW q, Steps(r, q), Sound(q), Right(q)',
           UNCHANGED row, asked \subseteq asked',
           asked' \cup offered' \cup forgot' \subseteq Request, crashed' \in BOOLEAN,
           \A m \in asked' \cup offered' \cup forgot' :
               m \in asked \cup offered \cup forgot \/ ~Fresh(m),
           \A m \in offered' : m \in offered \cup asked' \/ row[m].text \notin Injected,
           \A m \in forgot' : m \in forgot \/ row[m].text \notin Text,
           chunks' \in [Request -> SUBSET (1 .. Parts)],
           relations' \subseteq Request \X Request,
           actions' \in [Request -> SUBSET Status]
    PROVE  IInv'
<1>1. /\ \A m \in Request : Fresh(m)' => Fresh(m)
      /\ \A s \in Request : req'[s] = IF s = r THEN q ELSE req[s]
      /\ req' \in [Request -> Requests]
  BY NoneReborn DEF IInv
<1>2. TypeOK'
  BY <1>1 DEF IInv, TypeOK
<1>3. RequestsRight'
  <2>1. \A s \in Request \ {r} : (Sound(req[s]) /\ Right(req[s]))'
    BY OthersRight
  <2>2. (Sound(req[r]) /\ Right(req[r]))'
    BY <1>1
  <2>3. QED
    BY <2>1, <2>2 DEF RequestsRight
<1>4. MemoriesRight'
  <2> SUFFICES ASSUME NEW m \in Request
               PROVE  /\ Fresh(m)' => row[m] = NoRow /\ m \notin asked' \cup offered' \cup forgot'
                      /\ m \in forgot' => row[m].text \notin Text
    BY DEF MemoriesRight
  <2>1. /\ Fresh(m) => row[m] = NoRow /\ m \notin asked \cup offered \cup forgot
        /\ m \in forgot => row[m].text \notin Text
    BY DEF IInv, MemoriesRight
  <2>2. QED
    BY <1>1, <2>1
<1>5. InjectedNeedsUser'
  BY DEF IInv, InjectedNeedsUser
<1>6. QED
  BY <1>2, <1>3, <1>4, <1>5 DEF IInv

\* What is right stays right while texts are only erased.
LEMMA RightAfter ==
    ASSUME IInv, NEW r \in Request, NEW n, Steps(r, n), NEW q, Right(q),
           q.item \subseteq Request, asked \subseteq asked',
           \A m \in Request : row'[m].text \in {row[m].text, Erased, None}
    PROVE  Right(q)'
<1>1. \A m \in Request : Fresh(m)' => Fresh(m)
  BY NoneReborn DEF IInv
<1>2. \A m \in Request : Knows(q, m) => ~Fresh(m)'
  BY <1>1 DEF Right
<1>3. \A m \in q.item :
          /\ "write" \in {q.at, q.then} /\ q.status \in Online => m \in asked'
          /\ q.at = "erase" => row'[m].text \notin Text
  BY TextAssumption DEF Right
<1>4. \A m \in SeenBy(q) :
          /\ row'[m].text \in {q.seen[m].text, Erased, None}
          /\ m \notin asked' /\ q.seen[m].text \in Injected => q.seen[m].status \notin Online
  BY DEF Right, SeenBy
<1>5. QED
  BY <1>2, <1>3, <1>4 DEF Right

-----------------------------------------------------------------------------
(* The steps of hydrateMemories                                            *)

\* The request in progress.
LEMMA RequestFacts ==
    ASSUME IInv, NEW r \in Request
    PROVE  /\ req[r] \in Requests /\ Sound(req[r]) /\ Right(req[r])
           /\ chunks \in [Request -> SUBSET (1 .. Parts)]
           /\ relations \subseteq Request \X Request
           /\ actions \in [Request -> SUBSET Status]
           /\ \A q : q \in Requests /\ q.at \notin Unborn /\ Becomes(r, q) => Steps(r, q)
BY DEF IInv, TypeOK, RequestsRight, Becomes, Steps

Same(p, q) == q.seen = p.seen /\ q.item = p.item /\ q.pairs \subseteq p.pairs

\* What a request has seen and is about stays right.
LEMMA SameRight ==
    ASSUME NEW p, NEW q, Right(p), Same(p, q), q.at # "erase",
           "write" \in {q.at, q.then} =>
               "write" \in {p.at, p.then} /\ q.status = p.status
    PROVE  Right(q)
BY DEF Right, Same, Knows, SeenBy

\* A request that goes on with its hydration, or after it.
LEMMA HydratedFits ==
    ASSUME NEW p \in Requests, p.at \in {"chunks", "clear", "fill"}, Sound(p), Right(p),
           NEW q \in Requests, Same(p, q), q.then = p.then, q.status = p.status,
           q.todo \subseteq SeenBy(p)
    PROVE  /\ Hydrated(q) \in Requests /\ Hydrated(q).at \notin Unborn
           /\ Sound(Hydrated(q)) /\ Right(Hydrated(q))
<1>1. CASE q.todo = {} /\ q.then = "done"
  <2>1. Hydrated(q) = Done /\ Done.at = "done"
    BY <1>1 DEF Hydrated, Continued, Done, Ended, Idle
  <2>2. QED
    BY <2>1, EndedFits DEF Unborn, Early
<1>2. CASE q.todo = {} /\ q.then # "done"
  <2> DEFINE h == [q EXCEPT !.at = q.then]
  <2>1. Hydrated(q) = h
    BY <1>2 DEF Hydrated, Continued
  <2>2. /\ h \in Requests /\ h.at = p.then /\ h.then = p.then /\ h.status = p.status
        /\ h.seen = p.seen /\ h.item = p.item /\ Same(p, h)
        /\ h.at \in {"offer", "get", "relate", "reget", "write", "tombstone", "delete", "sweep"}
    BY <1>2 DEF Requests, Same
  <2>3. Sound(h)
    BY <2>2 DEF Sound, Early, SeenBy, Same
  <2>4. Right(h)
    BY <2>2, SameRight
  <2>5. QED
    BY <2>1, <2>2, <2>3, <2>4 DEF Unborn, Early
<1>3. CASE q.todo # {}
  <2> DEFINE h == [q EXCEPT !.at = "clear"]
  <2>1. Hydrated(q) = h
    BY <1>3 DEF Hydrated
  <2>2. /\ h \in Requests /\ h.at = "clear" /\ h.then = p.then /\ h.status = p.status
        /\ h.seen = p.seen /\ h.item = p.item /\ Same(p, h) /\ h.todo \subseteq SeenBy(h)
    BY DEF Requests, Same, SeenBy
  <2>3. Sound(h)
    BY <2>2 DEF Sound, Early, SeenBy
  <2>4. Right(h)
    BY <2>2, SameRight
  <2>5. QED
    BY <2>1, <2>2, <2>3, <2>4 DEF Unborn, Early
<1>4. QED
  BY <1>1, <1>2, <1>3

\* The SELECT of chunks only tells the request which memories have none.
LEMMA SelectChunksStep ==
    ASSUME IInv, NEW r \in Request, SelectChunks(r)
    PROVE  IInv'
<1> DEFINE p == req[r]
           missing == {m \in SeenBy(p) : p.seen[m].status # "forgotten" /\ chunks[m] = {}}
           q == [p EXCEPT !.todo = missing]
<1>1. p \in Requests /\ Sound(p) /\ Right(p) /\ p.at = "chunks"
  BY RequestFacts DEF SelectChunks, At
<1>2. q \in Requests /\ Same(p, q) /\ q.then = p.then /\ q.status = p.status
      /\ q.todo \subseteq SeenBy(p)
  BY <1>1 DEF Requests, Same, SeenBy
<1>3. /\ Hydrated(q) \in Requests /\ Hydrated(q).at \notin Unborn
      /\ Sound(Hydrated(q)) /\ Right(Hydrated(q))
  BY <1>1, <1>2, HydratedFits
<1>4. Becomes(r, Hydrated(q)) /\ UNCHANGED <<stored, history>>
  BY DEF SelectChunks
<1>5. QED
  BY <1>3, <1>4, RequestFacts, QuietStep DEF stored

\* The DELETE of chunks: on an empty text, the request goes on to the next memory.
LEMMA ClearChunksStep ==
    ASSUME IInv, NEW r \in Request, ClearChunks(r)
    PROVE  IInv'
<1> DEFINE p == req[r]
<1>1. p \in Requests /\ Sound(p) /\ Right(p) /\ p.at = "clear"
  BY RequestFacts DEF ClearChunks, At
<1>2. PICK m \in p.todo :
          /\ chunks' = [chunks EXCEPT ![m] = {}]
          /\ Becomes(r, IF p.seen[m].text = Erased
                        THEN Hydrated([p EXCEPT !.todo = @ \ {m}])
                        ELSE [p EXCEPT !.at = "fill", !.part = 1, !.todo = @ \ {m},
                                       !.left = {m}])
  BY DEF ClearChunks
<1>3. p.todo \subseteq SeenBy(p) /\ m \in Request /\ m \in SeenBy(p)
  BY <1>1 DEF Sound, SeenBy
<1>4. chunks' \in [Request -> SUBSET (1 .. Parts)] /\ UNCHANGED <<row, relations, actions, history>>
  BY <1>2, RequestFacts DEF ClearChunks
<1>5. CASE p.seen[m].text = Erased
  <2> DEFINE q == [p EXCEPT !.todo = @ \ {m}]
  <2>1. q \in Requests /\ Same(p, q) /\ q.then = p.then /\ q.status = p.status
        /\ q.todo \subseteq SeenBy(p)
    BY <1>1, <1>3 DEF Requests, Same
  <2>2. /\ Hydrated(q) \in Requests /\ Hydrated(q).at \notin Unborn
        /\ Sound(Hydrated(q)) /\ Right(Hydrated(q))
    BY <1>1, <2>1, HydratedFits
  <2>3. Becomes(r, Hydrated(q))
    BY <1>2, <1>5
  <2>4. QED
    BY <1>4, <2>2, <2>3, RequestFacts, QuietStep
<1>6. CASE p.seen[m].text # Erased
  <2> DEFINE q == [p EXCEPT !.at = "fill", !.part = 1, !.todo = @ \ {m}, !.left = {m}]
  <2>1. /\ q \in Requests /\ q.at = "fill" /\ q.part = 1 /\ q.left = {m} /\ q.seen = p.seen
        /\ q.item = p.item /\ q.then = p.then /\ q.status = p.status
        /\ q.todo \subseteq p.todo /\ Same(p, q)
    <3>1. 1 \in 0 .. Parts /\ p.todo \ {m} \in SUBSET Request /\ {m} \in SUBSET Request
      BY <1>1, <1>3, TextAssumption DEF Requests
    <3>2. q \in Requests
      BY <1>1, <3>1 DEF Requests
    <3>3. QED
      BY <1>1, <3>2 DEF Requests, Same
  <2>2. p.seen[m].text \in Text
    BY <1>1, <1>3, <1>6, SeenFacts
  <2>3. Sound(q)
    BY <1>1, <1>3, <2>1, <2>2 DEF Sound, Early, SeenBy
  <2>4. Right(q)
    BY <1>1, <2>1, SameRight
  <2>5. Becomes(r, q)
    BY <1>2, <1>6
  <2>6. QED
    BY <1>4, <2>1, <2>3, <2>4, <2>5, RequestFacts, QuietStep DEF Unborn, Early
<1>7. QED
  BY <1>5, <1>6

\* The INSERT of a chunk, the conflict that ends the request included.
LEMMA InsertChunkStep ==
    ASSUME IInv, NEW r \in Request, InsertChunk(r)
    PROVE  IInv'
<1> DEFINE p == req[r]
<1>1. p \in Requests /\ Sound(p) /\ Right(p) /\ p.at = "fill" /\ p.part \in 1 .. Parts
  <2>1. p \in Requests /\ Sound(p) /\ Right(p) /\ p.at = "fill"
    BY RequestFacts DEF InsertChunk, At
  <2>2. QED
    BY <2>1, TextAssumption DEF Sound, Requests
<1>2. PICK m \in p.left :
          IF p.part \in chunks[m]
          THEN Becomes(r, Ended("failed")) /\ UNCHANGED chunks
          ELSE /\ chunks' = [chunks EXCEPT ![m] = @ \cup {p.part}]
               /\ Becomes(r, IF LastPart(p.part)
                             THEN Hydrated([p EXCEPT !.part = 0, !.left = {}])
                             ELSE [p EXCEPT !.part = @ + 1])
  BY DEF InsertChunk
<1>3. m \in Request
  BY <1>1 DEF Requests
<1>4. /\ UNCHANGED <<row, relations, actions, history>>
      /\ chunks' \in [Request -> SUBSET (1 .. Parts)]
  BY <1>1, <1>2, <1>3, RequestFacts DEF InsertChunk
<1>5. CASE Becomes(r, Ended("failed"))
  <2>1. /\ Ended("failed") \in Requests /\ Sound(Ended("failed")) /\ Right(Ended("failed"))
        /\ Ended("failed").at = "failed"
    BY EndedFits DEF Ended, Idle
  <2>2. QED
    BY <1>4, <1>5, <2>1, RequestFacts, QuietStep DEF Unborn, Early
<1>6. CASE LastPart(p.part) /\ Becomes(r, Hydrated([p EXCEPT !.part = 0, !.left = {}]))
  <2> DEFINE q == [p EXCEPT !.part = 0, !.left = {}]
  <2>1. q \in Requests /\ Same(p, q) /\ q.then = p.then /\ q.status = p.status
        /\ q.todo \subseteq SeenBy(p)
    <3>1. 0 \in 0 .. Parts
      BY TextAssumption
    <3>2. q \in Requests
      BY <1>1, <3>1 DEF Requests
    <3>3. p.todo \subseteq SeenBy(p)
      BY <1>1 DEF Sound
    <3>4. QED
      BY <1>1, <3>2, <3>3 DEF Requests, Same
  <2>2. /\ Hydrated(q) \in Requests /\ Hydrated(q).at \notin Unborn
        /\ Sound(Hydrated(q)) /\ Right(Hydrated(q))
    BY <1>1, <2>1, HydratedFits
  <2>3. QED
    BY <1>4, <1>6, <2>2, RequestFacts, QuietStep
<1>7. CASE ~LastPart(p.part) /\ Becomes(r, [p EXCEPT !.part = @ + 1])
  <2> DEFINE q == [p EXCEPT !.part = @ + 1]
  <2>1. p.part + 1 \in 1 .. Parts
    BY <1>1, <1>7, TextAssumption DEF LastPart
  <2>2. /\ q \in Requests /\ q.at = "fill" /\ q.part = p.part + 1 /\ q.left = p.left
        /\ q.seen = p.seen /\ q.item = p.item /\ q.then = p.then /\ q.status = p.status
        /\ q.todo = p.todo /\ Same(p, q)
    BY <1>1, <2>1, TextAssumption DEF Requests, Same
  <2>3. Sound(q)
    BY <1>1, <2>1, <2>2 DEF Sound, Early, SeenBy
  <2>4. Right(q)
    BY <1>1, <2>2, SameRight
  <2>5. QED
    BY <1>4, <1>7, <2>2, <2>3, <2>4, RequestFacts, QuietStep DEF Unborn, Early
<1>8. QED
  BY <1>2, <1>5, <1>6, <1>7

-----------------------------------------------------------------------------
(* The steps of reading and retrieving                                     *)

\* A request that was not made is one.
LEMMA IdleType ==
    Idle \in Requests /\ Idle.item = {} /\ Idle.pairs = {} /\ Idle.status = "none"
<1>1. NothingSeen \in [Request -> Rows] /\ 0 \in 0 .. Parts
  BY TextAssumption DEF NothingSeen, Rows
<1>2. Idle \in Requests
  BY <1>1 DEF Idle, Requests, RequestStatus
<1>3. QED
  BY <1>2 DEF Idle

\* A request that reads, and does nothing else.
LEMMA ReadsStep ==
    ASSUME IInv, NEW r \in Request, NEW q, q \in Requests, q.at \notin Unborn, Sound(q), Right(q),
           Becomes(r, q), UNCHANGED <<stored, history>>
    PROVE  IInv'
BY RequestFacts, QuietStep DEF stored

\* getMemory and listMemories read rows that are there.
LEMMA ReadStep ==
    ASSUME IInv, NEW r \in Request, Read(r)
    PROVE  IInv'
<1> DEFINE q == Idle
<1>1. PICK ms \in SUBSET Saved : Becomes(r, Reading(q, ms, "done"))
  BY DEF Read
<1>2. q \in Requests /\ q.item = {} /\ q.pairs = {}
  BY IdleType
<1>3. LET p == Reading(q, ms, "done") IN
      p \in Requests /\ p.at = "chunks" /\ Sound(p) /\ Right(p)
  BY <1>2, ReadingFits DEF Thens
<1>4. UNCHANGED <<stored, history>>
  BY DEF Read
<1>5. QED
  BY <1>1, <1>3, <1>4, ReadsStep DEF Unborn, Early

\* retrieveMemories reads the rows that are online.
LEMMA SelectCandidatesStep ==
    ASSUME IInv, NEW r \in Request, SelectCandidates(r)
    PROVE  IInv'
<1> DEFINE q == Idle
           ms == {m \in Saved : row[m].status \in Online}
<1>1. Becomes(r, Reading(q, ms, "offer")) /\ UNCHANGED <<stored, history>>
  BY DEF SelectCandidates
<1>2. q \in Requests /\ q.item = {} /\ q.pairs = {}
  BY IdleType
<1>3. LET p == Reading(q, ms, "offer") IN
      p \in Requests /\ p.at = "chunks" /\ Sound(p) /\ Right(p)
  BY <1>2, ReadingFits DEF Thens
<1>4. QED
  BY <1>1, <1>3, ReadsStep DEF Unborn, Early

\* What retrieveMemories hands out was online when it was read.
LEMMA OfferStep ==
    ASSUME IInv, NEW r \in Request, Offer(r)
    PROVE  IInv'
<1>p. PICK p : p = req[r]
  OBVIOUS
<1>q. PICK q : q = Done
  OBVIOUS
<1>1. p \in Requests /\ Sound(p) /\ Right(p) /\ p.at = "offer"
  BY <1>p, RequestFacts DEF Offer, At
<1>2. /\ req' = [req EXCEPT ![r] = q] /\ offered' = offered \cup SeenBy(p)
      /\ UNCHANGED <<row, chunks, relations, actions, asked, forgot, crashed>>
  BY <1>p, <1>q DEF Offer, Becomes, stored
<1>3. q \in Requests /\ Sound(q) /\ Right(q) /\ q.at = "done"
  BY <1>1, <1>q, EndedFits DEF Done, Ended, Idle
<1>4. Steps(r, q)
  BY <1>2, <1>3 DEF Steps, Unborn, Early
<1>5. \A m \in SeenBy(p) :
          m \in Request /\ ~Fresh(m) /\ (m \in asked \/ row[m].text \notin Injected)
  <2> TAKE m \in SeenBy(p)
  <2>1. m \in Request /\ ~Fresh(m)
    BY <1>1 DEF Right, Knows, SeenBy
  <2>2. row[m].text \in {p.seen[m].text, Erased, None} /\ p.seen[m].status \in Online
    BY <1>1 DEF Right, Sound
  <2>3. QED
    BY <1>1, <2>1, <2>2, TextAssumption DEF Right
<1>6. Right(q)'
  BY <1>2, <1>3, <1>4, RightAfter DEF Requests
<1>7. QED
  BY <1>2, <1>3, <1>4, <1>5, <1>6, RequestFacts, HistoryStep DEF IInv, TypeOK

-----------------------------------------------------------------------------
(* The steps of createMemory and generateMemorySamples                     *)

\* A request of which no memory has come yet.
LEMMA EarlyStep ==
    ASSUME IInv, NEW r \in Request, Fresh(r), UNCHANGED <<stored, history>>,
           NEW q \in Requests, Becomes(r, q), q.at \in Early, q.then = "done",
           q.seen = NothingSeen, q.pairs = {}, q.status \in Online, q.text \in Text,
           \A m, n \in q.item : m = n, q.item \subseteq Saved
    PROVE  IInv'
<1>1. SeenBy(q) = {}
  BY DEF SeenBy, NothingSeen, NoRow
<1>2. Sound(q)
  BY <1>1 DEF Sound, Early
<1>3. Right(q)
  BY <1>1, SavedIsBorn DEF Right, Knows, Early
<1>4. Steps(r, q)
  BY DEF Steps, Becomes
<1>5. QED
  BY <1>2, <1>3, <1>4, QuietStep, RequestFacts DEF stored

\* createMemory begins with a text and an online status.
LEMMA StartCreateStep ==
    ASSUME IInv, NEW r \in Request, StartCreate(r)
    PROVE  IInv'
<1>1. PICK text \in Text, status \in Online :
          Becomes(r, [Idle EXCEPT !.at = "find", !.text = text,
                                  !.status = status])
  BY DEF StartCreate
<1> DEFINE q == [Idle EXCEPT !.at = "find", !.text = text, !.status = status]
<1>2. q \in Requests
  <2>1. status \in RequestStatus /\ text \in Text \cup {None}
    BY DEF RequestStatus, Online, Status
  <2>2. QED
    BY <2>1, IdleType DEF Requests
<1>3. /\ q.at = "find" /\ q.then = "done" /\ q.seen = NothingSeen /\ q.pairs = {}
      /\ q.status = status /\ q.text = text /\ q.item = {}
  BY DEF Idle
<1>4. Fresh(r) /\ UNCHANGED <<stored, history>>
  BY DEF StartCreate, At, Fresh, Unborn
<1>5. QED
  BY <1>1, <1>2, <1>3, <1>4, EarlyStep DEF Early

\* generateMemorySamples begins with a text of the catalog.
LEMMA FindSampleStep ==
    ASSUME IInv, NEW r \in Request, FindSample(r)
    PROVE  IInv'
<1> DEFINE sample(text) == [Idle EXCEPT !.text = text, !.status = "active"]
<1>1. Fresh(r) /\ UNCHANGED <<stored, history>>
  BY DEF FindSample, At, Fresh, Unborn
<1>2. PICK text \in Sample :
          \/ Becomes(r, [sample(text) EXCEPT !.at = "find"])
          \/ \E m \in Live(text) :
                 Becomes(r, [sample(text) EXCEPT !.at = "sample", !.item = {m}])
  BY DEF FindSample
<1>3. text \in Text /\ Live(text) \subseteq Saved /\ Saved \subseteq Request
  BY TextAssumption DEF Live, Saved
<1>4. /\ sample(text) \in Requests /\ sample(text).then = "done"
      /\ sample(text).seen = NothingSeen /\ sample(text).pairs = {}
      /\ sample(text).status = "active" /\ sample(text).text = text /\ sample(text).item = {}
  <2>1. sample(text) \in Requests
    <3>1. "active" \in RequestStatus /\ text \in Text \cup {None}
      BY <1>3 DEF RequestStatus, Status
    <3>2. QED
      BY <3>1, IdleType DEF Requests
  <2>2. QED
    BY <2>1 DEF Idle
<1> HIDE DEF sample
<1>5. CASE Becomes(r, [sample(text) EXCEPT !.at = "find"])
  <2> DEFINE q == [sample(text) EXCEPT !.at = "find"]
  <2>1. /\ q \in Requests /\ q.at = "find" /\ q.then = "done" /\ q.seen = NothingSeen
        /\ q.pairs = {} /\ q.status = "active" /\ q.text = text /\ q.item = {}
    BY <1>4 DEF Requests
  <2>2. QED
    BY <1>1, <1>3, <1>5, <2>1, EarlyStep DEF Early, Online
<1>6. ASSUME NEW m \in Live(text),
             Becomes(r, [sample(text) EXCEPT !.at = "sample", !.item = {m}])
      PROVE  IInv'
  <2> DEFINE q == [sample(text) EXCEPT !.at = "sample", !.item = {m}]
  <2>1. /\ q \in Requests /\ q.at = "sample" /\ q.then = "done" /\ q.seen = NothingSeen
        /\ q.pairs = {} /\ q.status = "active" /\ q.text = text /\ q.item = {m}
    BY <1>3, <1>4 DEF Requests
  <2>2. QED
    BY <1>1, <1>3, <1>6, <2>1, EarlyStep DEF Early, Online
<1>7. QED
  BY <1>2, <1>5, <1>6

\* A sample that is gone when it is read is created.
LEMMA GetSampleStep ==
    ASSUME IInv, NEW r \in Request, GetSample(r)
    PROVE  IInv'
<1> DEFINE p == req[r]
           found == p.item \cap Saved
<1>1. /\ p \in Requests /\ Sound(p) /\ Right(p) /\ p.at = "sample" /\ Fresh(r)
      /\ UNCHANGED <<stored, history>>
  BY RequestFacts DEF GetSample, At, Fresh, Unborn, Early
<1>2. CASE found = {}
  <2> DEFINE q == [p EXCEPT !.at = "find", !.item = {}]
  <2>1. /\ q \in Requests /\ q.at = "find" /\ q.then = p.then /\ q.seen = p.seen
        /\ q.pairs = p.pairs /\ q.status = p.status /\ q.text = p.text /\ q.item = {}
    BY <1>1 DEF Requests
  <2>2. Steps(r, q) /\ UNCHANGED <<stored, history>>
    BY <1>1, <1>2, <2>1 DEF GetSample, Steps, Becomes
  <2>3. Sound(q)
    BY <1>1, <2>1 DEF Sound, Early, SeenBy
  <2>4. Right(q)
    BY <1>1, <2>1 DEF Right, Knows, SeenBy
  <2>5. QED
    BY <2>2, <2>3, <2>4, QuietStep, RequestFacts DEF stored
<1>3. CASE found # {}
  <2> DEFINE q == Idle
  <2>1. q \in Requests /\ q.item = {} /\ q.pairs = {}
    BY IdleType
  <2>2. LET n == Reading(q, found, "done") IN
        n \in Requests /\ n.at = "chunks" /\ Sound(n) /\ Right(n)
    BY <2>1, ReadingFits DEF Thens
  <2>3. Becomes(r, Reading(q, found, "done"))
    BY <1>3 DEF GetSample
  <2>4. QED
    BY <1>1, <2>2, <2>3, ReadsStep DEF Unborn, Early
<1>4. QED
  BY <1>2, <1>3

\* createMemory finds a memory to reinforce, or goes on to insert one.
LEMMA FindExistingStep ==
    ASSUME IInv, NEW r \in Request, FindExisting(r)
    PROVE  IInv'
<1> DEFINE p == req[r]
<1>1. /\ p \in Requests /\ Sound(p) /\ Right(p) /\ p.at = "find" /\ Fresh(r)
      /\ UNCHANGED <<stored, history>>
  BY RequestFacts DEF FindExisting, At, Fresh, Unborn, Early
<1>2. CASE Live(p.text) = {}
  <2> DEFINE q == [p EXCEPT !.at = "insert"]
  <2>1. /\ q \in Requests /\ q.at = "insert" /\ q.then = p.then /\ q.seen = p.seen
        /\ q.pairs = p.pairs /\ q.status = p.status /\ q.text = p.text /\ q.item = p.item
        /\ Same(p, q)
    BY <1>1 DEF Requests, Same
  <2>2. Steps(r, q)
    BY <1>1, <1>2, <2>1 DEF FindExisting, Steps, Becomes, Proceeds
  <2>3. Sound(q)
    BY <1>1, <2>1 DEF Sound, Early, SeenBy
  <2>4. Right(q)
    BY <1>1, <2>1, SameRight
  <2>5. QED
    BY <1>1, <2>2, <2>3, <2>4, QuietStep, RequestFacts DEF stored
<1>3. CASE Live(p.text) # {}
  <2>1. PICK m \in Live(p.text) :
            Becomes(r, [p EXCEPT !.at = "log", !.then = "reget", !.item = {m},
                                 !.status = row[m].status])
    BY <1>3 DEF FindExisting
  <2> DEFINE q == [p EXCEPT !.at = "log", !.then = "reget", !.item = {m},
                            !.status = row[m].status]
  <2>2. m \in Saved /\ m \in Request /\ ~Fresh(m) /\ row[m].status \in Status
    BY SavedIsBorn, RowFacts DEF Live, IInv
  <2>3. row[m].status \in RequestStatus
    BY <2>2 DEF RequestStatus
  <2>4. /\ q \in Requests /\ q.at = "log" /\ q.then = "reget" /\ q.seen = p.seen
        /\ q.pairs = p.pairs /\ q.status = row[m].status /\ q.item = {m}
    BY <1>1, <2>2, <2>3 DEF Requests
  <2>5. Sound(q)
    BY <1>1, <2>2, <2>4 DEF Sound, Early, SeenBy
  <2>6. Right(q)
    BY <1>1, <2>2, <2>4 DEF Right, Knows, SeenBy
  <2>7. QED
    BY <1>1, <2>1, <2>4, <2>5, <2>6, ReadsStep DEF Unborn, Early
<1>4. QED
  BY <1>2, <1>3

\* The INSERT is where a memory stops being fresh, suspended if it is injected.
LEMMA InsertMemoryStep ==
    ASSUME IInv, NEW r \in Request, InsertMemory(r)
    PROVE  IInv'
<1>p. PICK p : p = req[r]
  OBVIOUS
<1>1. p \in Requests /\ Sound(p) /\ Right(p) /\ p.at = "insert" /\ Fresh(r)
  BY <1>p, RequestFacts DEF InsertMemory, At, Fresh, Unborn, Early
<1>s. PICK status : status = InitialStatus(p.text, p.status)
  OBVIOUS
<1>q. PICK q : q = [p EXCEPT !.at = "log", !.then = "get", !.item = {r}, !.status = status]
  OBVIOUS
<1>x. PICK x : x = [status |-> status, text |-> p.text]
  OBVIOUS
<1>2. /\ row' = [row EXCEPT ![r] = x] /\ req' = [req EXCEPT ![r] = q]
      /\ UNCHANGED <<chunks, relations, actions, offered, asked, forgot, crashed>>
  BY <1>p, <1>q, <1>s, <1>x DEF InsertMemory, Becomes, history
<1>3. /\ p.text \in Text /\ status \in Status /\ status \in RequestStatus
      /\ p.text \in Injected => status \notin Online
  BY <1>1, <1>s DEF Sound, Early, InitialStatus, Online, Status, RequestStatus
<1>4. x \in Rows /\ x.text = p.text /\ x.status = status
  BY <1>3, <1>x DEF Rows
<1>5. /\ q \in Requests /\ q.at = "log" /\ q.then = "get" /\ q.seen = p.seen
      /\ q.pairs = p.pairs /\ q.status = status /\ q.item = {r}
  BY <1>1, <1>3, <1>q DEF Requests
<1>6. Steps(r, q)
  BY <1>2, <1>5 DEF Steps, Unborn, Early
<1>7. /\ \A m \in Request : Fresh(m)' => Fresh(m) /\ m # r
      /\ \A s \in Request : req'[s] = IF s = r THEN q ELSE req[s]
      /\ req' \in [Request -> Requests]
  <2>1. /\ \A m \in Request : Fresh(m)' => Fresh(m)
        /\ \A s \in Request : req'[s] = IF s = r THEN q ELSE req[s]
        /\ req' \in [Request -> Requests]
    BY <1>6, NoneReborn DEF IInv
  <2>2. ~Fresh(r)'
    BY <1>5, <2>1 DEF Fresh, Unborn, Early
  <2>3. QED
    BY <2>1, <2>2
<1>8. /\ row' \in [Request -> Rows]
      /\ \A m \in Request : row'[m] = IF m = r THEN x ELSE row[m]
  BY <1>2, <1>4 DEF IInv, TypeOK
<1>9. TypeOK'
  BY <1>2, <1>7, <1>8 DEF IInv, TypeOK
<1>10. RequestsRight'
  <2>1. \A s \in Request \ {r} : (Sound(req[s]) /\ Right(req[s]))'
    <3>1. \A m \in Request : ~Fresh(m) => row'[m].text \in {row[m].text, Erased, None}
      BY <1>1, <1>8
    <3>2. QED
      BY <1>2, <1>6, <3>1, OthersRight
  <2>2. Sound(q)
    BY <1>1, <1>3, <1>5 DEF Sound, Early, SeenBy
  <2>3. Right(q)'
    <3>1. \A m \in Request : Knows(q, m) => ~Fresh(m)'
      BY <1>1, <1>5, <1>7 DEF Right, Knows, SeenBy
    <3>2. \A m \in SeenBy(q) : m \in Request /\ m # r /\ m \in SeenBy(p)
      BY <1>1, <1>5 DEF Right, Knows, SeenBy
    <3>3. \A m \in SeenBy(q) :
              /\ row'[m].text \in {q.seen[m].text, Erased, None}
              /\ m \notin asked' /\ q.seen[m].text \in Injected
                    => q.seen[m].status \notin Online
      BY <1>1, <1>2, <1>5, <1>8, <3>2 DEF Right
    <3>4. QED
      BY <1>5, <3>1, <3>3 DEF Right
  <2>4. (Sound(req[r]) /\ Right(req[r]))'
    BY <1>7, <2>2, <2>3
  <2>5. QED
    BY <2>1, <2>4 DEF RequestsRight
<1>11. r \notin asked \cup offered \cup forgot
  BY <1>1 DEF IInv, MemoriesRight
<1>12. MemoriesRight'
  BY <1>2, <1>7, <1>8, <1>11 DEF IInv, MemoriesRight
<1>13. InjectedNeedsUser'
  BY <1>2, <1>3, <1>4, <1>8, <1>11 DEF IInv, InjectedNeedsUser
<1>14. QED
  BY <1>9, <1>10, <1>12, <1>13 DEF IInv

\* addMemoryAction writes actions alone.
LEMMA LogActionStep ==
    ASSUME IInv, NEW r \in Request, LogAction(r)
    PROVE  IInv'
<1> DEFINE p == req[r]
           q == [p EXCEPT !.at = p.then]
<1>1. p \in Requests /\ Sound(p) /\ Right(p) /\ p.at = "log"
  BY RequestFacts DEF LogAction, At
<1>2. /\ q \in Requests /\ q.at = p.then /\ q.then = p.then /\ q.status = p.status
      /\ q.seen = p.seen /\ q.item = p.item /\ Same(p, q) /\ q.at \in Thens
  BY <1>1 DEF Requests, Same, Thens
<1>3. Sound(q)
  BY <1>1, <1>2 DEF Sound, Early, SeenBy, Thens
<1>4. Right(q)
  BY <1>1, <1>2, SameRight DEF Thens
<1>5. actions' \in [Request -> SUBSET Status]
  <2>1. PICK m \in p.item : actions' = [actions EXCEPT ![m] = @ \cup {p.status}]
    BY DEF LogAction
  <2>2. m \in Request /\ p.status \in Status
    BY <1>1 DEF Requests, Sound
  <2>3. QED
    BY <2>1, <2>2, RequestFacts
<1>6. Becomes(r, q) /\ UNCHANGED <<row, chunks, relations, history>>
  BY DEF LogAction, Proceeds
<1>7. QED
  BY <1>2, <1>3, <1>4, <1>5, <1>6, RequestFacts, QuietStep DEF Unborn, Early, Thens

\* A request that reads some memories again, and goes on.
LEMMA RereadStep ==
    ASSUME IInv, NEW r \in Request, NEW ms \in SUBSET Saved, NEW then \in {"relate", "done"},
           Becomes(r, Reading(req[r], ms, then)), UNCHANGED <<stored, history>>
    PROVE  IInv'
<1> DEFINE p == req[r]
           q == Reading(p, ms, then)
<1>1. p \in Requests /\ Sound(p) /\ Right(p)
  BY RequestFacts
<1>2. /\ \A m, n \in p.item : m = n
      /\ \A m \in p.item : ~Fresh(m)
      /\ \A pair \in p.pairs : \A m \in pair : ~Fresh(m)
  BY <1>1 DEF Sound, Right, Knows, Requests
<1>3. q \in Requests /\ q.at = "chunks" /\ Sound(q) /\ Right(q)
  BY <1>1, <1>2, ReadingFits DEF Thens
<1>4. QED
  BY <1>3, ReadsStep DEF Unborn, Early

\* createMemory reads its memory again, unless it is gone.
LEMMA GetCreatedStep ==
    ASSUME IInv, NEW r \in Request, GetCreated(r)
    PROVE  IInv'
<1>1. UNCHANGED <<stored, history>>
  BY DEF GetCreated
<1>2. CASE r \in Saved
  <2>1. Becomes(r, Reading(req[r], {r}, "relate")) /\ {r} \in SUBSET Saved
    BY <1>2 DEF GetCreated
  <2>2. QED
    BY <1>1, <2>1, RereadStep
<1>3. CASE r \notin Saved
  <2>1. /\ Ended("failed") \in Requests /\ Sound(Ended("failed")) /\ Right(Ended("failed"))
        /\ Ended("failed").at = "failed" /\ Becomes(r, Ended("failed"))
    BY <1>3, EndedFits DEF GetCreated, Ended, Idle
  <2>2. QED
    BY <1>1, <2>1, ReadsStep DEF Unborn, Early
<1>4. QED
  BY <1>2, <1>3

\* The SELECT of memories to relate is kept by the request alone.
LEMMA SelectOthersStep ==
    ASSUME IInv, NEW r \in Request, SelectOthers(r)
    PROVE  IInv'
<1> DEFINE p == req[r]
           q == [p EXCEPT !.at = "relating", !.left = Copies(r)]
<1>1. p \in Requests /\ Sound(p) /\ Right(p) /\ Copies(r) \in SUBSET Request
  BY RequestFacts DEF Copies, Saved
<1>2. /\ q \in Requests /\ q.at = "relating" /\ q.then = p.then /\ q.status = p.status
      /\ q.seen = p.seen /\ q.item = p.item /\ Same(p, q)
  BY <1>1 DEF Requests, Same
<1>3. Sound(q)
  BY <1>1, <1>2 DEF Sound, Early, SeenBy
<1>4. Right(q)
  BY <1>1, <1>2, SameRight
<1>5. Becomes(r, q) /\ UNCHANGED <<stored, history>>
  BY DEF SelectOthers
<1>6. QED
  BY <1>2, <1>3, <1>4, <1>5, ReadsStep DEF Unborn, Early

\* The INSERTs of relations.
LEMMA RelateStep ==
    ASSUME IInv, NEW r \in Request, Relate(r)
    PROVE  IInv'
<1> DEFINE p == req[r]
<1>1. p \in Requests /\ Sound(p) /\ Right(p) /\ p.at = "relating"
  BY RequestFacts DEF Relate, At
<1>2. UNCHANGED <<row, chunks, actions, history>>
  BY DEF Relate
<1>3. PICK at \in {"relating", "reget"}, left \in SUBSET Request :
          /\ Becomes(r, [p EXCEPT !.at = at, !.left = left])
          /\ relations' \subseteq Request \X Request
  <2>1. CASE p.left = {}
    <3>1. Becomes(r, [p EXCEPT !.at = "reget"]) /\ UNCHANGED relations
      BY <2>1 DEF Relate, Proceeds
    <3>2. [p EXCEPT !.at = "reget"] = [p EXCEPT !.at = "reget", !.left = p.left]
      BY <1>1 DEF Requests
    <3>3. p.left \in SUBSET Request /\ relations' \subseteq Request \X Request
      BY <2>1, <3>1, RequestFacts
    <3>4. QED
      BY <3>1, <3>2, <3>3
  <2>2. CASE p.left # {}
    <3>1. PICK m \in p.left :
              /\ relations' = relations \cup {<<r, m>>}
              /\ Becomes(r, [p EXCEPT !.left = @ \ {m}])
      BY <2>2 DEF Relate
    <3>2. [p EXCEPT !.left = @ \ {m}] = [p EXCEPT !.at = "relating", !.left = p.left \ {m}]
      BY <1>1 DEF Requests
    <3>3. p.left \ {m} \in SUBSET Request /\ relations' \subseteq Request \X Request
      BY <1>1, <3>1, RequestFacts DEF Requests
    <3>4. QED
      BY <3>1, <3>2, <3>3
  <2>3. QED
    BY <2>1, <2>2
<1> DEFINE q == [p EXCEPT !.at = at, !.left = left]
<1>4. /\ q \in Requests /\ q.at = at /\ q.then = p.then /\ q.status = p.status
      /\ q.seen = p.seen /\ q.item = p.item /\ Same(p, q)
  BY <1>1 DEF Requests, Same
<1>5. Sound(q)
  BY <1>1, <1>4 DEF Sound, Early, SeenBy
<1>6. Right(q)
  BY <1>1, <1>4, SameRight
<1>7. QED
  BY <1>2, <1>3, <1>4, <1>5, <1>6, RequestFacts, QuietStep DEF Unborn, Early

\* The last read of a request that has written.
LEMMA RegetStep ==
    ASSUME IInv, NEW r \in Request, Reget(r)
    PROVE  IInv'
<1> DEFINE found == req[r].item \cap Saved
<1>1. UNCHANGED <<stored, history>>
  BY DEF Reget
<1>2. CASE found = {}
  <2>1. /\ Done \in Requests /\ Sound(Done) /\ Right(Done)
        /\ Done.at = "done" /\ Becomes(r, Done)
    BY <1>2, EndedFits, RequestFacts DEF Reget, Done, Ended, Idle
  <2>2. QED
    BY <1>1, <2>1, ReadsStep DEF Unborn, Early
<1>3. CASE found # {}
  <2>1. Becomes(r, Reading(Idle, found, "done")) /\ found \in SUBSET Saved
    BY <1>3 DEF Reget
  <2>2. LET n == Reading(Idle, found, "done") IN
        n \in Requests /\ n.at = "chunks" /\ Sound(n) /\ Right(n)
    BY IdleType, ReadingFits DEF Thens
  <2>3. QED
    BY <1>1, <2>1, <2>2, ReadsStep DEF Unborn, Early
<1>4. QED
  BY <1>2, <1>3

-----------------------------------------------------------------------------
(* The steps of updateMemory, forgetMemory and deleteSampleMemory          *)

\* A request about one memory, which it reads first.
LEMMA StartOnFits ==
    ASSUME IInv, NEW m \in Saved, NEW start \in Requests, start.item = {m}, start.pairs = {},
           NEW first \in {"write", "tombstone", "delete"},
           first = "tombstone" => start.status = "forgotten",
           first = "write" => start.status \in Status \cup {"keep"}
    PROVE  LET q == Reading(start, {m}, first) IN
           /\ q \in Requests /\ q.at = "chunks" /\ q.item = {m} /\ q.pairs = {}
           /\ q.status = start.status
           /\ SeenBy(q) = {m} /\ q.seen[m] = row[m]
           /\ Sound(q)
           /\ (first = "write" /\ start.status \in Online => m \in asked) => Right(q)
<1> DEFINE q == Reading(start, {m}, first)
<1>1. m \in Request /\ ~Fresh(m) /\ row[m].status # "none"
  BY SavedIsBorn DEF Saved
<1>3. q \in Requests
  <2>1. [n \in Request |-> IF n \in {m} THEN row[n] ELSE NoRow] \in [Request -> Rows]
    BY RowFacts DEF IInv, Rows
  <2>2. QED
    BY <1>1, <2>1 DEF Reading, Requests, Saved
<1>4. /\ q.at = "chunks" /\ q.then = first /\ q.item = {m} /\ q.pairs = {}
      /\ q.status = start.status
      /\ q.seen = [n \in Request |-> IF n \in {m} THEN row[n] ELSE NoRow]
  BY DEF Reading, Requests
<1>5. SeenBy(q) = {m} /\ q.seen[m] = row[m]
  BY <1>1, <1>4 DEF SeenBy, NoRow
<1>6. Sound(q)
  BY <1>1, <1>4, <1>5 DEF Sound, Early
<1>7. ASSUME first = "write" /\ start.status \in Online => m \in asked
      PROVE  Right(q)
  <2>1. \A n \in Request : Knows(q, n) => ~Fresh(n)
    BY <1>1, <1>4, <1>5 DEF Knows
  <2>2. m \notin asked /\ row[m].text \in Injected => row[m].status \notin Online
    BY <1>1 DEF IInv, InjectedNeedsUser
  <2>3. QED
    BY <1>4, <1>5, <1>7, <2>1, <2>2 DEF Right
<1>8. QED
  BY <1>3, <1>4, <1>5, <1>6, <1>7

\* updateMemory begins; a status that is online is what its user asked for.
LEMMA StartUpdateStep ==
    ASSUME IInv, NEW r \in Request, StartUpdate(r)
    PROVE  IInv'
<1>1. PICK m \in Saved, status \in Status \cup {"keep"} :
          /\ StartOn(r, m, status, "write")
          /\ asked' = IF status \in Online THEN asked \cup {m} ELSE asked
  BY DEF StartUpdate
<1> DEFINE start == [Idle EXCEPT !.item = {m}, !.status = status]
<1>q. PICK q : q = Reading(start, {m}, "write")
  OBVIOUS
<1>2. status \in RequestStatus /\ m \in Request /\ ~Fresh(m)
  BY SavedIsBorn DEF RequestStatus
<1>3. /\ q \in Requests /\ q.at = "chunks" /\ q.item = {m} /\ q.pairs = {}
      /\ q.status = status /\ SeenBy(q) = {m} /\ q.seen[m] = row[m] /\ Sound(q)
  <2>1. start \in Requests
    BY <1>2, IdleType DEF Requests
  <2>2. start.item = {m} /\ start.pairs = {} /\ start.status = status
    BY DEF Idle
  <2> HIDE DEF start
  <2>3. QED
    BY <1>q, <2>1, <2>2, StartOnFits
<1>4. /\ req' = [req EXCEPT ![r] = q]
      /\ UNCHANGED <<row, chunks, relations, actions, offered, forgot, crashed>>
  BY <1>1, <1>q DEF StartUpdate, StartOn, Becomes, stored
<1>5. Steps(r, q)
  BY <1>3, <1>4 DEF Steps, Unborn, Early
<1>6. Right(q)'
  <2>1. \A n \in Request : Knows(q, n) => ~Fresh(n)'
    BY <1>2, <1>3, <1>5, NoneReborn DEF Knows, IInv
  <2>2. m \notin asked' /\ row[m].text \in Injected => row[m].status \notin Online
    BY <1>1, <1>2 DEF IInv, InjectedNeedsUser
  <2>3. status \in Online => m \in asked'
    BY <1>1
  <2>4. QED
    BY <1>3, <1>4, <2>1, <2>2, <2>3 DEF Right
<1>7. asked \subseteq asked' /\ asked' \subseteq asked \cup {m}
  BY <1>1
<1>8. QED
  BY <1>2, <1>3, <1>4, <1>5, <1>6, <1>7, RequestFacts, HistoryStep DEF IInv, TypeOK

\* A request about one memory has that memory.
LEMMA ItemFacts ==
    ASSUME IInv, NEW r \in Request, NEW m \in req[r].item
    PROVE  m \in Request /\ ~Fresh(m) /\ \A n \in req[r].item : n = m
BY RequestFacts DEF Requests, Right, Knows, Sound

\* updateMemory writes the status it was asked for, or the one it has seen.
LEMMA WriteStep ==
    ASSUME IInv, NEW r \in Request, Write(r)
    PROVE  IInv'
<1>p. PICK p : p = req[r]
  OBVIOUS
<1>1. p \in Requests /\ Sound(p) /\ Right(p) /\ p.at = "write"
  BY <1>p, RequestFacts DEF Write, At
<1>2. PICK m \in p.item :
          LET status == NextStatus(p.status, p.seen[m].status) IN
          /\ row' = IF m \in Saved THEN [row EXCEPT ![m].status = status] ELSE row
          /\ Becomes(r, [p EXCEPT !.at = "log", !.then = "reget", !.status = status])
  BY <1>p DEF Write
<1>3. m \in Request /\ ~Fresh(m)
  BY <1>p, ItemFacts
<1>s. PICK status : status = NextStatus(p.status, p.seen[m].status)
  OBVIOUS
<1>q. PICK q : q = [p EXCEPT !.at = "log", !.then = "reget", !.status = status]
  OBVIOUS
<1>x. PICK x : x = IF m \in Saved THEN [row[m] EXCEPT !.status = status] ELSE row[m]
  OBVIOUS
<1>4. m \in SeenBy(p) /\ p.seen[m].status \in Status /\ p.status \in Status \cup {"keep"}
  BY <1>1, <1>3, SeenFacts DEF Sound, SeenBy
<1>5. status \in Status /\ status \in RequestStatus
  BY <1>4, <1>s DEF NextStatus, RequestStatus
<1>6. /\ q \in Requests /\ q.at = "log" /\ q.then = "reget" /\ q.status = status
      /\ q.seen = p.seen /\ q.item = p.item /\ Same(p, q)
  BY <1>1, <1>5, <1>q DEF Requests, Same
<1>7. /\ row \in [Request -> Rows] /\ row[m] \in Rows
      /\ m \in Saved => row[m].status \in Status /\ row[m].text \in Text \cup {Erased}
  BY <1>3, RowFacts DEF IInv, TypeOK
<1>8. /\ x \in Rows /\ x.text = row[m].text
      /\ m \in Saved => x.status = status
      /\ m \notin Saved => x = row[m]
  <2>1. CASE m \in Saved
    <3>1. row[m] \in [status : Status, text : Text \cup {Erased}]
      BY <1>7, <2>1 DEF Rows, Saved, NoRow
    <3>2. QED
      BY <1>5, <1>x, <2>1, <3>1 DEF Rows
  <2>2. CASE m \notin Saved
    BY <1>7, <1>x, <2>2
  <2>3. QED
    BY <2>1, <2>2
<1>9. row' = [row EXCEPT ![m] = x]
  BY <1>2, <1>3, <1>s, <1>x, <1>7
<1>10. Steps(r, q)
  BY <1>2, <1>6, <1>q, <1>s DEF Steps, Becomes, Unborn, Early
<1>11. UNCHANGED <<chunks, relations, actions, history>>
  BY DEF Write
<1>12. Sound(q)
  BY <1>1, <1>5, <1>6 DEF Sound, Early, SeenBy
<1>13. Right(q)
  BY <1>1, <1>6, SameRight
<1>14. Right(q)'
  <2>1. \A n \in Request : row'[n].text \in {row[n].text, Erased, None}
    BY <1>7, <1>8, <1>9
  <2>2. asked \subseteq asked'
    BY <1>11 DEF history
  <2>3. QED
    BY <1>6, <1>10, <1>13, <2>1, <2>2, RightAfter DEF Requests
<1>15. ASSUME m \notin asked, x.text \in Injected
       PROVE  x.status \notin Online
  <2>1. CASE m \notin Saved
    BY <1>3, <1>8, <1>15, <2>1 DEF IInv, InjectedNeedsUser
  <2>2. CASE m \in Saved /\ p.status = "keep"
    <3>1. p.seen[m].text \in Injected
      BY <1>1, <1>4, <1>8, <1>15, TextAssumption DEF Right
    <3>2. QED
      BY <1>1, <1>4, <1>8, <1>15, <1>s, <2>2, <3>1 DEF Right, NextStatus
  <2>3. CASE m \in Saved /\ p.status # "keep"
    BY <1>1, <1>8, <1>15, <1>s, <2>3 DEF Right, NextStatus
  <2>4. QED
    BY <2>1, <2>2, <2>3
<1>16. QED
  BY <1>3, <1>8, <1>9, <1>10, <1>11, <1>12, <1>14, <1>15, RequestFacts, RowStep

\* forgetMemory begins.
LEMMA StartForgetStep ==
    ASSUME IInv, NEW r \in Request, StartForget(r)
    PROVE  IInv'
<1>1. PICK m \in Saved : StartOn(r, m, "forgotten", "tombstone")
  BY DEF StartForget
<1> DEFINE start == [Idle EXCEPT !.item = {m}, !.status = "forgotten"]
           q == Reading(start, {m}, "tombstone")
<1>2. Becomes(r, q)
  BY <1>1 DEF StartOn
<1>3. q \in Requests /\ q.at = "chunks" /\ Sound(q) /\ Right(q)
  <2>1. start \in Requests
    <3>1. {m} \in SUBSET Request /\ "forgotten" \in RequestStatus
      BY DEF Saved, RequestStatus, Status
    <3>2. QED
      BY <3>1, IdleType DEF Requests
  <2>2. start.item = {m} /\ start.pairs = {} /\ start.status = "forgotten"
    BY DEF Idle
  <2> HIDE DEF start
  <2>3. q \in Requests /\ q.at = "chunks" /\ Sound(q)
    BY <2>1, <2>2, StartOnFits
  <2>4. Right(q)
    BY <2>1, <2>2, StartOnFits
  <2>5. QED
    BY <2>3, <2>4
<1>4. UNCHANGED <<stored, history>>
  BY DEF StartForget
<1>5. QED
  BY <1>2, <1>3, <1>4, ReadsStep DEF Unborn, Early

\* deleteSampleMemory begins.
LEMMA StartDeleteStep ==
    ASSUME IInv, NEW r \in Request, StartDelete(r)
    PROVE  IInv'
<1>1. PICK m \in Saved : StartOn(r, m, "none", "delete")
  BY DEF StartDelete
<1> DEFINE start == [Idle EXCEPT !.item = {m}, !.status = "none"]
           q == Reading(start, {m}, "delete")
<1>2. Becomes(r, q)
  BY <1>1 DEF StartOn
<1>3. q \in Requests /\ q.at = "chunks" /\ Sound(q) /\ Right(q)
  <2>1. start \in Requests
    <3>1. {m} \in SUBSET Request /\ "none" \in RequestStatus
      BY DEF Saved, RequestStatus, Status
    <3>2. QED
      BY <3>1, IdleType DEF Requests
  <2>2. start.item = {m} /\ start.pairs = {} /\ start.status = "none"
    BY DEF Idle
  <2> HIDE DEF start
  <2>3. QED
    BY <2>1, <2>2, StartOnFits
<1>4. UNCHANGED <<stored, history>>
  BY DEF StartDelete
<1>5. QED
  BY <1>2, <1>3, <1>4, ReadsStep DEF Unborn, Early

\* forgetMemory erases the text of the row.
LEMMA EntombStep ==
    ASSUME IInv, NEW r \in Request, Entomb(r)
    PROVE  IInv'
<1>p. PICK p : p = req[r]
  OBVIOUS
<1>1. p \in Requests /\ Sound(p) /\ Right(p) /\ p.at = "tombstone"
  BY <1>p, RequestFacts DEF Entomb, At
<1>2. PICK m \in p.item : row' = IF m \in Saved THEN [row EXCEPT ![m] = Tombstone(m)] ELSE row
  BY <1>p DEF Entomb
<1>3. m \in Request /\ ~Fresh(m) /\ \A n \in p.item : n = m
  BY <1>p, ItemFacts
<1>q. PICK q : q = [p EXCEPT !.at = "erase"]
  OBVIOUS
<1>x. PICK x : x = IF m \in Saved THEN Tombstone(m) ELSE row[m]
  OBVIOUS
<1>4. row \in [Request -> Rows] /\ m \notin Saved => row[m].text = None
  BY <1>3, RowFacts DEF IInv, TypeOK
<1>5. x \in Rows /\ x.text \in {Erased, None} /\ x.text \notin Text
  BY <1>3, <1>4, <1>x, RowFacts, TextAssumption DEF IInv, Tombstone, Rows, Status
<1>6. row' = [row EXCEPT ![m] = x]
  BY <1>2, <1>3, <1>x, RowFacts DEF IInv, TypeOK
<1>7. /\ q \in Requests /\ q.at = "erase" /\ q.then = p.then /\ q.status = p.status
      /\ q.seen = p.seen /\ q.item = p.item /\ q.pairs = p.pairs
  BY <1>1, <1>q DEF Requests
<1>8. Steps(r, q)
  BY <1>p, <1>q, <1>7 DEF Entomb, Proceeds, Becomes, Steps, Unborn, Early
<1>9. UNCHANGED <<chunks, relations, actions, history>>
  BY DEF Entomb
<1>10. Sound(q)
  BY <1>1, <1>7 DEF Sound, Early, SeenBy
<1>11. Right(q)'
  <2>1. Right(p)'
    <3>1. \A n \in Request : row'[n].text \in {row[n].text, Erased, None}
      BY <1>5, <1>6 DEF IInv, TypeOK
    <3>2. asked \subseteq asked' /\ p.item \subseteq Request
      BY <1>1, <1>9 DEF history, Requests
    <3>3. QED
      BY <1>1, <1>8, <3>1, <3>2, RightAfter
  <2>2. \A n \in q.item : row'[n].text \notin Text
    BY <1>3, <1>5, <1>6, <1>7 DEF IInv, TypeOK
  <2>3. QED
    BY <1>1, <1>7, <2>1, <2>2 DEF Right, Knows, SeenBy
<1>12. QED
  BY <1>3, <1>5, <1>6, <1>8, <1>9, <1>10, <1>11, RequestFacts, RowStep, TextAssumption

\* forgetMemory has erased the row before its chunks.
LEMMA EraseChunksStep ==
    ASSUME IInv, NEW r \in Request, EraseChunks(r)
    PROVE  IInv'
<1>p. PICK p : p = req[r]
  OBVIOUS
<1>q. PICK q : q = [p EXCEPT !.at = "log", !.then = "reget"]
  OBVIOUS
<1>1. p \in Requests /\ Sound(p) /\ Right(p) /\ p.at = "erase"
  BY <1>p, RequestFacts DEF EraseChunks, At
<1>2. \A m \in p.item : m \in Request /\ ~Fresh(m) /\ row[m].text \notin Text
  BY <1>1, <1>p, ItemFacts DEF Right
<1>3. /\ q \in Requests /\ q.at = "log" /\ q.then = "reget" /\ q.status = p.status
      /\ q.seen = p.seen /\ q.item = p.item /\ Same(p, q)
  BY <1>1, <1>q DEF Requests, Same
<1>4. Steps(r, q)
  BY <1>p, <1>q, <1>3 DEF EraseChunks, Becomes, Steps, Unborn, Early
<1>5. Sound(q)
  BY <1>1, <1>3 DEF Sound, Early, SeenBy, Status
<1>6. /\ UNCHANGED <<row, relations, actions, offered, asked, crashed>>
      /\ forgot' = forgot \cup p.item
  BY <1>p DEF EraseChunks
<1>7. chunks' \in [Request -> SUBSET (1 .. Parts)]
  <2>1. PICK m \in p.item : chunks' = [chunks EXCEPT ![m] = {}]
    BY <1>p DEF EraseChunks
  <2>2. QED
    BY <1>2, <2>1, RequestFacts
<1>8. Right(q)'
  <2>1. Right(q)
    BY <1>1, <1>3, SameRight
  <2>2. QED
    BY <1>3, <1>4, <1>6, <2>1, RightAfter DEF Requests
<1>9. QED
  BY <1>2, <1>4, <1>5, <1>6, <1>7, <1>8, RequestFacts, HistoryStep DEF IInv, TypeOK

\* deleteSampleMemory deletes a sample, and refuses the rest.
LEMMA DeleteStep ==
    ASSUME IInv, NEW r \in Request, Delete(r)
    PROVE  IInv'
<1>p. PICK p : p = req[r]
  OBVIOUS
<1>1. p \in Requests
  BY <1>p, RequestFacts
<1>2. UNCHANGED history
  BY DEF Delete
<1>3. PICK m \in p.item :
          IF p.seen[m].text \in Sample
          THEN /\ row' = [row EXCEPT ![m] = NoRow]
               /\ chunks' = [chunks EXCEPT ![m] = {}]
               /\ relations' = {pair \in relations : m \notin {pair[1], pair[2]}}
               /\ actions' = [actions EXCEPT ![m] = {}]
               /\ Becomes(r, Done)
          ELSE Becomes(r, Ended("failed")) /\ UNCHANGED stored
  BY <1>p DEF Delete
<1>4. m \in Request /\ ~Fresh(m)
  BY <1>p, ItemFacts
<1>5. CASE p.seen[m].text \in Sample
  <2>q. PICK q : q = Done
    OBVIOUS
  <2>1. q \in Requests /\ Sound(q) /\ Right(q) /\ q.at = "done"
    BY <1>1, <2>q, EndedFits DEF Done, Ended, Idle
  <2>2. Steps(r, q)
    BY <1>3, <1>5, <2>q, <2>1 DEF Becomes, Steps, Unborn, Early
  <2>3. /\ row' = [row EXCEPT ![m] = NoRow] /\ NoRow \in Rows /\ NoRow.text = None
        /\ NoRow.status \notin Online
    BY <1>3, <1>5 DEF Rows, NoRow, Online
  <2>4. /\ chunks' \in [Request -> SUBSET (1 .. Parts)]
        /\ relations' \subseteq Request \X Request
        /\ actions' \in [Request -> SUBSET Status]
    BY <1>3, <1>4, <1>5, RequestFacts
  <2>5. Right(q)'
    <3>1. \A n \in Request : row'[n].text \in {row[n].text, Erased, None}
      BY <2>3 DEF IInv, TypeOK
    <3>2. asked \subseteq asked' /\ q.item \subseteq Request
      BY <1>2, <2>1 DEF history, Requests
    <3>3. QED
      BY <2>1, <2>2, <3>1, <3>2, RightAfter
  <2>6. QED
    BY <1>2, <1>4, <2>1, <2>2, <2>3, <2>4, <2>5, RowStep
<1>6. CASE p.seen[m].text \notin Sample
  <2>1. /\ Ended("failed") \in Requests /\ Sound(Ended("failed")) /\ Right(Ended("failed"))
        /\ Ended("failed").at = "failed"
    BY EndedFits DEF Ended, Idle
  <2>2. QED
    BY <1>2, <1>3, <1>6, <2>1, ReadsStep DEF Unborn, Early
<1>7. QED
  BY <1>5, <1>6

-----------------------------------------------------------------------------
(* The steps of maintainMemories                                           *)

\* maintainMemories begins with a list of every memory.
LEMMA StartMaintainStep ==
    ASSUME IInv, NEW r \in Request, StartMaintain(r)
    PROVE  IInv'
<1> DEFINE start == Idle
           p == Reading(start, Saved, "sweep")
           pairs == {{m, n} : m, n \in {o \in Saved : row[o].status \in Online}}
           q == [p EXCEPT !.pairs = pairs]
<1>1. start \in Requests /\ start.item = {} /\ start.pairs = {}
  BY IdleType
<1>2. p \in Requests /\ p.at = "chunks" /\ Sound(p) /\ Right(p)
  BY <1>1, ReadingFits DEF Thens
<1>3. pairs \in SUBSET SUBSET Request /\ \A pair \in pairs : \A m \in pair : m \in Saved
  BY DEF Saved
<1>4. Becomes(r, q) /\ UNCHANGED <<stored, history>>
  BY DEF StartMaintain
<1> HIDE DEF start, p, pairs
<1>5. /\ q \in Requests /\ q.at = "chunks" /\ q.then = p.then /\ q.status = p.status
      /\ q.seen = p.seen /\ q.item = p.item /\ q.pairs = pairs
  BY <1>2, <1>3 DEF Requests
<1>6. Sound(q)
  BY <1>2, <1>5 DEF Sound, Early, SeenBy
<1>7. Right(q)
  <2>1. \A m \in Request : Knows(q, m) => ~Fresh(m)
    BY <1>2, <1>3, <1>5, SavedIsBorn DEF Right, Knows, SeenBy
  <2>2. QED
    BY <1>2, <1>5, <2>1 DEF Right, SeenBy
<1>8. QED
  BY <1>4, <1>5, <1>6, <1>7, ReadsStep DEF Unborn, Early

\* Maintenance gives a memory that it knows of a status that is not online.
LEMMA MovesStep ==
    ASSUME IInv, NEW r \in Request, NEW m \in Request, NEW q,
           NEW status \in {"archived", "suspended"}, Moves(r, m, status, q),
           At(r, "sweep"), Knows(req[r], m),
           q \in Requests, q.at = "log", q.then = "sweep", q.item = {m}, q.status = status,
           q.seen = req[r].seen, q.pairs \subseteq req[r].pairs
    PROVE  IInv'
<1>p. PICK p : p = req[r]
  OBVIOUS
<1>1. p \in Requests /\ Sound(p) /\ Right(p) /\ p.at = "sweep" /\ ~Fresh(m)
  BY <1>p, RequestFacts DEF At, Right
<1>x. PICK x : x = IF m \in Saved THEN [row[m] EXCEPT !.status = status] ELSE row[m]
  OBVIOUS
<1>2. row \in [Request -> Rows] /\ row[m] \in Rows /\ status \in Status \ Online
  BY RowFacts DEF IInv, TypeOK, Status, Online
<1>3. /\ x \in Rows /\ x.text = row[m].text /\ x.status \notin Online
  <2>1. CASE m \in Saved
    <3>1. row[m] \in [status : Status, text : Text \cup {Erased}]
      BY <1>2, <2>1 DEF Rows, Saved, NoRow
    <3>2. QED
      BY <1>2, <1>x, <2>1, <3>1 DEF Rows
  <2>2. CASE m \notin Saved
    BY <1>2, <1>x, <2>2 DEF Saved, Online
  <2>3. QED
    BY <2>1, <2>2
<1>4. row' = [row EXCEPT ![m] = x]
  BY <1>2, <1>x DEF Moves
<1>5. Steps(r, q)
  BY DEF Moves, Becomes, Steps, Unborn, Early
<1>6. UNCHANGED <<chunks, relations, actions, history>>
  BY DEF Moves
<1>7. Sound(q)
  BY <1>2 DEF Sound, Early
<1>8. Right(q)
  BY <1>1, <1>p DEF Right, Knows, SeenBy
<1>9. Right(q)'
  <2>1. \A n \in Request : row'[n].text \in {row[n].text, Erased, None}
    BY <1>2, <1>3, <1>4
  <2>2. asked \subseteq asked'
    BY <1>6 DEF history
  <2>3. QED
    BY <1>5, <1>8, <2>1, <2>2, RightAfter
<1>10. QED
  BY <1>1, <1>3, <1>4, <1>5, <1>6, <1>7, <1>9, RequestFacts, RowStep

\* maintainMemories archives a memory of its list.
LEMMA ArchiveStep ==
    ASSUME IInv, NEW r \in Request, Archive(r)
    PROVE  IInv'
<1>p. PICK p : p = req[r]
  OBVIOUS
<1>1. p \in Requests
  BY <1>p, RequestFacts
<1>2. PICK m \in SeenBy(p) \ p.todo :
          Moves(r, m, "archived", [Maintained(r, m, "archived") EXCEPT !.todo = @ \cup {m}])
  BY <1>p DEF Archive
<1>3. m \in Request /\ Knows(p, m) /\ {m} \in SUBSET Request /\ "archived" \in RequestStatus
  BY DEF SeenBy, Knows, RequestStatus, Status
<1> DEFINE n == Maintained(r, m, "archived")
           q == [n EXCEPT !.todo = @ \cup {m}]
<1>4. /\ n \in Requests /\ n.at = "log" /\ n.then = "sweep" /\ n.item = {m}
      /\ n.status = "archived" /\ n.seen = p.seen /\ n.pairs = p.pairs
  BY <1>p, <1>1, <1>3 DEF Maintained, Requests
<1> HIDE DEF n
<1>5. /\ q \in Requests /\ q.at = "log" /\ q.then = "sweep" /\ q.item = {m}
      /\ q.status = "archived" /\ q.seen = p.seen /\ q.pairs = p.pairs
  BY <1>3, <1>4 DEF Requests
<1>6. Moves(r, m, "archived", q)
  BY <1>2 DEF n
<1> HIDE DEF q
<1>7. At(r, "sweep")
  BY DEF Archive
<1>8. QED
  BY <1>p, <1>3, <1>5, <1>6, <1>7, MovesStep

\* maintainMemories archives or suspends a memory of a pair.
LEMMA MoveOfPairStep ==
    ASSUME IInv, NEW r \in Request, MoveOfPair(r)
    PROVE  IInv'
<1>p. PICK p : p = req[r]
  OBVIOUS
<1>1. p \in Requests
  BY <1>p, RequestFacts
<1>2. PICK pair \in p.pairs, status \in {"archived", "suspended"} :
          \E m \in pair :
              Moves(r, m, status, [Maintained(r, m, status) EXCEPT !.pairs = @ \ {pair},
                                                                   !.todo = SeenBy(p)])
  BY <1>p DEF MoveOfPair
<1>m. PICK m \in pair :
          Moves(r, m, status, [Maintained(r, m, status) EXCEPT !.pairs = @ \ {pair},
                                                               !.todo = SeenBy(p)])
  BY <1>2
<1>3. /\ m \in Request /\ Knows(p, m) /\ {m} \in SUBSET Request /\ status \in RequestStatus
      /\ SeenBy(p) \in SUBSET Request
  BY <1>1 DEF Requests, SeenBy, Knows, RequestStatus, Status
<1> DEFINE n == Maintained(r, m, status)
           q == [n EXCEPT !.pairs = @ \ {pair}, !.todo = SeenBy(p)]
<1>4. /\ n \in Requests /\ n.at = "log" /\ n.then = "sweep" /\ n.item = {m}
      /\ n.status = status /\ n.seen = p.seen /\ n.pairs = p.pairs
  BY <1>p, <1>1, <1>3 DEF Maintained, Requests
<1> HIDE DEF n
<1>5. /\ q \in Requests /\ q.at = "log" /\ q.then = "sweep" /\ q.item = {m}
      /\ q.status = status /\ q.seen = p.seen /\ q.pairs \subseteq p.pairs
  <2>1. n.pairs \ {pair} \in SUBSET SUBSET Request
    BY <1>4 DEF Requests
  <2>2. QED
    BY <1>3, <1>4, <2>1 DEF Requests
<1>6. Moves(r, m, status, q)
  BY <1>m DEF n
<1> HIDE DEF q
<1>7. At(r, "sweep")
  BY DEF MoveOfPair
<1>8. QED
  BY <1>p, <1>3, <1>5, <1>6, <1>7, MovesStep

\* maintainMemories ends.
LEMMA EndMaintainStep ==
    ASSUME IInv, NEW r \in Request, EndMaintain(r)
    PROVE  IInv'
<1>1. /\ Done \in Requests /\ Sound(Done) /\ Right(Done)
      /\ Done.at = "done" /\ Becomes(r, Done)
  BY EndedFits, RequestFacts DEF EndMaintain, Done, Ended, Idle
<1>2. UNCHANGED <<stored, history>>
  BY DEF EndMaintain
<1>3. QED
  BY <1>1, <1>2, ReadsStep DEF Unborn, Early

-----------------------------------------------------------------------------
(* The invariant, and what follows                                         *)

\* A process death ends what is in progress and writes nothing.
LEMMA CrashStep ==
    ASSUME IInv, Crash
    PROVE  IInv'
<1>1. UNCHANGED <<row, chunks, relations, actions, offered, asked, forgot>> /\ crashed' = TRUE
  BY DEF Crash, stored
<1>2. \A r \in Request :
          \/ req'[r] = req[r]
          \/ req'[r] = Ended("failed")
  BY DEF Crash
<1>3. /\ Ended("failed") \in Requests /\ Sound(Ended("failed"))
      /\ Ended("failed").at = "failed" /\ Ended("failed").item = {}
      /\ Ended("failed").pairs = {} /\ SeenBy(Ended("failed")) = {}
  BY EndedFits DEF Ended, Idle, SeenBy, NothingSeen, NoRow
<1>4. req' \in [Request -> Requests]
  BY <1>2, <1>3 DEF Crash, IInv, TypeOK
<1>5. \A r \in Request : Fresh(r)' => Fresh(r)
  BY <1>2, <1>3 DEF Fresh, Unborn, Early
<1>6. TypeOK'
  BY <1>1, <1>4 DEF IInv, TypeOK
<1>7. RequestsRight'
  <2> SUFFICES ASSUME NEW r \in Request
               PROVE  (Sound(req[r]) /\ Right(req[r]))'
    BY DEF RequestsRight
  <2>1. Sound(req[r]) /\ Right(req[r])
    BY DEF IInv, RequestsRight
  <2>2. CASE req'[r] = req[r]
    <3>1. \A m \in Request : Knows(req[r], m) => ~Fresh(m)'
      BY <1>5, <2>1 DEF Right
    <3>2. QED
      BY <1>1, <2>1, <2>2, <3>1 DEF Right
  <2>3. CASE req'[r] = Ended("failed")
    BY <1>3, <2>3 DEF Right, Knows
  <2>4. QED
    BY <1>2, <2>2, <2>3
<1>8. MemoriesRight'
  BY <1>1, <1>5 DEF IInv, MemoriesRight
<1>9. InjectedNeedsUser'
  BY <1>1 DEF IInv, InjectedNeedsUser
<1>10. QED
  BY <1>6, <1>7, <1>8, <1>9 DEF IInv

\* Nothing is stored and nothing is requested at first.
LEMMA InitIInv == Init => IInv
<1> SUFFICES ASSUME Init
             PROVE  IInv
  OBVIOUS
<1>1. Idle \in Requests /\ Sound(Idle) /\ Idle.item = {} /\ Idle.pairs = {} /\ SeenBy(Idle) = {}
  BY EndedFits DEF Idle, SeenBy, NothingSeen, NoRow
<1>2. TypeOK
  BY <1>1 DEF Init, TypeOK, Rows
<1>3. RequestsRight
  BY <1>1 DEF Init, RequestsRight, Right, Knows
<1>4. MemoriesRight
  BY TextAssumption DEF Init, MemoriesRight, NoRow
<1>5. InjectedNeedsUser
  BY TextAssumption DEF Init, InjectedNeedsUser, NoRow
<1>6. QED
  BY <1>2, <1>3, <1>4, <1>5 DEF IInv

\* Every step keeps the invariant.
LEMMA NextIInv == IInv /\ [Next]_vars => IInv'
<1> SUFFICES ASSUME IInv, [Next]_vars
             PROVE  IInv'
  OBVIOUS
<1>1. ASSUME NEW r \in Request, Hydrate(r)
      PROVE  IInv'
  BY <1>1, SelectChunksStep, ClearChunksStep, InsertChunkStep DEF Hydrate
<1>2. ASSUME NEW r \in Request, Retrieve(r)
      PROVE  IInv'
  BY <1>2, ReadStep, SelectCandidatesStep, OfferStep DEF Retrieve
<1>3. ASSUME NEW r \in Request, Create(r)
      PROVE  IInv'
  BY <1>3, StartCreateStep, FindSampleStep, GetSampleStep, FindExistingStep, InsertMemoryStep,
     LogActionStep, GetCreatedStep, SelectOthersStep, RelateStep, RegetStep DEF Create
<1>4. ASSUME NEW r \in Request, Change(r)
      PROVE  IInv'
  BY <1>4, StartUpdateStep, WriteStep, StartForgetStep, EntombStep, EraseChunksStep,
     StartDeleteStep, DeleteStep DEF Change
<1>5. ASSUME NEW r \in Request, Maintain(r)
      PROVE  IInv'
  BY <1>5, StartMaintainStep, ArchiveStep, MoveOfPairStep, EndMaintainStep DEF Maintain
<1>6. ASSUME UNCHANGED vars
      PROVE  IInv'
  <2>1. UNCHANGED <<row, chunks, relations, actions, req, offered, asked, forgot, crashed>>
    BY <1>6 DEF vars, stored, history
  <2>2. TypeOK'
    BY <2>1 DEF IInv, TypeOK
  <2>3. RequestsRight'
    BY <2>1 DEF IInv, RequestsRight, Right, Fresh
  <2>4. MemoriesRight' /\ InjectedNeedsUser'
    BY <2>1 DEF IInv, MemoriesRight, InjectedNeedsUser, Fresh
  <2>5. QED
    BY <2>2, <2>3, <2>4 DEF IInv
<1>7. QED
  BY <1>1, <1>2, <1>3, <1>4, <1>5, <1>6, CrashStep DEF Next

\* The inductive invariant: what requests have seen, and will write, agrees with
\* the table up to what was erased since.
THEOREM Invariant == Spec => []IInv
BY InitIInv, NextIInv, PTL DEF Spec

\* The variables keep their types, whatever requests meet.
THEOREM TypeCorrect == Spec => []TypeOK
<1>1. IInv => TypeOK
  BY DEF IInv
<1>2. QED
  BY <1>1, Invariant, PTL

\* createMemory suspends an injected text, and neither maintenance nor an update
\* that writes an old status back brings it into retrieval before a user asks.
THEOREM InjectedIsWithheld == Spec => []InjectedNeedsUser
<1>1. IInv => InjectedNeedsUser
  BY DEF IInv
<1>2. QED
  BY <1>1, Invariant, PTL

-----------------------------------------------------------------------------
(* What was forgotten                                                      *)

\* What a request has seen after a step: the same, nothing, or rows of now.
Sees(r, q) ==
    \/ q.seen = req[r].seen
    \/ q.seen = NothingSeen
    \/ \E ms \in SUBSET Request : q.seen = [m \in Request |-> IF m \in ms THEN row[m] ELSE NoRow]

\* What a SELECT of rows reads is rows of now.
LEMMA SeesReading ==
    ASSUME NEW r \in Request, NEW p \in Requests, NEW ms \in SUBSET Saved, NEW then
    PROVE  Sees(r, Reading(p, ms, then))
<1>1. Reading(p, ms, then).seen = [m \in Request |-> IF m \in ms THEN row[m] ELSE NoRow]
  BY DEF Reading, Requests
<1>2. ms \in SUBSET Request
  BY DEF Saved
<1>3. QED
  BY <1>1, <1>2 DEF Sees

\* A request that ends has seen nothing.
LEMMA SeesNothing ==
    ASSUME NEW r \in Request
    PROVE  Sees(r, Done) /\ Sees(r, Ended("failed"))
BY DEF Sees, Done, Ended, Idle

\* Hydration goes on with what was seen.
LEMMA SeesHydrated ==
    ASSUME NEW r \in Request, NEW p \in Requests, p.seen = req[r].seen
    PROVE  Sees(r, Hydrated(p))
<1>1. CASE p.todo = {} /\ p.then = "done"
  BY <1>1, SeesNothing DEF Hydrated, Continued
<1>2. CASE p.todo = {} /\ p.then # "done"
  BY <1>2 DEF Hydrated, Continued, Sees, Requests
<1>3. CASE p.todo # {}
  BY <1>3 DEF Hydrated, Sees, Requests
<1>4. QED
  BY <1>1, <1>2, <1>3

\* A request that goes on, or begins, without reading rows.
LEMMA SeesSame ==
    ASSUME NEW r \in Request, NEW q, q.seen = req[r].seen \/ q.seen = NothingSeen
    PROVE  Sees(r, q)
BY DEF Sees

\* The steps of hydrateMemories read no rows.
LEMMA HydrateSees ==
    ASSUME IInv, NEW r \in Request, Hydrate(r)
    PROVE  \E q : Becomes(r, q) /\ Sees(r, q)
<1>p. PICK p : p = req[r]
  OBVIOUS
<1>1. p \in Requests
  BY <1>p, RequestFacts
<1>2. CASE SelectChunks(r)
  <2>1. PICK todo \in SUBSET Request : Becomes(r, Hydrated([p EXCEPT !.todo = todo]))
    BY <1>p, <1>2 DEF SelectChunks, SeenBy
  <2>2. [p EXCEPT !.todo = todo] \in Requests /\ [p EXCEPT !.todo = todo].seen = p.seen
    BY <1>1 DEF Requests
  <2>3. QED
    BY <1>p, <2>1, <2>2, SeesHydrated
<1>3. CASE ClearChunks(r)
  <2>1. PICK m \in p.todo :
            Becomes(r, IF p.seen[m].text = Erased
                       THEN Hydrated([p EXCEPT !.todo = @ \ {m}])
                       ELSE [p EXCEPT !.at = "fill", !.part = 1, !.todo = @ \ {m},
                                      !.left = {m}])
    BY <1>p, <1>3 DEF ClearChunks
  <2>2. [p EXCEPT !.todo = @ \ {m}] \in Requests /\ [p EXCEPT !.todo = @ \ {m}].seen = p.seen
    BY <1>1 DEF Requests
  <2>3. Sees(r, [p EXCEPT !.at = "fill", !.part = 1, !.todo = @ \ {m}, !.left = {m}])
    BY <1>1, <1>p DEF Sees, Requests
  <2>4. QED
    BY <1>p, <2>1, <2>2, <2>3, SeesHydrated
<1>4. CASE InsertChunk(r)
  <2>1. \/ Becomes(r, Ended("failed"))
        \/ Becomes(r, Hydrated([p EXCEPT !.part = 0, !.left = {}]))
        \/ Becomes(r, [p EXCEPT !.part = @ + 1])
    BY <1>p, <1>4 DEF InsertChunk
  <2>2. [p EXCEPT !.part = 0, !.left = {}] \in Requests
    <3>1. 0 \in 0 .. Parts
      BY TextAssumption
    <3>2. QED
      BY <1>1, <3>1 DEF Requests
  <2>3. [p EXCEPT !.part = 0, !.left = {}].seen = p.seen /\ [p EXCEPT !.part = @ + 1].seen = p.seen
    BY <1>1 DEF Requests
  <2>4. QED
    BY <1>p, <2>1, <2>2, <2>3, SeesHydrated, SeesNothing, SeesSame
<1>5. QED
  BY <1>2, <1>3, <1>4 DEF Hydrate

\* The steps of reading and retrieving.
LEMMA RetrieveSees ==
    ASSUME IInv, NEW r \in Request, Retrieve(r)
    PROVE  \E q : Becomes(r, q) /\ Sees(r, q)
<1>1. CASE Read(r)
  <2>1. Idle \in Requests
    BY IdleType
  <2>2. QED
    BY <1>1, <2>1, SeesReading DEF Read
<1>2. CASE SelectCandidates(r)
  <2>1. Idle \in Requests
    BY IdleType
  <2>2. {m \in Saved : row[m].status \in Online} \in SUBSET Saved
    OBVIOUS
  <2>3. QED
    BY <1>2, <2>1, <2>2, SeesReading DEF SelectCandidates
<1>3. CASE Offer(r)
  BY <1>3, SeesNothing DEF Offer
<1>4. QED
  BY <1>1, <1>2, <1>3 DEF Retrieve

\* The steps of createMemory.
LEMMA CreateSees ==
    ASSUME IInv, NEW r \in Request, Create(r)
    PROVE  \E q : Becomes(r, q) /\ Sees(r, q)
<1>p. PICK p : p = req[r]
  OBVIOUS
<1>1. p \in Requests
  BY <1>p, RequestFacts
<1>2. CASE StartCreate(r)
  <2>1. PICK text \in Text, status \in Online :
            Becomes(r, [Idle EXCEPT !.at = "find", !.text = text,
                                    !.status = status])
    BY <1>2 DEF StartCreate
  <2>2. [Idle EXCEPT !.at = "find", !.text = text,
                     !.status = status].seen = NothingSeen
    BY DEF Idle
  <2>3. QED
    BY <2>1, <2>2, SeesSame
<1>3. CASE FindSample(r)
  <2>1. PICK text \in Sample :
            \/ Becomes(r, [[Idle EXCEPT !.text = text, !.status = "active"]
                               EXCEPT !.at = "find"])
            \/ \E m \in Live(text) :
                   Becomes(r, [[Idle EXCEPT !.text = text, !.status = "active"]
                                  EXCEPT !.at = "sample", !.item = {m}])
    BY <1>3 DEF FindSample
  <2> DEFINE sample == [Idle EXCEPT !.text = text, !.status = "active"]
  <2>2. sample \in Requests /\ sample.seen = NothingSeen
    <3>1. "active" \in RequestStatus /\ text \in Text \cup {None}
      BY TextAssumption DEF RequestStatus, Status
    <3>2. sample \in Requests
      BY <3>1, IdleType DEF Requests
    <3>3. QED
      BY <3>2 DEF Idle
  <2>3. \/ Becomes(r, [sample EXCEPT !.at = "find"])
        \/ \E m \in Live(text) : Becomes(r, [sample EXCEPT !.at = "sample", !.item = {m}])
    BY <2>1
  <2> HIDE DEF sample
  <2>4. /\ [sample EXCEPT !.at = "find"].seen = NothingSeen
        /\ \A m : [sample EXCEPT !.at = "sample", !.item = {m}].seen = NothingSeen
    BY <2>2 DEF Requests
  <2>5. QED
    BY <2>3, <2>4, SeesSame
<1>4. CASE GetSample(r)
  <2>1. Idle \in Requests /\ p.item \cap Saved \in SUBSET Saved
    BY IdleType
  <2>2. Sees(r, [p EXCEPT !.at = "find", !.item = {}])
    BY <1>1, <1>p DEF Sees, Requests
  <2>3. QED
    BY <1>4, <1>p, <2>1, <2>2, SeesReading DEF GetSample
<1>5. CASE FindExisting(r)
  <2>1. \/ Becomes(r, [p EXCEPT !.at = "insert"])
        \/ \E m \in Request :
               Becomes(r, [p EXCEPT !.at = "log", !.then = "reget", !.item = {m},
                                    !.status = row[m].status])
    BY <1>5, <1>p DEF FindExisting, Proceeds, Live, Saved
  <2>2. /\ [p EXCEPT !.at = "insert"].seen = p.seen
        /\ \A m : [p EXCEPT !.at = "log", !.then = "reget", !.item = {m},
                             !.status = row[m].status].seen = p.seen
    BY <1>1 DEF Requests
  <2>3. QED
    BY <1>p, <2>1, <2>2, SeesSame
<1>6. CASE InsertMemory(r)
  <2>1. PICK status :
            Becomes(r, [p EXCEPT !.at = "log", !.then = "get", !.item = {r}, !.status = status])
    BY <1>6, <1>p DEF InsertMemory
  <2>2. [p EXCEPT !.at = "log", !.then = "get", !.item = {r}, !.status = status].seen = p.seen
    BY <1>1 DEF Requests
  <2>3. QED
    BY <1>p, <2>1, <2>2, SeesSame
<1>7. CASE LogAction(r) \/ Relate(r)
  <2>1. \/ \E at : Becomes(r, [p EXCEPT !.at = at])
        \/ \E m : Becomes(r, [p EXCEPT !.left = @ \ {m}])
    BY <1>7, <1>p DEF LogAction, Relate, Proceeds
  <2>2. /\ \A at : [p EXCEPT !.at = at].seen = p.seen
        /\ \A m : [p EXCEPT !.left = @ \ {m}].seen = p.seen
    BY <1>1 DEF Requests
  <2>3. QED
    BY <1>p, <2>1, <2>2, SeesSame
<1>8. CASE SelectOthers(r)
  <2>1. Becomes(r, [p EXCEPT !.at = "relating", !.left = Copies(r)])
    BY <1>8, <1>p DEF SelectOthers
  <2>2. [p EXCEPT !.at = "relating", !.left = Copies(r)].seen = p.seen
    BY <1>1 DEF Requests
  <2>3. QED
    BY <1>p, <2>1, <2>2, SeesSame
<1>9. CASE GetCreated(r)
  <2>1. r \in Saved => {r} \in SUBSET Saved
    OBVIOUS
  <2>2. QED
    BY <1>1, <1>9, <1>p, <2>1, SeesReading, SeesNothing DEF GetCreated
<1>10. CASE Reget(r)
  <2>1. p.item \cap Saved \in SUBSET Saved
    OBVIOUS
  <2>2. QED
    BY <1>10, <1>p, <2>1, IdleType, SeesReading, SeesNothing DEF Reget
<1>11. QED
  BY <1>2, <1>3, <1>4, <1>5, <1>6, <1>7, <1>8, <1>9, <1>10 DEF Create

\* A request about one memory, when it begins.
LEMMA StartOnSees ==
    ASSUME NEW r \in Request, NEW m \in Saved, NEW status \in RequestStatus,
           NEW first, StartOn(r, m, status, first)
    PROVE  \E q : Becomes(r, q) /\ Sees(r, q)
<1> DEFINE start == [Idle EXCEPT !.item = {m}, !.status = status]
<1>1. start \in Requests
  BY IdleType DEF Requests, Saved
<1>2. Becomes(r, Reading(start, {m}, first))
  BY DEF StartOn
<1> HIDE DEF start
<1>3. QED
  BY <1>1, <1>2, SeesReading

\* The steps of updateMemory, forgetMemory and deleteSampleMemory.
LEMMA ChangeSees ==
    ASSUME IInv, NEW r \in Request, Change(r)
    PROVE  \E q : Becomes(r, q) /\ Sees(r, q)
<1>p. PICK p : p = req[r]
  OBVIOUS
<1>1. p \in Requests
  BY <1>p, RequestFacts
<1>2. CASE StartUpdate(r)
  BY <1>2, StartOnSees DEF StartUpdate, RequestStatus
<1>3. CASE StartForget(r)
  <2>1. "forgotten" \in RequestStatus
    BY DEF RequestStatus, Status
  <2>2. QED
    BY <1>3, <2>1, StartOnSees DEF StartForget
<1>4. CASE StartDelete(r)
  <2>1. "none" \in RequestStatus
    BY DEF RequestStatus
  <2>2. QED
    BY <1>4, <2>1, StartOnSees DEF StartDelete
<1>5. CASE Write(r)
  <2>1. PICK status :
            Becomes(r, [p EXCEPT !.at = "log", !.then = "reget", !.status = status])
    BY <1>5, <1>p DEF Write
  <2>2. [p EXCEPT !.at = "log", !.then = "reget", !.status = status].seen = p.seen
    BY <1>1 DEF Requests
  <2>3. QED
    BY <1>p, <2>1, <2>2, SeesSame
<1>6. CASE Entomb(r) \/ EraseChunks(r)
  <2>1. Becomes(r, [p EXCEPT !.at = "erase"]) \/ Becomes(r, [p EXCEPT !.at = "log", !.then = "reget"])
    BY <1>6, <1>p DEF Entomb, EraseChunks, Proceeds
  <2>2. [p EXCEPT !.at = "erase"].seen = p.seen /\ [p EXCEPT !.at = "log", !.then = "reget"].seen = p.seen
    BY <1>1 DEF Requests
  <2>3. QED
    BY <1>p, <2>1, <2>2, SeesSame
<1>7. CASE Delete(r)
  BY <1>7, SeesNothing DEF Delete
<1>8. QED
  BY <1>2, <1>3, <1>4, <1>5, <1>6, <1>7 DEF Change

\* The steps of maintainMemories.
LEMMA MaintainSees ==
    ASSUME IInv, NEW r \in Request, Maintain(r)
    PROVE  \E q : Becomes(r, q) /\ Sees(r, q)
<1>p. PICK p : p = req[r]
  OBVIOUS
<1>1. p \in Requests
  BY <1>p, RequestFacts
<1>2. CASE StartMaintain(r)
  <2> DEFINE start == Idle
             list == Reading(start, Saved, "sweep")
             pairs == {{m, n} : m, n \in {o \in Saved : row[o].status \in Online}}
  <2>1. Becomes(r, [list EXCEPT !.pairs = pairs])
    BY <1>2 DEF StartMaintain
  <2>2. start \in Requests
    BY IdleType
  <2> HIDE DEF start, pairs
  <2>3. [list EXCEPT !.pairs = pairs].seen = list.seen
    BY <2>2 DEF Reading, Requests
  <2>4. Sees(r, list)
    BY <2>2, SeesReading
  <2>5. QED
    BY <2>1, <2>3, <2>4 DEF Sees
<1>3. CASE Archive(r)
  <2>1. PICK m \in Request :
            Becomes(r, [Maintained(r, m, "archived") EXCEPT !.todo = @ \cup {m}])
    BY <1>3 DEF Archive, Moves, SeenBy
  <2> DEFINE n == Maintained(r, m, "archived")
  <2>2. n = [p EXCEPT !.at = "log", !.then = "sweep", !.item = {m}, !.status = "archived"]
    BY <1>p DEF Maintained
  <2>3. [n EXCEPT !.todo = @ \cup {m}].seen = p.seen
    BY <1>1, <2>2 DEF Requests
  <2>4. QED
    BY <1>p, <2>1, <2>3, SeesSame
<1>4. CASE MoveOfPair(r)
  <2>1. PICK pair, status, m :
            Becomes(r, [Maintained(r, m, status) EXCEPT !.pairs = @ \ {pair},
                                                        !.todo = SeenBy(req[r])])
    BY <1>4 DEF MoveOfPair, Moves
  <2> DEFINE n == Maintained(r, m, status)
  <2>2. n = [p EXCEPT !.at = "log", !.then = "sweep", !.item = {m}, !.status = status]
    BY <1>p DEF Maintained
  <2>3. [n EXCEPT !.pairs = @ \ {pair}, !.todo = SeenBy(req[r])].seen = p.seen
    BY <1>1, <2>2 DEF Requests
  <2>4. QED
    BY <1>p, <2>1, <2>3, SeesSame
<1>5. CASE EndMaintain(r)
  BY <1>5, SeesNothing DEF EndMaintain
<1>6. QED
  BY <1>2, <1>3, <1>4, <1>5 DEF Maintain

\* No step reads the text of a memory that was forgotten, as its row is gone or
\* a tombstone.
LEMMA ForgottenUnread ==
    ASSUME IInv, [Next]_vars, NEW m \in forgot, ReadByNone(m)
    PROVE  ReadByNone(m)'
<1>1. m \in Request /\ row[m].text \notin Text /\ NoRow.text \notin Text
  BY TextAssumption DEF IInv, TypeOK, MemoriesRight, NoRow
<1>2. ASSUME NEW r \in Request, NEW q, Becomes(r, q), Sees(r, q)
      PROVE  ReadByNone(m)'
  <2>1. q.seen[m].text \notin Text
    BY <1>1, <1>2 DEF Sees, NothingSeen, ReadByNone
  <2>2. \A s \in Request : req'[s] = IF s = r THEN q ELSE req[s]
    BY <1>2 DEF IInv, TypeOK, Becomes
  <2>3. QED
    BY <2>1, <2>2 DEF ReadByNone
<1>3. CASE UNCHANGED vars
  BY <1>3 DEF vars, ReadByNone
<1>4. CASE Crash
  <2>1. \A r \in Request : req'[r] = req[r] \/ req'[r] = Ended("failed")
    BY <1>4 DEF Crash
  <2>2. Ended("failed").seen[m].text \notin Text
    BY <1>1 DEF Ended, Idle, NothingSeen
  <2>3. QED
    BY <2>1, <2>2 DEF ReadByNone
<1>5. QED
  BY <1>2, <1>3, <1>4, HydrateSees, RetrieveSees, CreateSees, ChangeSees, MaintainSees DEF Next

\* Only hydration adds chunks, and only of what its request has seen.
LEMMA ForgottenUnwritten ==
    ASSUME IInv, [Next]_vars, NEW m \in forgot, ReadByNone(m), chunks[m] = {}
    PROVE  chunks'[m] = {}
<1>1. m \in Request /\ chunks \in [Request -> SUBSET (1 .. Parts)]
  BY DEF IInv, TypeOK
<1>2. ASSUME NEW r \in Request, InsertChunk(r)
      PROVE  chunks'[m] = {}
  <2>1. m \notin req[r].left
    BY <1>2, RequestFacts DEF InsertChunk, At, Sound, ReadByNone
  <2>2. QED
    BY <1>1, <1>2, <2>1 DEF InsertChunk
<1>3. ASSUME NEW r \in Request, Change(r)
      PROVE  chunks'[m] = {}
  BY <1>1, <1>3 DEF Change, StartUpdate, Write, StartForget, Entomb, EraseChunks, StartDelete,
                    Delete, stored
<1>4. ASSUME NEW r \in Request, ClearChunks(r)
      PROVE  chunks'[m] = {}
  BY <1>1, <1>4 DEF ClearChunks
<1>5. ASSUME NEW r \in Request, SelectChunks(r) \/ Retrieve(r) \/ Maintain(r)
      PROVE  UNCHANGED chunks
  <2>1. CASE SelectChunks(r) \/ Retrieve(r)
    BY <2>1 DEF SelectChunks, Retrieve, Read, SelectCandidates, Offer, stored
  <2>2. CASE StartMaintain(r) \/ EndMaintain(r)
    BY <2>2 DEF StartMaintain, EndMaintain, stored
  <2>3. CASE Archive(r) \/ MoveOfPair(r)
    BY <2>3 DEF Archive, MoveOfPair, Moves
  <2>4. QED
    BY <1>5, <2>1, <2>2, <2>3 DEF Maintain
<1>6. ASSUME NEW r \in Request, Create(r)
      PROVE  UNCHANGED chunks
  BY <1>6 DEF Create, StartCreate, FindSample, GetSample, FindExisting, InsertMemory, LogAction,
              GetCreated, SelectOthers, Relate, Reget, stored
<1>7. CASE Crash \/ UNCHANGED vars
  BY <1>7 DEF Crash, vars, stored
<1>8. QED
  BY <1>2, <1>3, <1>4, <1>5, <1>6, <1>7 DEF Next, Hydrate

\* After the requests that had read a memory before forgetMemory erased it, none
\* reads its text again, and hydrateMemories does not bring its chunks back.
THEOREM ForgottenStays == Spec => ForgottenStaysGone
<1>1. ASSUME IInv, [Next]_vars
      PROVE  [\A m \in forgot :
                 ReadByNone(m) => /\ ReadByNone(m)'
                                  /\ chunks[m] = {} => chunks'[m] = {}]_vars
  BY <1>1, ForgottenUnread, ForgottenUnwritten
<1>2. QED
  BY <1>1, Invariant, PTL DEF Spec, ForgottenStaysGone

=============================================================================
