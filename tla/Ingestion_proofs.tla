-------------------------- MODULE Ingestion_proofs --------------------------
(***************************************************************************)
(* For any number of requests, keys and destinations, and whatever fails   *)
(* or is administered meanwhile: what a client was told about a result is  *)
(* complete, and a later request with an answered key stores nothing.      *)
(*                                                                         *)
(* The argument: what a handler has behind it is a fact about the stores   *)
(* that the steps of all others preserve, because results and jobs are     *)
(* never removed, a delivery row only together with its destination, and a *)
(* cache entry only when it expires.  The parts of the invariant take the  *)
(* stores as parameters, so that this is one lemma (HandlersKeep) for      *)
(* every action.                                                           *)
(*                                                                         *)
(* For any operators and jobs beside the worker of the main queue, jobs    *)
(* are conserved (QueueControl): every id is given once, so that whoever   *)
(* found a job still has that job or none, and each delivery's jobs can be *)
(* counted place by place.                                                 *)
(***************************************************************************)
EXTENDS Ingestion, QueueControl, FiniteSetTheorems, TLAPS

Handlers ==
    [at : Steps, late : BOOLEAN, matched : SUBSET Dests, left : SUBSET Dests,
     answer : {None} \cup Responses]

Typed ==
    /\ dest \in [Dests -> {NoRow} \cup DestRows]
    /\ editing \subseteq Dests \X DestRows /\ deleted \subseteq Dests
    /\ stored \subseteq Results /\ rows \subseteq Results \X Dests
    /\ jobs \subseteq Results \X Dests \X Requests
    /\ cache \in [Keys -> {None} \cup Responses] /\ expired \subseteq Keys
    /\ req \in [Requests -> Handlers]
    /\ changes \in 0..MaxChanges /\ faults \in 0..MaxFaults

\* There is a delivery row w for the destination, or x tells that it is gone.
HasRow(id, d, w, x) == <<id, d>> \in w \/ d \in x

\* A response that names what is in the stores s, w, j and x.
Complete(r, s, w, j, x) ==
    /\ r.id \in s
    /\ \A d \in r.to : HasRow(r.id, d, w, x) /\ \E p \in Requests : <<r.id, d, p>> \in j

\* What a handler h of request q has behind it.
Progress(q, h, s, w, j, x) ==
    /\ h.at \in {"rows", "remember"} => Route[q] = "api"
    /\ h.at \in {"rows", "jobs", "remember"} => ResultOf(q) \in s
    /\ h.at = "query" /\ Route[q] = "presentation" => ResultOf(q) \in s
    /\ h.at = "result" /\ Route[q] = "api" => h.left = h.matched
    /\ h.at = "rows" => \A d \in h.matched \ h.left : HasRow(ResultOf(q), d, w, x)
    /\ h.at \in {"jobs", "remember"} =>
          /\ Route[q] = "api" => \A d \in h.matched : HasRow(ResultOf(q), d, w, x)
          /\ \A d \in h.matched \ h.left : <<ResultOf(q), d, q>> \in j
    /\ h.at = "remember" => h.left = {}
    /\ h.answer # None => IF Route[q] = "api" THEN Complete(h.answer, s, w, j, x) ELSE KeyOf[q] \in s

\* Results and jobs of a request come late in its handler.
Stages(q, h, s, w, j, x) ==
    /\ q \in s => Route[q] = "api" /\ h.at \in {"rows", "jobs", "remember", "answered", "dead"}
    /\ \A job \in j : job[3] = q =>
          /\ h.at \in {"jobs", "remember", "answered", "dead"}
          /\ Route[q] = "api" => \A d \in h.matched : HasRow(job[1], d, w, x)
          /\ job[1] = ResultOf(q)

\* The key of an answered request is remembered, so a late one stops at it.
Duplicates(q, h, s, j, c, e) ==
    KeyOf[q] \notin e =>
        /\ h.answer # None /\ Route[q] = "api" => c[KeyOf[q]] # None
        /\ h.late => /\ h.at \in {"lookup", "answered", "dead"}
                     /\ IF Route[q] = "api" THEN q \notin s /\ c[KeyOf[q]] # None ELSE KeyOf[q] \in s
                     /\ \A job \in j : job[3] # q

Handled(q, h, s, w, j, x, c, e) ==
    Progress(q, h, s, w, j, x) /\ Stages(q, h, s, w, j, x) /\ Duplicates(q, h, s, j, c, e)

(***************************************************************************)
(* The inductive invariant.                                                *)
(***************************************************************************)
IInv ==
    /\ Typed
    /\ \A q \in Requests : Handled(q, req[q], stored, rows, jobs, deleted, cache, expired)
    /\ \A k \in Keys : cache[k] # None => Complete(cache[k], stored, rows, jobs, deleted)
    /\ RowsAreAnchored

-----------------------------------------------------------------------------
(* What the stores keep *)

\* Results and jobs stay, rows go with their destination; the results and
\* jobs that are new belong to the requests Q.
Grow(Q, s, w, j, x, s2, w2, j2, x2) ==
    /\ s \subseteq s2 /\ \A r \in s2 \ s : \E q \in Q : r = ResultOf(q)
    /\ \A pair \in w : pair \in w2 \/ pair[2] \in x2
    /\ x \subseteq x2
    /\ j \subseteq j2 /\ \A job \in j2 \ j : job[3] \in Q

\* An entry of the cache goes only when its key expires.
Remembers(c, e, c2, e2) ==
    e \subseteq e2 /\ \A k \in Keys : k \notin e2 /\ c[k] # None => c2[k] # None

\* A handler that stays where it is or stops.
Stops(h, h2) ==
    /\ h2.at = h.at \/ h2.at \in {"answered", "dead"}
    /\ h2.late = h.late /\ h2.matched = h.matched /\ h2.left = h.left /\ h2.answer = h.answer

LEMMA HasRowKept ==
    ASSUME NEW Q, NEW s, NEW w, NEW j, NEW x, NEW s2, NEW w2, NEW j2, NEW x2,
           Grow(Q, s, w, j, x, s2, w2, j2, x2), NEW id, NEW d, HasRow(id, d, w, x)
    PROVE  HasRow(id, d, w2, x2)
BY DEF Grow, HasRow

LEMMA CompleteKept ==
    ASSUME NEW Q, NEW s, NEW w, NEW j, NEW x, NEW s2, NEW w2, NEW j2, NEW x2,
           Grow(Q, s, w, j, x, s2, w2, j2, x2), NEW r, Complete(r, s, w, j, x)
    PROVE  Complete(r, s2, w2, j2, x2)
<1>1. \A d \in r.to : HasRow(r.id, d, w2, x2)
  BY HasRowKept DEF Complete
<1>2. s \subseteq s2 /\ j \subseteq j2
  BY DEF Grow
<1>3. QED
  BY <1>1, <1>2 DEF Complete

\* What a result is called tells the request on the api route.
LEMMA ResultNames ==
    ASSUME NEW p \in Requests, NEW q \in Requests, p = ResultOf(q)
    PROVE  p = q /\ Route[q] = "api"
BY IngestionAssumption DEF ResultOf

\* A request that stays or stops keeps its part, whatever others do.
LEMMA HandlersKeep ==
    ASSUME NEW s, NEW w, NEW j, NEW x, NEW c, NEW e,
           NEW s2, NEW w2, NEW j2, NEW x2, NEW c2, NEW e2, NEW Q \in SUBSET Requests,
           Grow(Q, s, w, j, x, s2, w2, j2, x2), Remembers(c, e, c2, e2),
           NEW p \in Requests \ Q, NEW h, NEW h2, Stops(h, h2),
           Handled(p, h, s, w, j, x, c, e)
    PROVE  Handled(p, h2, s2, w2, j2, x2, c2, e2)
<1>1. s \subseteq s2 /\ j \subseteq j2 /\ e \subseteq e2
  BY DEF Grow, Remembers
<1>2. KeyOf[p] \in Keys /\ Route[p] \in {"api", "presentation"}
  BY IngestionAssumption
<1>3. \A job \in j2 : job[3] = p => job \in j
  BY DEF Grow
<1>4. p \in s2 => p \in s
  BY ResultNames DEF Grow
<1>5. Progress(p, h2, s2, w2, j2, x2)
  <2>1. Progress(p, h, s, w, j, x)
    BY DEF Handled
  <2>2. h2.answer # None =>
          IF Route[p] = "api" THEN Complete(h2.answer, s2, w2, j2, x2) ELSE KeyOf[p] \in s2
    BY <1>1, <2>1, CompleteKept DEF Progress, Stops
  <2>3. \A d \in h.matched : HasRow(ResultOf(p), d, w, x) => HasRow(ResultOf(p), d, w2, x2)
    BY HasRowKept
  <2>4. QED
    BY <1>1, <2>1, <2>2, <2>3 DEF Progress, Stops
<1>6. Stages(p, h2, s2, w2, j2, x2)
  <2>1. Stages(p, h, s, w, j, x)
    BY DEF Handled
  <2>2. \A job \in j2, d \in h.matched : HasRow(job[1], d, w, x) => HasRow(job[1], d, w2, x2)
    BY HasRowKept
  <2>3. QED
    BY <1>3, <1>4, <2>1, <2>2 DEF Stages, Stops
<1>7. Duplicates(p, h2, s2, j2, c2, e2)
  <2>1. Duplicates(p, h, s, j, c, e)
    BY DEF Handled
  <2>2. KeyOf[p] \notin e2 => KeyOf[p] \notin e /\ (c[KeyOf[p]] # None => c2[KeyOf[p]] # None)
    BY <1>2 DEF Remembers
  <2>3. QED
    BY <1>1, <1>3, <1>4, <2>1, <2>2 DEF Duplicates, Stops
<1>8. QED
  BY <1>5, <1>6, <1>7 DEF Handled

-----------------------------------------------------------------------------
(* Steps *)

\* What there is to show of a step in which the requests Q do more than stop.
LEMMA StepKeeps ==
    ASSUME IInv, NEW Q \in SUBSET Requests,
           Grow(Q, stored, rows, jobs, deleted, stored', rows', jobs', deleted'),
           Remembers(cache, expired, cache', expired'),
           \A p \in Requests \ Q : Stops(req[p], req'[p]),
           \A q \in Q : Handled(q, req'[q], stored', rows', jobs', deleted', cache', expired'),
           \A k \in Keys : cache'[k] # None =>
               cache'[k] = cache[k] \/ Complete(cache'[k], stored', rows', jobs', deleted'),
           Typed', RowsAreAnchored'
    PROVE  IInv'
<1>1. ASSUME NEW p \in Requests
      PROVE  Handled(p, req'[p], stored', rows', jobs', deleted', cache', expired')
  <2>1. CASE p \in Q
    BY <2>1
  <2>2. CASE p \notin Q
    <3>1. Handled(p, req[p], stored, rows, jobs, deleted, cache, expired)
      BY DEF IInv
    <3>2. p \in Requests \ Q /\ Stops(req[p], req'[p])
      BY <2>2
    <3>3. QED
      BY <3>1, <3>2, HandlersKeep
  <2>3. QED
    BY <2>1, <2>2
<1>2. ASSUME NEW k \in Keys, cache'[k] # None
      PROVE  Complete(cache'[k], stored', rows', jobs', deleted')
  <2>1. CASE cache'[k] = cache[k]
    <3>1. Complete(cache[k], stored, rows, jobs, deleted)
      BY <1>2, <2>1 DEF IInv
    <3>2. QED
      BY <2>1, <3>1, CompleteKept
  <2>2. QED
    BY <1>2, <2>1
<1>3. QED
  BY <1>1, <1>2 DEF IInv

\* The same if no request does more, which leaves the cache alone or expired.
LEMMA NobodyMoves ==
    ASSUME IInv,
           Grow({}, stored, rows, jobs, deleted, stored', rows', jobs', deleted'),
           Remembers(cache, expired, cache', expired'),
           \A p \in Requests : Stops(req[p], req'[p]),
           \A k \in Keys : cache'[k] # None => cache'[k] = cache[k],
           Typed', RowsAreAnchored'
    PROVE  IInv'
<1> DEFINE Q == {}
<1>1. /\ Q \in SUBSET Requests
      /\ \A p \in Requests \ Q : Stops(req[p], req'[p])
      /\ \A q \in Q : Handled(q, req'[q], stored', rows', jobs', deleted', cache', expired')
      /\ Grow(Q, stored, rows, jobs, deleted, stored', rows', jobs', deleted')
  OBVIOUS
<1>2. \A k \in Keys : cache'[k] # None =>
               cache'[k] = cache[k] \/ Complete(cache'[k], stored', rows', jobs', deleted')
  OBVIOUS
<1> HIDE DEF Q
<1>3. QED
  BY <1>1, <1>2, StepKeeps

\* Where neither stores nor cache change, everything is kept.
LEMMA NothingGrows ==
    ASSUME UNCHANGED <<stores, deleted, expired>>, NEW Q
    PROVE  /\ Grow(Q, stored, rows, jobs, deleted, stored', rows', jobs', deleted')
           /\ Remembers(cache, expired, cache', expired')
           /\ \A k \in Keys : cache'[k] = cache[k]
BY DEF stores, Grow, Remembers

LEMMA Init_IInv == Init => IInv
<1> SUFFICES ASSUME Init PROVE IInv
  OBVIOUS
<1> DEFINE h0 == [at |-> "new", late |-> FALSE, matched |-> {}, left |-> {}, answer |-> None]
<1>1. h0 \in Handlers /\ h0.at = "new" /\ h0.late = FALSE /\ h0.answer = None
  BY DEF Handlers, Steps
<1>2. req = [q \in Requests |-> h0]
  BY DEF Init
<1> HIDE DEF h0
<1>3. /\ stored = {} /\ rows = {} /\ jobs = {} /\ deleted = {} /\ editing = {} /\ expired = {}
      /\ cache = [k \in Keys |-> None] /\ dest = [d \in Dests |-> NoRow]
      /\ changes = 0 /\ faults = 0
  BY DEF Init
<1>4. Typed
  BY <1>1, <1>2, <1>3, IngestionAssumption DEF Typed
<1>5. ASSUME NEW q \in Requests
      PROVE  Handled(q, req[q], stored, rows, jobs, deleted, cache, expired)
  <2>1. req[q].at = "new" /\ req[q].late = FALSE /\ req[q].answer = None
    BY <1>1, <1>2
  <2>2. QED
    BY <1>3, <2>1 DEF Handled, Progress, Stages, Duplicates
<1>6. QED
  BY <1>3, <1>4, <1>5 DEF IInv, RowsAreAnchored

LEMMA RowsAreRows ==
    ASSUME NEW row \in DestRows
    PROVE  row # NoRow
<1>1. DOMAIN row = {"enabled", "filter"} /\ DOMAIN NoRow = {"id"}
  BY DEF DestRows, NoRow
<1>2. "id" # "enabled" /\ "id" # "filter"
  OBVIOUS
<1>3. "enabled" \in DOMAIN row /\ "enabled" \notin DOMAIN NoRow
  BY <1>1, <1>2
<1>4. QED
  BY <1>3

\* Handlers that go nowhere.
LEMMA Standing ==
    ASSUME NEW h
    PROVE  Stops(h, h)
BY DEF Stops

LEMMA RegisterKeeps ==
    ASSUME IInv, NEW d \in Dests, NEW row \in DestRows, Register(d, row) \/ Update(d, row)
    PROVE  IInv'
<1>1. /\ UNCHANGED <<editing, deleted, stores, expired, req, faults>>
      /\ dest' = [dest EXCEPT ![d] = row] /\ changes < MaxChanges /\ changes' = changes + 1
  BY DEF Register, Update, Changes
<1>2. Typed'
  BY <1>1, IngestionAssumption DEF IInv, Typed, stores
<1>3. row # NoRow
  BY RowsAreRows
<1>4. RowsAreAnchored'
  BY <1>1, <1>3 DEF IInv, Typed, RowsAreAnchored, stores
<1>5. \A p \in Requests : Stops(req[p], req'[p])
  BY <1>1, Standing
<1>6. QED
  BY <1>1, <1>2, <1>4, <1>5, NothingGrows, NobodyMoves

LEMMA DeleteKeeps ==
    ASSUME IInv, NEW d \in Dests, Delete(d)
    PROVE  IInv'
<1>1. /\ UNCHANGED <<editing, stored, jobs, cache, expired, req, faults>>
      /\ dest' = [dest EXCEPT ![d] = NoRow] /\ changes < MaxChanges /\ changes' = changes + 1
      /\ deleted' = deleted \cup {d} /\ rows' = {pair \in rows : pair[2] # d}
  BY DEF Delete, Changes, Cascade
<1>2. Typed'
  BY <1>1, IngestionAssumption DEF IInv, Typed
<1>3. RowsAreAnchored'
  BY <1>1 DEF IInv, Typed, RowsAreAnchored
<1>4. /\ Grow({}, stored, rows, jobs, deleted, stored', rows', jobs', deleted')
      /\ Remembers(cache, expired, cache', expired')
  BY <1>1 DEF Grow, Remembers
<1>5. \A p \in Requests : Stops(req[p], req'[p])
  BY <1>1, Standing
<1>6. QED
  BY <1>1, <1>2, <1>3, <1>4, <1>5, NobodyMoves

LEMMA ToggleKeeps ==
    ASSUME IInv, NEW d \in Dests,
           ToggleRead(d) \/ \E row \in DestRows : ToggleSave(d, row)
    PROVE  IInv'
<1>1. UNCHANGED <<deleted, stores, expired, req, faults>>
  BY DEF ToggleRead, ToggleSave
<1>2. \A p \in Requests : Stops(req[p], req'[p])
  BY <1>1, Standing
<1>3. Typed' /\ RowsAreAnchored'
  <2>1. CASE ToggleRead(d)
    <3>1. /\ dest' = dest /\ editing' = editing \cup {<<d, dest[d]>>} /\ dest[d] # NoRow
          /\ changes < MaxChanges /\ changes' = changes + 1
      BY <2>1 DEF ToggleRead, Changes
    <3>2. Typed'
      BY <1>1, <3>1, IngestionAssumption DEF IInv, Typed, stores
    <3>3. QED
      BY <1>1, <3>1, <3>2 DEF IInv, RowsAreAnchored, stores
  <2>2. ASSUME NEW row \in DestRows, ToggleSave(d, row)
        PROVE  Typed' /\ RowsAreAnchored'
    <3>1. dest' = [dest EXCEPT ![d] = row] /\ editing' = editing \ {<<d, row>>} /\ changes' = changes
      BY <2>2 DEF ToggleSave
    <3>2. Typed'
      BY <1>1, <3>1 DEF IInv, Typed, stores
    <3>3. row # NoRow
      BY RowsAreRows
    <3>4. RowsAreAnchored'
      BY <1>1, <3>1, <3>3 DEF IInv, Typed, RowsAreAnchored, stores
    <3>5. QED
      BY <3>2, <3>4
  <2>3. QED
    BY <2>1, <2>2
<1>4. QED
  BY <1>1, <1>2, <1>3, NothingGrows, NobodyMoves

\* The handler of request q becomes h; the destinations stay.
LEMMA OneMoves ==
    ASSUME IInv, NEW q \in Requests, NEW h \in Handlers, req' = [req EXCEPT ![q] = h],
           UNCHANGED <<admin, expired, faults>>,
           Grow({q}, stored, rows, jobs, deleted, stored', rows', jobs', deleted'),
           Remembers(cache, expired, cache', expired'),
           Handled(q, h, stored', rows', jobs', deleted', cache', expired'),
           \A k \in Keys : cache'[k] # None =>
               cache'[k] = cache[k] \/ Complete(cache'[k], stored', rows', jobs', deleted'),
           stored' \subseteq Results, rows' \subseteq Results \X Dests,
           jobs' \subseteq Results \X Dests \X Requests,
           cache' \in [Keys -> {None} \cup Responses], RowsAreAnchored'
    PROVE  IInv'
<1>1. req \in [Requests -> Handlers]
  BY DEF IInv, Typed
<1>2. req' \in [Requests -> Handlers] /\ req'[q] = h /\ \A p \in Requests \ {q} : req'[p] = req[p]
  BY <1>1
<1>3. Typed'
  BY <1>2 DEF IInv, Typed, admin
<1>4. \A p \in Requests \ {q} : Stops(req[p], req'[p])
  BY <1>2, Standing
<1>5. \A p \in {q} : Handled(p, req'[p], stored', rows', jobs', deleted', cache', expired')
  BY <1>2
<1>6. {q} \in SUBSET Requests
  OBVIOUS
<1>7. QED
  BY <1>3, <1>4, <1>5, <1>6, StepKeeps

\* The same for a handler that has written nothing.
LEMMA OneReads ==
    ASSUME IInv, NEW q \in Requests, NEW h \in Handlers, req' = [req EXCEPT ![q] = h],
           UNCHANGED <<admin, stores, expired, faults>>,
           Handled(q, h, stored, rows, jobs, deleted, cache, expired)
    PROVE  IInv'
<1>1. /\ stored' = stored /\ rows' = rows /\ jobs' = jobs /\ cache' = cache /\ deleted' = deleted
      /\ expired' = expired /\ dest' = dest
  BY DEF stores, admin
<1>2. /\ Grow({q}, stored, rows, jobs, deleted, stored', rows', jobs', deleted')
      /\ Remembers(cache, expired, cache', expired')
      /\ \A k \in Keys : cache'[k] = cache[k]
  BY <1>1, NothingGrows DEF stores
<1>3. /\ stored' \subseteq Results /\ rows' \subseteq Results \X Dests
      /\ jobs' \subseteq Results \X Dests \X Requests
      /\ cache' \in [Keys -> {None} \cup Responses]
  BY <1>1 DEF IInv, Typed
<1>4. RowsAreAnchored'
  BY <1>1 DEF IInv, RowsAreAnchored
<1>5. Handled(q, h, stored', rows', jobs', deleted', cache', expired')
  BY <1>1
<1>6. QED
  BY <1>2, <1>3, <1>4, <1>5, OneMoves

\* A handler stops with an error: what it has behind it stays true.
LEMMA OneStops ==
    ASSUME IInv, NEW q \in Requests, Moves(q, "answered"),
           UNCHANGED <<admin, stores, expired, faults>>
    PROVE  IInv'
<1> DEFINE h == [req[q] EXCEPT !.at = "answered"]
<1>1. req[q] \in Handlers /\ req \in [Requests -> Handlers]
  BY DEF IInv, Typed
<1>2. h \in Handlers /\ Stops(req[q], h) /\ req' = [req EXCEPT ![q] = h]
  BY <1>1 DEF Handlers, Steps, Stops, Moves
<1> HIDE DEF h
<1>3. Handled(q, req[q], stored, rows, jobs, deleted, cache, expired)
  BY DEF IInv
<1>4. Grow({}, stored, rows, jobs, deleted, stored, rows, jobs, deleted)
  BY DEF Grow
<1>5. Remembers(cache, expired, cache, expired) /\ {} \in SUBSET Requests /\ q \in Requests \ {}
  BY DEF Remembers
<1>6. Handled(q, h, stored, rows, jobs, deleted, cache, expired)
  BY <1>2, <1>3, <1>4, <1>5, HandlersKeep
<1>7. QED
  BY <1>2, <1>6, OneReads

LEMMA StartKeeps ==
    ASSUME IInv, NEW q \in Requests, Start(q)
    PROVE  IInv'
<1>1. req[q].at = "new" /\ UNCHANGED <<admin, stores, expired, faults>>
  BY DEF Start, At
<1>2. CASE Rejected(q)
  BY <1>1, <1>2, OneStops DEF Start
<1>3. CASE ~Rejected(q)
  <2> DEFINE known == \E p \in Requests :
                          /\ Route[p] = Route[q] /\ KeyOf[p] = KeyOf[q]
                          /\ Accepted(p) /\ KeyOf[q] \notin expired
             h == [req[q] EXCEPT !.at = "lookup", !.late = known]
  <2>1. req[q] \in Handlers /\ req \in [Requests -> Handlers]
    BY DEF IInv, Typed
  <2>2. req' = [req EXCEPT ![q] = h]
    BY <1>3, <2>1 DEF Start, Handlers
  <2>3. known \in BOOLEAN
    BY Zenon
  <2>4. known => \E p \in Requests : Route[p] = Route[q] /\ KeyOf[p] = KeyOf[q]
                    /\ req[p].answer # None /\ KeyOf[q] \notin expired
    BY DEF Accepted
  <2> HIDE DEF known
  <2>5. /\ h \in Handlers /\ h.at = "lookup" /\ h.late = known
        /\ h.answer = req[q].answer /\ h.matched = req[q].matched
    BY <2>1, <2>3 DEF Handlers, Steps
  <2> HIDE DEF h
  <2>6. Handled(q, req[q], stored, rows, jobs, deleted, cache, expired)
    BY DEF IInv
  <2>7. Progress(q, h, stored, rows, jobs, deleted)
    BY <2>5, <2>6 DEF Handled, Progress
  <2>8. q \notin stored /\ \A job \in jobs : job[3] # q
    BY <1>1, <2>6 DEF Handled, Stages
  <2>9. Stages(q, h, stored, rows, jobs, deleted)
    BY <2>8 DEF Stages
  <2>10. known => IF Route[q] = "api" THEN cache[KeyOf[q]] # None ELSE KeyOf[q] \in stored
    <3>1. SUFFICES ASSUME known
                   PROVE  IF Route[q] = "api" THEN cache[KeyOf[q]] # None ELSE KeyOf[q] \in stored
      OBVIOUS
    <3>2. PICK p \in Requests : Route[p] = Route[q] /\ KeyOf[p] = KeyOf[q]
                    /\ req[p].answer # None /\ KeyOf[q] \notin expired
      BY <2>4, <3>1
    <3>3. Handled(p, req[p], stored, rows, jobs, deleted, cache, expired)
      BY DEF IInv
    <3>4. Route[q] = "api" => cache[KeyOf[q]] # None
      BY <3>2, <3>3 DEF Handled, Duplicates
    <3>5. Route[q] # "api" => KeyOf[q] \in stored
      BY <3>2, <3>3 DEF Handled, Progress
    <3>6. QED
      BY <3>4, <3>5
  <2>11. Duplicates(q, h, stored, jobs, cache, expired)
    BY <2>5, <2>6, <2>8, <2>10 DEF Handled, Duplicates
  <2>12. QED
    BY <1>1, <2>2, <2>5, <2>7, <2>9, <2>11, OneReads DEF Handled
<1>4. QED
  BY <1>2, <1>3

LEMMA ResultsAreResults ==
    ASSUME NEW q \in Requests
    PROVE  /\ ResultOf(q) \in Results /\ KeyOf[q] \in Keys
           /\ Route[q] = "api" \/ Route[q] = "presentation"
           /\ Route[q] = "presentation" => ResultOf(q) = KeyOf[q]
BY IngestionAssumption DEF ResultOf, Results

\* A response is not the absence of one.
LEMMA ResponsesAreResponses ==
    ASSUME NEW id, NEW to
    PROVE  [id |-> id, to |-> to] # None
<1>1. DOMAIN [id |-> id, to |-> to] = {"id", "to"} /\ DOMAIN None = {"id"}
  BY DEF None
<1>2. "id" # "to"
  OBVIOUS
<1>3. "to" \in DOMAIN [id |-> id, to |-> to] /\ "to" \notin DOMAIN None
  BY <1>1, <1>2
<1>4. QED
  BY <1>3

LEMMA LookupKeeps ==
    ASSUME IInv, NEW q \in Requests, Lookup(q)
    PROVE  IInv'
<1>1. req[q].at = "lookup" /\ UNCHANGED <<admin, stores, expired, faults>>
  BY DEF Lookup, At
<1>2. req[q] \in Handlers /\ req \in [Requests -> Handlers] /\ cache[KeyOf[q]] \in {None} \cup Responses
  BY ResultsAreResults DEF IInv, Typed
<1>3. Handled(q, req[q], stored, rows, jobs, deleted, cache, expired)
  BY DEF IInv
<1>4. q \notin stored /\ \A job \in jobs : job[3] # q
  BY <1>1, <1>3 DEF Handled, Stages
<1>5. ASSUME NEW answer \in {None} \cup Responses, Answers(q, answer),
             answer # None,
             IF Route[q] = "api" THEN answer = cache[KeyOf[q]] ELSE KeyOf[q] \in stored
      PROVE  IInv'
  <2> DEFINE h == [req[q] EXCEPT !.at = "answered", !.answer = answer]
  <2>1. /\ h \in Handlers /\ h.at = "answered" /\ h.answer = answer /\ h.late = req[q].late
        /\ req' = [req EXCEPT ![q] = h]
    BY <1>2, <1>5 DEF Handlers, Steps, Answers
  <2> HIDE DEF h
  <2>2. Route[q] = "api" => Complete(answer, stored, rows, jobs, deleted)
    BY <1>5, ResultsAreResults DEF IInv
  <2>3. Progress(q, h, stored, rows, jobs, deleted)
    BY <1>5, <2>1, <2>2 DEF Progress
  <2>4. Stages(q, h, stored, rows, jobs, deleted)
    BY <1>4 DEF Stages
  <2>5. Duplicates(q, h, stored, jobs, cache, expired)
    BY <1>3, <1>4, <1>5, <2>1 DEF Handled, Duplicates
  <2>6. QED
    BY <1>1, <2>1, <2>3, <2>4, <2>5, OneReads DEF Handled
<1>6. ASSUME NEW step \in {"query", "result"}, Moves(q, step),
             IF Route[q] = "api" THEN cache[KeyOf[q]] = None /\ step = "query"
                                 ELSE KeyOf[q] \notin stored /\ step = "result"
      PROVE  IInv'
  <2> DEFINE h == [req[q] EXCEPT !.at = step]
  <2>1. /\ h \in Handlers /\ h.at = step /\ h.answer = req[q].answer /\ h.late = req[q].late
        /\ req' = [req EXCEPT ![q] = h]
    BY <1>2, <1>6 DEF Handlers, Steps, Moves
  <2> HIDE DEF h
  <2>2. KeyOf[q] \in expired \/ ~req[q].late
    BY <1>3, <1>6 DEF Handled, Duplicates
  <2>3. Progress(q, h, stored, rows, jobs, deleted)
    BY <1>3, <1>6, <2>1 DEF Handled, Progress
  <2>4. Stages(q, h, stored, rows, jobs, deleted)
    BY <1>4 DEF Stages
  <2>5. Duplicates(q, h, stored, jobs, cache, expired)
    BY <1>3, <2>1, <2>2 DEF Handled, Duplicates
  <2>6. QED
    BY <1>1, <2>1, <2>3, <2>4, <2>5, OneReads DEF Handled
<1>7. CASE Route[q] = "api"
  <2>1. CASE cache[KeyOf[q]] # None
    BY <1>2, <1>5, <1>7, <2>1 DEF Lookup
  <2>2. CASE cache[KeyOf[q]] = None
    BY <1>6, <1>7, <2>2 DEF Lookup
  <2>3. QED
    BY <2>1, <2>2
<1>8. CASE Route[q] # "api"
  <2>1. CASE KeyOf[q] \in stored
    <3> DEFINE answer == [id |-> KeyOf[q], to |-> {}]
    <3>1. answer \in Responses /\ answer # None
      BY ResultsAreResults, ResponsesAreResponses DEF Responses, Results
    <3>2. Answers(q, answer)
      BY <1>8, <2>1 DEF Lookup
    <3> HIDE DEF answer
    <3>3. QED
      BY <1>5, <1>8, <2>1, <3>1, <3>2
  <2>2. CASE KeyOf[q] \notin stored /\ "shape" \in FlawsOf[q]
    BY <1>1, <1>8, <2>2, OneStops DEF Lookup
  <2>3. CASE KeyOf[q] \notin stored /\ "shape" \notin FlawsOf[q]
    BY <1>6, <1>8, <2>3 DEF Lookup
  <2>4. QED
    BY <2>1, <2>2, <2>3
<1>9. QED
  BY <1>7, <1>8

LEMMA QueryKeeps ==
    ASSUME IInv, NEW q \in Requests, Query(q)
    PROVE  IInv'
<1> DEFINE step == IF Route[q] = "api" THEN "result" ELSE "jobs"
           h == [req[q] EXCEPT !.at = step, !.matched = Active(q), !.left = Active(q)]
<1>1. req[q].at = "query" /\ UNCHANGED <<admin, stores, expired, faults>>
  BY DEF Query, At
<1>2. req[q] \in Handlers /\ req \in [Requests -> Handlers] /\ Active(q) \in SUBSET Dests
  BY DEF IInv, Typed, Active
<1>3. req' = [req EXCEPT ![q] = h]
  BY <1>2 DEF Query, Handlers
<1>4. /\ h \in Handlers /\ h.at = step /\ h.answer = req[q].answer /\ h.late = req[q].late
      /\ h.matched = h.left
  BY <1>2 DEF Handlers, Steps
<1>5. /\ Route[q] = "api" => step = "result"
      /\ Route[q] = "presentation" => step = "jobs"
  OBVIOUS
<1> HIDE DEF h, step
<1>6. Handled(q, req[q], stored, rows, jobs, deleted, cache, expired)
  BY DEF IInv
<1>7. q \notin stored /\ \A job \in jobs : job[3] # q
  BY <1>1, <1>6 DEF Handled, Stages
<1>8. Progress(q, h, stored, rows, jobs, deleted)
  BY <1>1, <1>4, <1>5, <1>6, ResultsAreResults DEF Handled, Progress
<1>9. Stages(q, h, stored, rows, jobs, deleted)
  BY <1>7 DEF Stages
<1>10. Duplicates(q, h, stored, jobs, cache, expired)
  BY <1>1, <1>4, <1>6 DEF Handled, Duplicates
<1>11. QED
  BY <1>1, <1>3, <1>4, <1>8, <1>9, <1>10, OneReads DEF Handled

LEMMA SaveResultKeeps ==
    ASSUME IInv, NEW q \in Requests, SaveResult(q)
    PROVE  IInv'
<1> DEFINE step == IF Route[q] = "api" THEN "rows" ELSE "query"
           h == [req[q] EXCEPT !.at = step]
<1>1. /\ req[q].at = "result" /\ UNCHANGED <<admin, rows, jobs, cache, expired, faults>>
      /\ stored' = stored \cup {ResultOf(q)} /\ deleted' = deleted /\ dest' = dest
  BY DEF SaveResult, At, admin
<1>2. req[q] \in Handlers /\ req \in [Requests -> Handlers]
  BY DEF IInv, Typed
<1>3. req' = [req EXCEPT ![q] = h]
  BY <1>2 DEF SaveResult, Moves, Handlers
<1>4. /\ h \in Handlers /\ h.at = step /\ h.answer = req[q].answer /\ h.late = req[q].late
      /\ h.matched = req[q].matched /\ h.left = req[q].left
  BY <1>2 DEF Handlers, Steps
<1>5. /\ Route[q] = "api" => step = "rows"
      /\ Route[q] = "presentation" => step = "query"
  OBVIOUS
<1> HIDE DEF h, step
<1>6. Handled(q, req[q], stored, rows, jobs, deleted, cache, expired)
  BY DEF IInv
<1>7. q \notin stored /\ \A job \in jobs : job[3] # q
  BY <1>1, <1>6 DEF Handled, Stages
<1>8. /\ Grow({q}, stored, rows, jobs, deleted, stored', rows', jobs', deleted')
      /\ Remembers(cache, expired, cache', expired')
  BY <1>1 DEF Grow, Remembers
<1>9. Progress(q, h, stored', rows', jobs', deleted')
  <2>1. h.answer # None => IF Route[q] = "api" THEN Complete(h.answer, stored', rows', jobs', deleted')
                                               ELSE KeyOf[q] \in stored'
    BY <1>1, <1>4, <1>6, <1>8, CompleteKept DEF Handled, Progress
  <2>2. Route[q] = "api" => h.matched \ h.left = {}
    BY <1>1, <1>4, <1>6 DEF Handled, Progress
  <2>3. QED
    BY <1>1, <1>4, <1>5, <2>1, <2>2, ResultsAreResults DEF Progress
<1>10. Stages(q, h, stored', rows', jobs', deleted')
  <2>1. q \in stored' => Route[q] = "api"
    BY <1>1, <1>7, ResultNames
  <2>2. QED
    BY <1>1, <1>4, <1>5, <1>7, <2>1 DEF Stages
<1>11. Duplicates(q, h, stored', jobs', cache', expired')
  BY <1>1, <1>4, <1>6 DEF Handled, Duplicates
<1>12. /\ stored' \subseteq Results /\ rows' \subseteq Results \X Dests
       /\ jobs' \subseteq Results \X Dests \X Requests
       /\ cache' \in [Keys -> {None} \cup Responses]
  BY <1>1, ResultsAreResults DEF IInv, Typed
<1>13. RowsAreAnchored'
  BY <1>1 DEF IInv, RowsAreAnchored
<1>14. QED
  BY <1>1, <1>3, <1>4, <1>8, <1>9, <1>10, <1>11, <1>12, <1>13, OneMoves DEF Handled

LEMMA SaveRowKeeps ==
    ASSUME IInv, NEW q \in Requests, SaveRow(q)
    PROVE  IInv'
<1>1. req[q].at = "rows" /\ UNCHANGED <<admin, stored, jobs, cache, expired, faults>>
  BY DEF SaveRow, At
<1>2. req[q] \in Handlers /\ req \in [Requests -> Handlers]
  BY DEF IInv, Typed
<1>3. Handled(q, req[q], stored, rows, jobs, deleted, cache, expired)
  BY DEF IInv
<1>4. /\ Route[q] = "api" /\ ResultOf(q) \in stored /\ \A job \in jobs : job[3] # q
      /\ \A d \in req[q].matched \ req[q].left : HasRow(ResultOf(q), d, rows, deleted)
  BY <1>1, <1>3 DEF Handled, Progress, Stages
<1>5. CASE /\ req[q].left = {} /\ UNCHANGED rows
           /\ req' = [req EXCEPT ![q].at = "jobs", ![q].left = req[q].matched]
  <2> DEFINE h == [req[q] EXCEPT !.at = "jobs", !.left = req[q].matched]
  <2>1. /\ h \in Handlers /\ h.at = "jobs" /\ h.answer = req[q].answer /\ h.late = req[q].late
        /\ h.matched = req[q].matched /\ h.left = req[q].matched /\ req' = [req EXCEPT ![q] = h]
    BY <1>2, <1>5 DEF Handlers, Steps
  <2> HIDE DEF h
  <2>2. Progress(q, h, stored, rows, jobs, deleted)
    BY <1>3, <1>4, <1>5, <2>1 DEF Handled, Progress
  <2>3. Stages(q, h, stored, rows, jobs, deleted)
    BY <1>4, <2>1 DEF Stages
  <2>4. Duplicates(q, h, stored, jobs, cache, expired)
    BY <1>1, <1>3, <2>1 DEF Handled, Duplicates
  <2>5. UNCHANGED <<admin, stores, expired, faults>>
    BY <1>1, <1>5 DEF stores
  <2>6. QED
    BY <2>1, <2>2, <2>3, <2>4, <2>5, OneReads DEF Handled
<1>6. ASSUME NEW d \in req[q].left, dest[d] # NoRow, rows' = rows \cup {<<ResultOf(q), d>>},
             req' = [req EXCEPT ![q].left = req[q].left \ {d}]
      PROVE  IInv'
  <2> DEFINE h == [req[q] EXCEPT !.left = req[q].left \ {d}]
  <2>1. /\ h \in Handlers /\ h.at = "rows" /\ h.answer = req[q].answer /\ h.late = req[q].late
        /\ h.matched = req[q].matched /\ h.left = req[q].left \ {d} /\ req' = [req EXCEPT ![q] = h]
    BY <1>1, <1>2, <1>6 DEF Handlers
  <2> HIDE DEF h
  <2>2. /\ Grow({q}, stored, rows, jobs, deleted, stored', rows', jobs', deleted')
        /\ Remembers(cache, expired, cache', expired')
    BY <1>1, <1>6 DEF Grow, Remembers, admin
  <2>3. HasRow(ResultOf(q), d, rows', deleted')
    BY <1>6 DEF HasRow
  <2>4. \A e \in h.matched \ h.left : HasRow(ResultOf(q), e, rows', deleted')
    BY <1>4, <2>1, <2>2, <2>3, HasRowKept
  <2>5. h.answer # None => Complete(h.answer, stored', rows', jobs', deleted')
    BY <1>3, <1>4, <2>1, <2>2, CompleteKept DEF Handled, Progress
  <2>6. Progress(q, h, stored', rows', jobs', deleted')
    BY <1>1, <1>4, <2>1, <2>4, <2>5 DEF Progress
  <2>7. Stages(q, h, stored', rows', jobs', deleted')
    BY <1>1, <1>4, <2>1 DEF Stages
  <2>8. Duplicates(q, h, stored', jobs', cache', expired')
    BY <1>1, <1>3, <2>1 DEF Handled, Duplicates
  <2>9. d \in Dests
    BY <1>2 DEF Handlers
  <2>10. /\ stored' \subseteq Results /\ rows' \subseteq Results \X Dests
         /\ jobs' \subseteq Results \X Dests \X Requests
         /\ cache' \in [Keys -> {None} \cup Responses]
    BY <1>1, <1>6, <2>9, ResultsAreResults DEF IInv, Typed
  <2>11. RowsAreAnchored'
    <3>1. dest' = dest
      BY <1>1 DEF admin
    <3>2. QED
      BY <1>1, <1>4, <1>6, <3>1 DEF IInv, RowsAreAnchored
  <2>12. UNCHANGED <<admin, expired, faults>> /\ \A k \in Keys : cache'[k] = cache[k]
    BY <1>1
  <2>13. QED
    BY <2>1, <2>2, <2>6, <2>7, <2>8, <2>10, <2>11, <2>12, OneMoves DEF Handled
<1>7. ASSUME Moves(q, "answered"), UNCHANGED rows
      PROVE  IInv'
  BY <1>1, <1>7, OneStops DEF stores
<1>8. QED
  BY <1>5, <1>6, <1>7 DEF SaveRow

LEMMA EnqueueOneKeeps ==
    ASSUME IInv, NEW q \in Requests, EnqueueOne(q)
    PROVE  IInv'
<1>1. req[q].at = "jobs" /\ UNCHANGED <<admin, stored, rows, cache, expired, faults>>
  BY DEF EnqueueOne, At
<1>2. req[q] \in Handlers /\ req \in [Requests -> Handlers]
  BY DEF IInv, Typed
<1>3. Handled(q, req[q], stored, rows, jobs, deleted, cache, expired)
  BY DEF IInv
<1>4. /\ ResultOf(q) \in stored
      /\ Route[q] = "api" => \A d \in req[q].matched : HasRow(ResultOf(q), d, rows, deleted)
      /\ \A d \in req[q].matched \ req[q].left : <<ResultOf(q), d, q>> \in jobs
  BY <1>1, <1>3 DEF Handled, Progress
<1>5. ASSUME req[q].left = {}, Route[q] = "api", Moves(q, "remember"), UNCHANGED jobs
      PROVE  IInv'
  <2> DEFINE h == [req[q] EXCEPT !.at = "remember"]
  <2>1. /\ h \in Handlers /\ h.at = "remember" /\ h.answer = req[q].answer /\ h.late = req[q].late
        /\ h.matched = req[q].matched /\ h.left = req[q].left /\ req' = [req EXCEPT ![q] = h]
    BY <1>2, <1>5 DEF Handlers, Steps, Moves
  <2> HIDE DEF h
  <2>2. Progress(q, h, stored, rows, jobs, deleted)
    BY <1>3, <1>4, <1>5, <2>1 DEF Handled, Progress
  <2>3. Stages(q, h, stored, rows, jobs, deleted)
    BY <1>3, <2>1 DEF Handled, Stages
  <2>4. Duplicates(q, h, stored, jobs, cache, expired)
    BY <1>1, <1>3, <2>1 DEF Handled, Duplicates
  <2>5. UNCHANGED <<admin, stores, expired, faults>>
    BY <1>1, <1>5 DEF stores
  <2>6. QED
    BY <2>1, <2>2, <2>3, <2>4, <2>5, OneReads DEF Handled
<1>6. ASSUME Route[q] # "api", NEW answer \in Responses, Answers(q, answer), UNCHANGED jobs
      PROVE  IInv'
  <2> DEFINE h == [req[q] EXCEPT !.at = "answered", !.answer = answer]
  <2>1. /\ h \in Handlers /\ h.at = "answered" /\ h.answer = answer /\ h.late = req[q].late
        /\ h.matched = req[q].matched /\ h.left = req[q].left /\ req' = [req EXCEPT ![q] = h]
    BY <1>2, <1>6 DEF Handlers, Steps, Answers
  <2> HIDE DEF h
  <2>2. Progress(q, h, stored, rows, jobs, deleted)
    BY <1>4, <1>6, <2>1, ResultsAreResults DEF Progress
  <2>3. Stages(q, h, stored, rows, jobs, deleted)
    BY <1>3, <2>1 DEF Handled, Stages
  <2>4. Duplicates(q, h, stored, jobs, cache, expired)
    BY <1>1, <1>3, <1>6, <2>1 DEF Handled, Duplicates
  <2>5. UNCHANGED <<admin, stores, expired, faults>>
    BY <1>1, <1>6 DEF stores
  <2>6. QED
    BY <2>1, <2>2, <2>3, <2>4, <2>5, OneReads DEF Handled
<1>7. ASSUME NEW d \in req[q].left, jobs' = jobs \cup {<<ResultOf(q), d, q>>},
             req' = [req EXCEPT ![q].left = req[q].left \ {d}]
      PROVE  IInv'
  <2> DEFINE h == [req[q] EXCEPT !.left = req[q].left \ {d}]
             job0 == <<ResultOf(q), d, q>>
  <2>1. /\ h \in Handlers /\ h.at = "jobs" /\ h.answer = req[q].answer /\ h.late = req[q].late
        /\ h.matched = req[q].matched /\ h.left = req[q].left \ {d} /\ req' = [req EXCEPT ![q] = h]
    BY <1>1, <1>2, <1>7 DEF Handlers
  <2>2. job0[1] = ResultOf(q) /\ job0[3] = q /\ jobs' = jobs \cup {job0}
    BY <1>7
  <2> HIDE DEF h
  <2>3. /\ Grow({q}, stored, rows, jobs, deleted, stored', rows', jobs', deleted')
        /\ Remembers(cache, expired, cache', expired')
    BY <1>1, <2>2 DEF Grow, Remembers, admin
  <2>4. \A e \in h.matched \ h.left : <<ResultOf(q), e, q>> \in jobs'
    BY <1>4, <2>1, <2>2
  <2>5. h.answer # None => IF Route[q] = "api" THEN Complete(h.answer, stored', rows', jobs', deleted')
                                               ELSE KeyOf[q] \in stored'
    BY <1>1, <1>3, <2>1, <2>3, CompleteKept DEF Handled, Progress
  <2>6. deleted' = deleted /\ rows' = rows /\ stored' = stored /\ cache' = cache /\ expired' = expired
    BY <1>1 DEF admin
  <2>7. Progress(q, h, stored', rows', jobs', deleted')
    BY <1>4, <2>1, <2>4, <2>5, <2>6 DEF Progress
  <2>8. Stages(q, h, stored', rows', jobs', deleted')
    BY <1>1, <1>3, <1>4, <2>1, <2>2, <2>6 DEF Handled, Stages
  <2>9. Duplicates(q, h, stored', jobs', cache', expired')
    BY <1>1, <1>3, <2>1, <2>6 DEF Handled, Duplicates
  <2>10. d \in Dests
    BY <1>2 DEF Handlers
  <2>11. /\ stored' \subseteq Results /\ rows' \subseteq Results \X Dests
         /\ jobs' \subseteq Results \X Dests \X Requests
         /\ cache' \in [Keys -> {None} \cup Responses]
    BY <2>2, <2>6, <2>10, ResultsAreResults DEF IInv, Typed
  <2>12. RowsAreAnchored'
    BY <1>1 DEF IInv, RowsAreAnchored, admin
  <2>13. UNCHANGED <<admin, expired, faults>> /\ \A k \in Keys : cache'[k] = cache[k]
    BY <1>1
  <2>14. QED
    BY <2>1, <2>3, <2>7, <2>8, <2>9, <2>11, <2>12, <2>13, OneMoves DEF Handled
<1>8. [id |-> ResultOf(q), to |-> req[q].matched] \in Responses
  BY <1>2, ResultsAreResults DEF Responses, Handlers
<1>9. QED
  BY <1>5, <1>6, <1>7, <1>8 DEF EnqueueOne

LEMMA RememberKeeps ==
    ASSUME IInv, NEW q \in Requests, Remember(q)
    PROVE  IInv'
<1> DEFINE response == [id |-> ResultOf(q), to |-> req[q].matched]
           h == [req[q] EXCEPT !.at = "answered", !.answer = response]
<1>1. /\ req[q].at = "remember" /\ UNCHANGED <<admin, stored, rows, jobs, expired, faults>>
      /\ cache' = [cache EXCEPT ![KeyOf[q]] = response] /\ Answers(q, response)
  BY DEF Remember, At
<1>2. req[q] \in Handlers /\ req \in [Requests -> Handlers] /\ cache \in [Keys -> {None} \cup Responses]
  BY DEF IInv, Typed
<1>3. /\ response \in Responses /\ response # None
      /\ response.id = ResultOf(q) /\ response.to = req[q].matched
  BY <1>2, ResultsAreResults, ResponsesAreResponses DEF Responses, Handlers
<1> HIDE DEF response
<1>4. /\ h \in Handlers /\ h.at = "answered" /\ h.answer = response /\ h.late = req[q].late
      /\ h.matched = req[q].matched /\ req' = [req EXCEPT ![q] = h]
  BY <1>1, <1>2, <1>3 DEF Handlers, Steps, Answers
<1> HIDE DEF h
<1>5. Handled(q, req[q], stored, rows, jobs, deleted, cache, expired)
  BY DEF IInv
<1>6. /\ Route[q] = "api" /\ ResultOf(q) \in stored
      /\ \A d \in req[q].matched : HasRow(ResultOf(q), d, rows, deleted) /\ <<ResultOf(q), d, q>> \in jobs
  BY <1>1, <1>5 DEF Handled, Progress
<1>7. Complete(response, stored, rows, jobs, deleted)
  BY <1>3, <1>6 DEF Complete
<1>8. /\ stored' = stored /\ rows' = rows /\ jobs' = jobs /\ deleted' = deleted /\ expired' = expired
      /\ dest' = dest
  BY <1>1 DEF admin
<1>9. /\ cache' \in [Keys -> {None} \cup Responses] /\ cache'[KeyOf[q]] = response
      /\ \A k \in Keys : cache'[k] = cache[k] \/ cache'[k] = response
  BY <1>1, <1>2, <1>3, ResultsAreResults
<1>10. /\ Grow({q}, stored, rows, jobs, deleted, stored', rows', jobs', deleted')
       /\ Remembers(cache, expired, cache', expired')
  BY <1>3, <1>8, <1>9 DEF Grow, Remembers
<1>11. Progress(q, h, stored', rows', jobs', deleted')
  BY <1>4, <1>6, <1>7, <1>8 DEF Progress
<1>12. Stages(q, h, stored', rows', jobs', deleted')
  BY <1>4, <1>5, <1>8 DEF Handled, Stages
<1>13. Duplicates(q, h, stored', jobs', cache', expired')
  BY <1>1, <1>3, <1>4, <1>5, <1>8, <1>9 DEF Handled, Duplicates
<1>14. \A k \in Keys : cache'[k] # None =>
          cache'[k] = cache[k] \/ Complete(cache'[k], stored', rows', jobs', deleted')
  BY <1>7, <1>8, <1>9
<1>15. /\ stored' \subseteq Results /\ rows' \subseteq Results \X Dests
       /\ jobs' \subseteq Results \X Dests \X Requests
  BY <1>8 DEF IInv, Typed
<1>16. RowsAreAnchored'
  BY <1>8 DEF IInv, RowsAreAnchored
<1>17. UNCHANGED <<admin, expired, faults>>
  BY <1>1
<1>18. QED
  BY <1>4, <1>9, <1>10, <1>11, <1>12, <1>13, <1>14, <1>15, <1>16, <1>17, OneMoves DEF Handled

LEMMA ExpireKeeps ==
    ASSUME IInv, NEW k \in Keys, Expire(k)
    PROVE  IInv'
<1>1. /\ UNCHANGED <<admin, stored, rows, jobs, req, faults>>
      /\ cache' = [cache EXCEPT ![k] = None] /\ expired' = expired \cup {k}
  BY DEF Expire
<1>2. UNCHANGED <<dest, editing, deleted, changes>>
  BY <1>1 DEF admin
<1>3. Typed'
  BY <1>1, <1>2 DEF IInv, Typed
<1>4. RowsAreAnchored'
  BY <1>1, <1>2 DEF IInv, RowsAreAnchored
<1>5. \A l \in Keys : cache'[l] = IF l = k THEN None ELSE cache[l]
  BY <1>1 DEF IInv, Typed
<1>6. Remembers(cache, expired, cache', expired')
  BY <1>1, <1>5 DEF Remembers
<1>7. Grow({}, stored, rows, jobs, deleted, stored', rows', jobs', deleted')
  BY <1>1, <1>2 DEF Grow
<1>8. \A p \in Requests : Stops(req[p], req'[p])
  BY <1>1, Standing
<1>9. QED
  BY <1>3, <1>4, <1>5, <1>6, <1>7, <1>8, NobodyMoves

LEMMA FaultsKeep ==
    ASSUME IInv, (\E q \in Requests : Reject(q)) \/ Crash
    PROVE  IInv'
<1>1. /\ UNCHANGED <<dest, deleted, changes, stores, expired>> /\ editing' \subseteq editing
      /\ faults < MaxFaults /\ faults' = faults + 1
  BY DEF Reject, Crash, admin
<1>2. req' \in [Requests -> Handlers] /\ \A p \in Requests : Stops(req[p], req'[p])
  <2>1. req \in [Requests -> Handlers]
    BY DEF IInv, Typed
  <2>2. ASSUME NEW q \in Requests, Reject(q)
        PROVE  req' \in [Requests -> Handlers] /\ \A p \in Requests : Stops(req[p], req'[p])
    <3> DEFINE h == [req[q] EXCEPT !.at = "answered"]
    <3>1. h \in Handlers /\ Stops(req[q], h) /\ req' = [req EXCEPT ![q] = h]
      BY <2>1, <2>2 DEF Reject, Moves, Handlers, Steps, Stops
    <3> HIDE DEF h
    <3>2. QED
      BY <2>1, <3>1, Standing
  <2>3. ASSUME Crash
        PROVE  req' \in [Requests -> Handlers] /\ \A p \in Requests : Stops(req[p], req'[p])
    <3> DEFINE dead(p) == IF req[p].at \in {"new", "answered"} THEN req[p]
                          ELSE [req[p] EXCEPT !.at = "dead"]
    <3>1. \A p \in Requests : dead(p) \in Handlers /\ Stops(req[p], dead(p))
      BY <2>1 DEF Handlers, Steps, Stops
    <3>2. req' = [p \in Requests |-> dead(p)]
      BY <2>3 DEF Crash
    <3> HIDE DEF dead
    <3>3. QED
      BY <3>1, <3>2
  <2>4. QED
    BY <2>2, <2>3
<1>3. Typed'
  BY <1>1, <1>2, IngestionAssumption DEF IInv, Typed, stores
<1>4. RowsAreAnchored'
  BY <1>1 DEF IInv, RowsAreAnchored, stores
<1>5. QED
  BY <1>1, <1>2, <1>3, <1>4, NothingGrows, NobodyMoves

LEMMA Next_IInv == IInv /\ [Next]_vars => IInv'
<1> SUFFICES ASSUME IInv, [Next]_vars PROVE IInv'
  OBVIOUS
<1>1. CASE UNCHANGED vars
  <2>1. UNCHANGED <<dest, editing, deleted, stored, rows, jobs, cache, expired, req, changes, faults>>
    BY <1>1 DEF vars
  <2>2. QED
    BY <2>1 DEF IInv, Typed, RowsAreAnchored
<1>2. CASE \E d \in Dests, row \in DestRows :
              Register(d, row) \/ Update(d, row) \/ ToggleSave(d, row)
  BY <1>2, RegisterKeeps, ToggleKeeps
<1>3. CASE \E d \in Dests : Delete(d) \/ ToggleRead(d)
  BY <1>3, DeleteKeeps, ToggleKeeps
<1>4. CASE \E q \in Requests :
              \/ Start(q) \/ Lookup(q) \/ Query(q) \/ SaveResult(q) \/ SaveRow(q) \/ EnqueueOne(q)
              \/ Remember(q) \/ Reject(q)
  BY <1>4, StartKeeps, LookupKeeps, QueryKeeps, SaveResultKeeps, SaveRowKeeps, EnqueueOneKeeps,
     RememberKeeps, FaultsKeep
<1>5. CASE \E k \in Keys : Expire(k)
  BY <1>5, ExpireKeeps
<1>6. CASE Crash
  BY <1>6, FaultsKeep
<1>7. QED
  BY <1>1, <1>2, <1>3, <1>4, <1>5, <1>6 DEF Next

-----------------------------------------------------------------------------
(***************************************************************************)
(* Whatever interleaves, fails, crashes or is deleted meanwhile: a 202 of  *)
(* the api route names a stored result with the jobs and rows it counts,   *)
(* a job finds its rows, and no row outlives its destination.              *)
(***************************************************************************)
THEOREM IntakeStaysComplete == Spec => []IntakeIsComplete
<1>1. IInv => IntakeIsComplete
  <2> SUFFICES ASSUME IInv PROVE IntakeIsComplete
    OBVIOUS
  <2>1. TypeOK
    BY DEF IInv, Typed, TypeOK, Handlers
  <2>2. ASSUME NEW q \in Requests
        PROVE  Handled(q, req[q], stored, rows, jobs, deleted, cache, expired)
    BY DEF IInv
  <2>3. AcceptedIsComplete
    BY <2>2 DEF AcceptedIsComplete, Accepted, Handled, Progress, Complete, HasRow
  <2>4. JobsHaveRows
    <3> SUFFICES ASSUME NEW job \in jobs, Route[job[3]] = "api", NEW d \in req[job[3]].matched
                 PROVE  <<job[1], d>> \in rows \/ d \in deleted
      BY DEF JobsHaveRows
    <3>1. job[3] \in Requests
      BY DEF IInv, Typed
    <3>2. QED
      BY <2>2, <3>1 DEF Handled, Stages, HasRow
  <2>5. QED
    BY <2>1, <2>3, <2>4 DEF IntakeIsComplete, IInv
<1>2. QED
  BY <1>1, Init_IInv, Next_IInv, PTL DEF Spec

(***************************************************************************)
(* A request that begins after one with its key was answered 202 stores no *)
(* result and no job before the key expires, on either route.              *)
(***************************************************************************)
THEOREM DuplicatesNeverStore == Spec => []LaterDuplicatesStoreNothing
<1>1. IInv => LaterDuplicatesStoreNothing
  <2> SUFFICES ASSUME IInv, NEW q \in Requests, req[q].late, KeyOf[q] \notin expired
               PROVE  /\ Route[q] = "api" => q \notin stored
                      /\ \A job \in jobs : job[3] # q
    BY DEF LaterDuplicatesStoreNothing
  <2>1. Handled(q, req[q], stored, rows, jobs, deleted, cache, expired)
    BY DEF IInv
  <2>2. QED
    BY <2>1 DEF Handled, Duplicates
<1>2. QED
  BY <1>1, Init_IInv, Next_IInv, PTL DEF Spec

-----------------------------------------------------------------------------
(* QueueControl *)

QueueSpec == QueueInit /\ [][QueueNext]_queueVars

Calls ==
    {Idle} \cup [op : Searches, at : {"delayed", "dlq"}, id : 1..MaxId]
           \cup [op : Searches, at : {"found"}, job : Handles]
           \cup [op : {"toDelayed", "toDLQ"}, at : {"add"}, job : Handles]

\* QueueTypeOK in two parts.
HeldTyped ==
    /\ held \subseteq Jobs /\ IsFiniteSet(held)
    /\ \A j, k \in held : j.queue = k.queue /\ j.id = k.id => j = k
    /\ nextId \in [Queues -> 1..MaxId + 1]
    /\ \A j \in held : j.id < nextId[j.queue]

RestTyped ==
    /\ paused \in BOOLEAN /\ refused \in 0..MaxRefused
    /\ operator \in [Operators -> Calls]
    /\ \A h \in {added, ended, lost, ghosts} : h \in [Deliveries -> Nat]

QueueTyped == HeldTyped /\ RestTyped

Carrying(call) == call # Idle /\ call.at \in {"found", "add"}

\* Ids are not given twice, so that a handle still means the job it was made of.
HandlesMatch ==
    \A o \in Operators : Carrying(operator[o]) =>
        LET h == operator[o].job IN
          /\ h.id < nextId[h.queue]
          /\ \A k \in WithId(h.queue, h.id) : k.delivery = h.delivery

QueueInv == QueueTyped /\ HandlesMatch /\ JobsAreConserved /\ LossNeedsAReason

-----------------------------------------------------------------------------
(* Counting jobs and hands *)

Of(J, d) == {j \in J : j.delivery = d}
Full(call, d) == call # Idle /\ call.at = "add" /\ call.job.delivery = d
Hands(calls, d) == {o \in Operators : Full(calls[o], d)}
One(p) == IF p THEN 1 ELSE 0

LEMMA OfAdd ==
    ASSUME NEW J, IsFiniteSet(J), NEW k, k \notin J, NEW d
    PROVE  Cardinality(Of(J \cup {k}, d)) = Cardinality(Of(J, d)) + One(k.delivery = d)
<1>1. IsFiniteSet(Of(J, d))
  BY FS_Subset DEF Of
<1>2. CASE k.delivery = d
  <2>1. Of(J \cup {k}, d) = Of(J, d) \cup {k} /\ k \notin Of(J, d)
    BY <1>2 DEF Of
  <2>2. QED
    BY <1>1, <1>2, <2>1, FS_AddElement DEF One
<1>3. CASE k.delivery # d
  <2>1. Of(J \cup {k}, d) = Of(J, d)
    BY <1>3 DEF Of
  <2>2. QED
    BY <1>1, <1>3, <2>1, FS_CardinalityType DEF One
<1>4. QED
  BY <1>2, <1>3

LEMMA OfRemove ==
    ASSUME NEW J, IsFiniteSet(J), NEW k \in J, NEW d
    PROVE  /\ IsFiniteSet(J \ {k})
           /\ Cardinality(Of(J, d)) = Cardinality(Of(J \ {k}, d)) + One(k.delivery = d)
<1>1. IsFiniteSet(J \ {k}) /\ k \notin J \ {k} /\ J = (J \ {k}) \cup {k}
  BY FS_RemoveElement
<1>2. QED
  BY <1>1, OfAdd

LEMMA OfSwap ==
    ASSUME NEW J, IsFiniteSet(J), NEW j \in J, NEW k, k \notin J \ {j},
           k.delivery = j.delivery, NEW d
    PROVE  Cardinality(Of((J \ {j}) \cup {k}, d)) = Cardinality(Of(J, d))
<1>1. IsFiniteSet(J \ {j})
  BY OfRemove
<1>2. QED
  BY <1>1, OfRemove, OfAdd

LEMMA HandsChange ==
    ASSUME NEW calls \in [Operators -> Calls], NEW o \in Operators, NEW c \in Calls, NEW d
    PROVE  Cardinality(Hands([calls EXCEPT ![o] = c], d)) + One(Full(calls[o], d))
             = Cardinality(Hands(calls, d)) + One(Full(c, d))
<1> DEFINE H == Hands(calls, d) \ {o}
           G == Hands([calls EXCEPT ![o] = c], d)
<1>1. IsFiniteSet(H) /\ o \notin H /\ IsFiniteSet(Hands(calls, d))
  BY QueueAssumption, FS_Subset, FS_RemoveElement DEF Hands
<1>2. Hands(calls, d) = IF Full(calls[o], d) THEN H \cup {o} ELSE H
  BY DEF Hands
<1>3. G = IF Full(c, d) THEN H \cup {o} ELSE H
  BY DEF Hands
<1>4. Cardinality(H \cup {o}) = Cardinality(H) + 1 /\ Cardinality(H) \in Nat
  BY <1>1, FS_AddElement, FS_CardinalityType
<1>5. QED
  BY <1>2, <1>3, <1>4 DEF One

LEMMA CountsAreNat ==
    ASSUME QueueTyped, NEW d
    PROVE  /\ JobsOf(d) = Of(held, d) /\ InHand(d) = Hands(operator, d)
           /\ Cardinality(Of(held, d)) \in Nat /\ Cardinality(Hands(operator, d)) \in Nat
<1>1. JobsOf(d) = Of(held, d) /\ InHand(d) = Hands(operator, d)
  BY DEF JobsOf, Of, InHand, Hands, HasData, Full
<1>2. IsFiniteSet(Of(held, d)) /\ IsFiniteSet(Hands(operator, d))
  BY QueueAssumption, FS_Subset DEF QueueTyped, HeldTyped, Of, Hands
<1>3. QED
  BY <1>1, <1>2, FS_CardinalityType

-----------------------------------------------------------------------------
(* What steps have in common *)

Same(j, k) == j.queue = k.queue /\ j.id = k.id /\ j.delivery = k.delivery

\* Every job was there, or is new.
Descends ==
    /\ \A k \in held' : k.id >= nextId[k.queue] \/ \E j \in held : Same(j, k)
    /\ \A q \in Queues : nextId'[q] >= nextId[q]

\* What an operator carries it carried before, or has just found.
HandlesAreFound ==
    \A o \in Operators : Carrying(operator'[o]) =>
        \/ Carrying(operator[o]) /\ operator'[o].job = operator[o].job
        \/ \E j \in held : operator'[o].job = Handle(j)

LEMMA CallFacts ==
    ASSUME NEW c \in Calls
    PROVE  /\ Carrying(c) => c.job \in Handles /\ c.op \in Searches
           /\ c # Idle => c.op \in Searches /\ c.at \in {"delayed", "dlq", "found", "add"}
           /\ c # Idle /\ c.at \in {"delayed", "dlq"} => c.id \in 1..MaxId
           /\ c # Idle /\ c.at = "add" => c.op \in {"toDelayed", "toDLQ"}
  BY DEF Calls, Carrying, Searches, Idle

LEMMA MatchesStay ==
    ASSUME QueueTyped, QueueTyped', HandlesMatch, Descends, HandlesAreFound
    PROVE  HandlesMatch'
<1> SUFFICES ASSUME NEW o \in Operators, Carrying(operator'[o])
             PROVE  LET h == operator'[o].job IN
                      /\ h.id < nextId'[h.queue]
                      /\ \A k \in held' : k.queue = h.queue /\ k.id = h.id => k.delivery = h.delivery
  BY DEF HandlesMatch, WithId
<1> DEFINE h == operator'[o].job
<1>1. h \in Handles
  BY CallFacts DEF QueueTyped, RestTyped
<1>2. nextId[h.queue] \in Nat /\ nextId'[h.queue] \in Nat /\ h.id \in Nat /\ h.queue \in Queues
  BY <1>1, QueueAssumption DEF Handles, QueueTyped, HeldTyped
<1>3. /\ h.id < nextId[h.queue]
      /\ \A j \in held : j.queue = h.queue /\ j.id = h.id => j.delivery = h.delivery
  <2>1. CASE Carrying(operator[o]) /\ h = operator[o].job
    BY <2>1 DEF HandlesMatch, WithId
  <2>2. CASE \E j \in held : h = Handle(j)
    <3>1. PICK j \in held : h = Handle(j)
      BY <2>2
    <3>2. h.queue = j.queue /\ h.id = j.id /\ h.delivery = j.delivery
      BY <3>1 DEF Handle
    <3>3. QED
      BY <3>2 DEF QueueTyped, HeldTyped
  <2>3. QED
    BY <2>1, <2>2 DEF HandlesAreFound
<1>4. h.id < nextId'[h.queue]
  BY <1>2, <1>3 DEF Descends
<1>5. ASSUME NEW k \in held', k.queue = h.queue, k.id = h.id PROVE k.delivery = h.delivery
  <2>1. ~(k.id >= nextId[k.queue])
    BY <1>2, <1>3, <1>5
  <2>2. PICK j \in held : Same(j, k)
    BY <2>1 DEF Descends
  <2>3. QED
    BY <1>3, <1>5, <2>2 DEF Same
<1>6. QED
  BY <1>4, <1>5

\* Jobs, hands and what has ended or is lost change alike on both sides.
BalancedFor(d) ==
    Cardinality(Of(held', d)) + Cardinality(Hands(operator', d)) + ended'[d] + lost'[d]
        + added[d] + ghosts[d]
      = Cardinality(Of(held, d)) + Cardinality(Hands(operator, d)) + ended[d] + lost[d]
        + added'[d] + ghosts'[d]

Balanced == \A d \in Deliveries : BalancedFor(d)

LEMMA BalanceStays ==
    ASSUME QueueTyped, QueueTyped', JobsAreConserved, Balanced
    PROVE  JobsAreConserved'
<1> SUFFICES ASSUME NEW d \in Deliveries
             PROVE  (Cardinality(JobsOf(d)) + Cardinality(InHand(d)) + ended[d] + lost[d]
                       = added[d] + ghosts[d])'
  BY DEF JobsAreConserved
<1>1. /\ JobsOf(d) = Of(held, d) /\ InHand(d) = Hands(operator, d)
      /\ Cardinality(Of(held, d)) \in Nat /\ Cardinality(Hands(operator, d)) \in Nat
  BY CountsAreNat
<1>2. /\ JobsOf(d)' = Of(held', d) /\ InHand(d)' = Hands(operator', d)
  BY DEF JobsOf, Of, InHand, Hands, HasData, Full
<1>3. IsFiniteSet(Of(held', d)) /\ IsFiniteSet(Hands(operator', d))
  BY QueueAssumption, FS_Subset DEF QueueTyped, HeldTyped, Of, Hands
<1>4. Cardinality(Of(held', d)) \in Nat /\ Cardinality(Hands(operator', d)) \in Nat
  BY <1>3, FS_CardinalityType
<1>5. \A h \in {added, ended, lost, ghosts, added', ended', lost', ghosts'} : h[d] \in Nat
  BY DEF QueueTyped, RestTyped
<1>6. Cardinality(Of(held, d)) + Cardinality(Hands(operator, d)) + ended[d] + lost[d]
        = added[d] + ghosts[d]
  BY <1>1 DEF JobsAreConserved
<1>7. QED
  BY <1>1, <1>2, <1>4, <1>5, <1>6 DEF Balanced, BalancedFor

\* Everything a step owes but the reasons of losses.
Keeps == QueueTyped' /\ HandlesMatch' /\ JobsAreConserved'

LEMMA Owes ==
    ASSUME QueueInv, QueueTyped', Descends, HandlesAreFound, Balanced
    PROVE  Keeps
  BY MatchesStay, BalanceStays DEF QueueInv, Keeps

LEMMA Adds ==
    ASSUME HeldTyped, NEW q \in Queues, NEW d \in Deliveries, AddTo(q, d)
    PROVE  /\ HeldTyped' /\ Descends
           /\ \A e : Cardinality(Of(held', e)) = Cardinality(Of(held, e)) + One(d = e)
<1> DEFINE k == [queue |-> q, id |-> nextId[q], delivery |-> d, tries |-> 0,
                 state |-> IF q = "delayed" THEN "delayed" ELSE "waiting"]
<1>1. held' = held \cup {k} /\ nextId' = [nextId EXCEPT ![q] = @ + 1] /\ nextId[q] <= MaxId
  BY DEF AddTo
<1>2. nextId[q] \in 1..MaxId /\ \A p \in Queues : nextId[p] \in Nat
  BY <1>1, QueueAssumption DEF HeldTyped
<1>3. k \in Jobs
  BY <1>2, QueueAssumption DEF Jobs
<1>4. \A j \in held : j.queue \in Queues /\ j.id \in Nat /\ j.id < nextId[j.queue]
  BY QueueAssumption DEF HeldTyped, Jobs
<1>5. k \notin held /\ \A j \in held : ~(j.queue = k.queue /\ j.id = k.id)
  BY <1>2, <1>4
<1>6. nextId' \in [Queues -> 1..MaxId + 1]
  BY <1>1, <1>2, QueueAssumption DEF HeldTyped
<1>7. nextId'[q] = nextId[q] + 1 /\ \A p \in Queues : nextId'[p] >= nextId[p]
  BY <1>1, <1>2 DEF HeldTyped
<1>8. \A j \in held' : j.id < nextId'[j.queue]
  BY <1>1, <1>2, <1>4, <1>7, <1>6, QueueAssumption
<1>9. IsFiniteSet(held')
  BY <1>1, FS_AddElement DEF HeldTyped
<1>10. HeldTyped'
  BY <1>1, <1>3, <1>5, <1>6, <1>8, <1>9 DEF HeldTyped
<1>11. Descends
  BY <1>1, <1>2, <1>7 DEF Descends, Same
<1>12. ASSUME NEW e PROVE Cardinality(Of(held', e)) = Cardinality(Of(held, e)) + One(d = e)
  BY <1>1, <1>5, OfAdd DEF HeldTyped
<1>13. QED
  BY <1>10, <1>11, <1>12

LEMMA Swaps ==
    ASSUME HeldTyped, NEW j \in held, NEW k \in Jobs, Same(j, k), Replaced(j, k),
           UNCHANGED nextId
    PROVE  /\ HeldTyped' /\ Descends
           /\ \A e : Cardinality(Of(held', e)) = Cardinality(Of(held, e))
<1>1. held' = (held \ {j}) \cup {k}
  BY DEF Replaced
<1>2. k.queue = j.queue /\ k.id = j.id /\ k.delivery = j.delivery
  BY DEF Same
<1>3. k \notin held \ {j}
  BY <1>2 DEF HeldTyped
<1>4. IsFiniteSet(held')
  BY <1>1, FS_RemoveElement, FS_AddElement DEF HeldTyped
<1>5. HeldTyped'
  BY <1>1, <1>2, <1>4 DEF HeldTyped
<1>6. \A q \in Queues : nextId[q] \in Nat
  BY QueueAssumption DEF HeldTyped
<1>7. Descends
  BY <1>1, <1>6 DEF Descends, Same
<1>8. ASSUME NEW e PROVE Cardinality(Of(held', e)) = Cardinality(Of(held, e))
  BY <1>1, <1>2, <1>3, OfSwap DEF HeldTyped
<1>9. QED
  BY <1>5, <1>7, <1>8

LEMMA Drops ==
    ASSUME HeldTyped, held' \subseteq held, UNCHANGED nextId
    PROVE  HeldTyped' /\ Descends
<1>1. IsFiniteSet(held')
  BY FS_Subset DEF HeldTyped
<1>2. \A q \in Queues : nextId[q] \in Nat
  BY QueueAssumption DEF HeldTyped
<1>3. QED
  BY <1>1, <1>2 DEF HeldTyped, Descends, Same

\* Under one id there is one job at most.
LEMMA OneUnderAnId ==
    ASSUME HeldTyped, NEW q, NEW id
    PROVE  WithId(q, id) = {} \/ \E k \in held : WithId(q, id) = {k} /\ k.queue = q /\ k.id = id
  BY DEF WithId, HeldTyped

\* An operator goes from one call, or step of a call, to another.
LEMMA CallChanges ==
    ASSUME RestTyped, NEW o \in Operators, NEW c \in Calls, Does(o, c)
    PROVE  /\ operator' \in [Operators -> Calls]
           /\ \A d : Cardinality(Hands(operator', d)) + One(Full(operator[o], d))
                       = Cardinality(Hands(operator, d)) + One(Full(c, d))
           /\ (Carrying(c) => \/ Carrying(operator[o]) /\ c.job = operator[o].job
                              \/ \E j \in held : c.job = Handle(j)) => HandlesAreFound
<1>1. operator' = [operator EXCEPT ![o] = c] /\ operator \in [Operators -> Calls]
  BY DEF Does, RestTyped
<1>2. HandlesAreFound \/ ~(Carrying(c) => \/ Carrying(operator[o]) /\ c.job = operator[o].job
                                         \/ \E j \in held : c.job = Handle(j))
  BY <1>1 DEF HandlesAreFound
<1>3. QED
  BY <1>1, <1>2, HandsChange

LEMMA CallsRest ==
    ASSUME UNCHANGED operator
    PROVE  HandlesAreFound
  BY DEF HandlesAreFound

-----------------------------------------------------------------------------
(* Each operation *)

LEMMA PlusFacts ==
    ASSUME NEW h \in [Deliveries -> Nat], NEW d \in Deliveries
    PROVE  /\ Plus1(h, d) \in [Deliveries -> Nat]
           /\ \A e \in Deliveries : Plus1(h, d)[e] = h[e] + One(d = e)
  BY DEF Plus1, One

\* The numbers that are balanced.
LEMMA Numbers ==
    ASSUME QueueTyped, NEW d \in Deliveries
    PROVE  /\ Cardinality(Of(held, d)) \in Nat /\ Cardinality(Hands(operator, d)) \in Nat
           /\ added[d] \in Nat /\ ended[d] \in Nat /\ lost[d] \in Nat /\ ghosts[d] \in Nat
           /\ \A e : One(e = d) \in Nat
  BY CountsAreNat DEF QueueTyped, RestTyped, One

\* Steps that leave the operators and their losses alone.
LEMMA OthersKeep ==
    ASSUME QueueInv, HeldTyped', Descends, Balanced,
           UNCHANGED <<operator, refused, lost, ghosts>>, paused' \in BOOLEAN,
           added' \in [Deliveries -> Nat], ended' \in [Deliveries -> Nat]
    PROVE  QueueInv'
<1>1. RestTyped'
  BY DEF QueueInv, QueueTyped, RestTyped
<1>2. LossNeedsAReason'
  BY DEF QueueInv, LossNeedsAReason
<1>3. QED
  BY <1>1, <1>2, Owes, CallsRest DEF QueueTyped, QueueInv, Keeps

LEMMA EnqueueKeeps ==
    ASSUME QueueInv, NEW d \in Deliveries, EnqueueJob(d) \/ EnqueueDelayedJob(d)
    PROVE  QueueInv'
<1>1. PICK q \in Queues : AddTo(q, d)
  BY DEF EnqueueJob, EnqueueDelayedJob, Queues
<1>2. added' = Plus1(added, d) /\ UNCHANGED <<paused, operator, refused, ended, lost, ghosts>>
  BY DEF EnqueueJob, EnqueueDelayedJob
<1>3. QueueTyped /\ HeldTyped /\ RestTyped
  BY DEF QueueInv, QueueTyped
<1>4. /\ HeldTyped' /\ Descends
      /\ \A e : Cardinality(Of(held', e)) = Cardinality(Of(held, e)) + One(d = e)
  BY <1>1, <1>3, Adds
<1>5. added' \in [Deliveries -> Nat] /\ \A e \in Deliveries : added'[e] = added[e] + One(d = e)
  BY <1>2, <1>3, PlusFacts DEF RestTyped
<1>6. ASSUME NEW e \in Deliveries PROVE BalancedFor(e)
  <2>1. /\ Cardinality(Of(held', e)) = Cardinality(Of(held, e)) + One(d = e)
        /\ added'[e] = added[e] + One(d = e) /\ One(d = e) \in Nat
        /\ operator' = operator /\ ended' = ended /\ lost' = lost /\ ghosts' = ghosts
    BY <1>2, <1>4, <1>5 DEF One
  <2>2. QED
    BY <1>3, <2>1, Numbers DEF BalancedFor
<1>7. QED
  BY <1>2, <1>3, <1>4, <1>5, <1>6, OthersKeep DEF RestTyped, Balanced

\* A job goes on to its next state.
LEMMA JobsGoOn ==
    ASSUME QueueInv, NEW j \in held, StartJob(j) \/ FailJob(j) \/ DelayOver(j)
    PROVE  QueueInv'
<1>1. QueueTyped /\ HeldTyped /\ RestTyped /\ j \in Jobs
  BY DEF QueueInv, QueueTyped, HeldTyped
<1>2. UNCHANGED <<nextId, paused, operator, refused, added, ended, lost, ghosts>>
  BY DEF StartJob, FailJob, DelayOver, WorkerLeaves
<1>3. PICK k \in Jobs : Same(j, k) /\ Replaced(j, k)
  <2>1. CASE StartJob(j)
    BY <1>1, <2>1 DEF StartJob, Jobs, Same
  <2>2. CASE DelayOver(j)
    BY <1>1, <2>2 DEF DelayOver, Jobs, Same
  <2>3. CASE FailJob(j)
    <3> DEFINE n == IF j.tries < Attempts THEN j.tries + 1 ELSE j.tries
               s == IF j.tries + 1 < Attempts THEN "waiting" ELSE "failed"
               k == [j EXCEPT !.tries = n, !.state = s]
    <3>1. j.tries \in 0..Attempts /\ n \in 0..Attempts
      BY <1>1, QueueAssumption DEF Jobs
    <3>2. k \in Jobs /\ Same(j, k)
      BY <1>1, <3>1 DEF Jobs, Same
    <3>3. Replaced(j, k)
      BY <2>3 DEF FailJob
    <3>4. QED
      BY <3>2, <3>3
  <2>4. QED
    BY <2>1, <2>2, <2>3
<1>4. /\ HeldTyped' /\ Descends
      /\ \A e : Cardinality(Of(held', e)) = Cardinality(Of(held, e))
  BY <1>1, <1>2, <1>3, Swaps
<1>5. Balanced
  BY <1>1, <1>2, <1>4, Numbers DEF Balanced, BalancedFor
<1>6. QED
  BY <1>1, <1>2, <1>4, <1>5, OthersKeep DEF RestTyped

LEMMA CompleteKeeps ==
    ASSUME QueueInv, NEW j \in held, CompleteJob(j)
    PROVE  QueueInv'
<1>1. QueueTyped /\ HeldTyped /\ RestTyped /\ j.delivery \in Deliveries
  BY DEF QueueInv, QueueTyped, HeldTyped, Jobs
<1>2. /\ held' = held \ {j} /\ ended' = Plus1(ended, j.delivery)
      /\ UNCHANGED <<nextId, paused, operator, refused, added, lost, ghosts>>
  BY DEF CompleteJob, WorkerLeaves
<1>3. HeldTyped' /\ Descends
  BY <1>1, <1>2, Drops
<1>4. \A e : Cardinality(Of(held, e)) = Cardinality(Of(held', e)) + One(j.delivery = e)
  BY <1>1, <1>2, OfRemove DEF HeldTyped
<1>5. ended' \in [Deliveries -> Nat] /\ \A e \in Deliveries : ended'[e] = ended[e] + One(j.delivery = e)
  BY <1>1, <1>2, PlusFacts DEF RestTyped
<1>6. \A e \in Deliveries : Cardinality(Of(held', e)) \in Nat
  BY <1>3, FS_Subset, FS_CardinalityType DEF HeldTyped, Of
<1>7. ASSUME NEW e \in Deliveries PROVE BalancedFor(e)
  <2>1. /\ Cardinality(Of(held, e)) = Cardinality(Of(held', e)) + One(j.delivery = e)
        /\ ended'[e] = ended[e] + One(j.delivery = e) /\ One(j.delivery = e) \in Nat
        /\ operator' = operator /\ added' = added /\ lost' = lost /\ ghosts' = ghosts
    BY <1>2, <1>4, <1>5 DEF One
  <2>2. QED
    BY <1>1, <1>6, <2>1, Numbers DEF BalancedFor
<1>8. QED
  BY <1>1, <1>2, <1>3, <1>5, <1>7, OthersKeep DEF RestTyped, Balanced

\* What is drained of a delivery ends.
LEMMA ClearKeeps ==
    ASSUME QueueInv, NEW q \in Queues, ClearQueue(q)
    PROVE  QueueInv'
<1> DEFINE drained == {j \in held : j.queue = q /\ j.state = "waiting"}
<1>1. QueueTyped /\ HeldTyped /\ RestTyped
  BY DEF QueueInv, QueueTyped
<1>2. /\ held' = held \ drained
      /\ ended' = [d \in Deliveries |-> ended[d] + Cardinality(Of(drained, d))]
      /\ UNCHANGED <<nextId, paused, operator, refused, added, lost, ghosts>>
  BY DEF ClearQueue, Of
<1>3. HeldTyped' /\ Descends
  BY <1>1, <1>2, Drops
<1>4. ASSUME NEW d \in Deliveries
      PROVE  /\ Cardinality(Of(drained, d)) \in Nat
             /\ Cardinality(Of(held', d)) \in Nat
             /\ Cardinality(Of(held, d)) = Cardinality(Of(held', d)) + Cardinality(Of(drained, d))
  <2>1. /\ Of(held, d) = Of(held', d) \cup Of(drained, d)
        /\ Of(held', d) \cap Of(drained, d) = {}
    BY <1>2 DEF Of
  <2>2. IsFiniteSet(Of(held', d)) /\ IsFiniteSet(Of(drained, d))
    BY <1>1, <1>3, FS_Subset DEF HeldTyped, Of
  <2>3. Cardinality(Of(drained, d)) \in Nat /\ Cardinality(Of(held', d)) \in Nat
    BY <2>2, FS_CardinalityType
  <2>4. Cardinality(Of(held, d))
          = Cardinality(Of(held', d)) + Cardinality(Of(drained, d)) - Cardinality({})
    BY <2>1, <2>2, FS_Union
  <2>5. Cardinality({}) = 0
    BY FS_EmptySet
  <2>6. QED
    BY <2>3, <2>4, <2>5
<1>5. ended' \in [Deliveries -> Nat]
  <2>1. \A d \in Deliveries : ended[d] + Cardinality(Of(drained, d)) \in Nat
    <3>1. ended \in [Deliveries -> Nat]
      BY <1>1 DEF RestTyped
    <3>2. QED
      BY <1>4, <3>1
  <2>2. QED
    BY <1>2, <2>1
<1>6. \A d \in Deliveries : ended'[d] = ended[d] + Cardinality(Of(drained, d))
  BY <1>2
<1>7. ASSUME NEW d \in Deliveries PROVE BalancedFor(d)
  <2>1. operator' = operator /\ added' = added /\ lost' = lost /\ ghosts' = ghosts
    BY <1>2
  <2>2. PICK n \in Nat : n = Cardinality(Of(drained, d))
    BY <1>4
  <2>3. /\ Cardinality(Of(held, d)) = Cardinality(Of(held', d)) + n
        /\ Cardinality(Of(held', d)) \in Nat /\ ended'[d] = ended[d] + n
    BY <1>4, <1>6, <2>2
  <2>4. QED
    BY <1>1, <2>1, <2>3, Numbers DEF BalancedFor
<1>8. QED
  BY <1>1, <1>2, <1>3, <1>5, <1>7, OthersKeep DEF RestTyped, Balanced

\* From a balance of one operator to the balance of all.
LEMMA Sums ==
    ASSUME NEW j1 \in Nat, NEW h1 \in Nat, NEW e1 \in Nat, NEW l1 \in Nat, NEW g1 \in Nat,
           NEW j2 \in Nat, NEW h2 \in Nat, NEW e2 \in Nat, NEW l2 \in Nat, NEW g2 \in Nat,
           NEW f1 \in Nat, NEW f2 \in Nat, NEW a \in Nat,
           j2 + f2 + e2 + l2 + g1 = j1 + f1 + e1 + l1 + g2,
           h2 + f1 = h1 + f2
    PROVE  j2 + h2 + e2 + l2 + a + g1 = j1 + h1 + e1 + l1 + a + g2
  OBVIOUS

\* Steps of an operator.
LEMMA OperatorsKeep ==
    ASSUME QueueInv, NEW o \in Operators, NEW c \in Calls, Does(o, c),
           Carrying(c) => \/ Carrying(operator[o]) /\ c.job = operator[o].job
                          \/ \E j \in held : c.job = Handle(j),
           HeldTyped', Descends, UNCHANGED <<paused, added>>, refused' \in 0..MaxRefused,
           refused' >= refused,
           \A h \in {ended', lost', ghosts'} : h \in [Deliveries -> Nat],
           \A d \in Deliveries :
               Cardinality(Of(held', d)) + One(Full(c, d)) + ended'[d] + lost'[d] + ghosts[d]
                 = Cardinality(Of(held, d)) + One(Full(operator[o], d)) + ended[d] + lost[d] + ghosts'[d],
           \A d \in Deliveries \ Undatable : lost'[d] + refused <= lost[d] + refused'
    PROVE  QueueInv'
<1>1. QueueTyped /\ HeldTyped /\ RestTyped
  BY DEF QueueInv, QueueTyped
<1>2. /\ operator' \in [Operators -> Calls] /\ HandlesAreFound
      /\ \A d : Cardinality(Hands(operator', d)) + One(Full(operator[o], d))
                  = Cardinality(Hands(operator, d)) + One(Full(c, d))
  BY <1>1, CallChanges
<1>3. QueueTyped'
  BY <1>1, <1>2 DEF QueueTyped, RestTyped
<1>4. ASSUME NEW d \in Deliveries PROVE BalancedFor(d)
  <2>1. /\ IsFiniteSet(Of(held', d)) /\ IsFiniteSet(Hands(operator', d))
    BY <1>3, QueueAssumption, FS_Subset DEF QueueTyped, HeldTyped, Of, Hands
  <2>2. /\ Cardinality(Of(held', d)) \in Nat /\ Cardinality(Hands(operator', d)) \in Nat
        /\ One(Full(c, d)) \in Nat /\ One(Full(operator[o], d)) \in Nat
    BY <2>1, FS_CardinalityType DEF One
  <2>3. ended'[d] \in Nat /\ lost'[d] \in Nat /\ ghosts'[d] \in Nat /\ added'[d] = added[d]
    OBVIOUS
  <2>4. Cardinality(Of(held', d)) + One(Full(c, d)) + ended'[d] + lost'[d] + ghosts[d]
          = Cardinality(Of(held, d)) + One(Full(operator[o], d)) + ended[d] + lost[d] + ghosts'[d]
    OBVIOUS
  <2>5. Cardinality(Hands(operator', d)) + One(Full(operator[o], d))
          = Cardinality(Hands(operator, d)) + One(Full(c, d))
    BY <1>2
  <2>6. /\ Cardinality(Of(held, d)) \in Nat /\ Cardinality(Hands(operator, d)) \in Nat
        /\ added[d] \in Nat /\ ended[d] \in Nat /\ lost[d] \in Nat /\ ghosts[d] \in Nat
    BY <1>1, Numbers
  <2>7. QED
    BY <2>2, <2>3, <2>4, <2>5, <2>6, Sums DEF BalancedFor
<1>5. Keeps
  BY <1>2, <1>3, <1>4, Owes DEF Balanced
<1>6. LossNeedsAReason'
  <2> SUFFICES ASSUME NEW d \in Deliveries \ Undatable PROVE lost'[d] <= refused'
    BY DEF LossNeedsAReason
  <2>1. lost[d] <= refused /\ lost'[d] + refused <= lost[d] + refused'
    BY DEF QueueInv, LossNeedsAReason
  <2>2. lost[d] \in Nat /\ lost'[d] \in Nat /\ refused \in Nat /\ refused' \in Nat
    BY <1>1, QueueAssumption DEF RestTyped
  <2>3. QED
    BY <2>1, <2>2
<1>7. QED
  BY <1>5, <1>6 DEF Keeps, QueueInv

LEMMA HandleFacts ==
    ASSUME HeldTyped, NEW j \in held
    PROVE  Handle(j) \in Handles
  BY DEF HeldTyped, Jobs, Handles, Handle

LEMMA Unburdened ==
    ASSUME NEW c, c = Idle \/ c.at # "add", NEW d
    PROVE  ~Full(c, d) /\ One(Full(c, d)) = 0
  BY DEF Full, One

\* The same, when nothing but the call changes.
LEMMA CallsKeep ==
    ASSUME QueueInv, NEW o \in Operators, NEW c \in Calls, Does(o, c),
           operator[o] = Idle \/ operator[o].at # "add", c = Idle \/ c.at # "add",
           Carrying(c) => \/ Carrying(operator[o]) /\ c.job = operator[o].job
                          \/ \E j \in held : c.job = Handle(j),
           UNCHANGED <<held, nextId, paused, refused, history>>
    PROVE  QueueInv'
<1>1. QueueTyped /\ HeldTyped /\ RestTyped
  BY DEF QueueInv, QueueTyped
<1>2. UNCHANGED <<held, nextId, paused, refused, added, ended, lost, ghosts>>
  BY DEF history
<1>3. HeldTyped' /\ Descends
  BY <1>1, <1>2, Drops
<1>4. \A h \in {ended', lost', ghosts'} : h \in [Deliveries -> Nat]
  BY <1>1, <1>2 DEF RestTyped
<1>5. refused' \in 0..MaxRefused /\ refused' >= refused
  BY <1>1, <1>2, QueueAssumption DEF RestTyped
<1>6. \A d \in Deliveries : One(Full(c, d)) = One(Full(operator[o], d))
  BY Unburdened
<1>7. \A d \in Deliveries :
        Cardinality(Of(held', d)) + One(Full(c, d)) + ended'[d] + lost'[d] + ghosts[d]
          = Cardinality(Of(held, d)) + One(Full(operator[o], d)) + ended[d] + lost[d] + ghosts'[d]
  BY <1>2, <1>6
<1>8. \A d \in Deliveries \ Undatable : lost'[d] + refused <= lost[d] + refused'
  BY <1>1, <1>2, QueueAssumption DEF RestTyped
<1>9. QED
  BY <1>2, <1>3, <1>4, <1>5, <1>7, <1>8, OperatorsKeep

LEMMA LookKeeps ==
    ASSUME QueueInv, NEW o \in Operators, NEW q \in Queues, NEW op \in Searches,
           NEW id \in 1..MaxId, operator[o] = Idle \/ operator[o].at # "add", LookIn(o, q, op, id)
    PROVE  QueueInv'
<1>1. HeldTyped /\ UNCHANGED <<held, nextId, paused, refused, history>>
  BY DEF QueueInv, QueueTyped, LookIn
<1>2. CASE \E j \in WithId(q, id) : Does(o, [op |-> op, at |-> "found", job |-> Handle(j)])
  <2>1. PICK j \in held : Does(o, [op |-> op, at |-> "found", job |-> Handle(j)])
    BY <1>2 DEF WithId
  <2> DEFINE c == [op |-> op, at |-> "found", job |-> Handle(j)]
  <2>2. c \in Calls /\ c.at # "add" /\ c.job = Handle(j)
    BY <1>1, HandleFacts DEF Calls
  <2>3. QED
    BY <1>1, <2>1, <2>2, CallsKeep
<1>3. CASE Does(o, IF q = "dlq" THEN Idle ELSE [op |-> op, at |-> Following[q], id |-> id])
  <2>1. CASE q = "dlq"
    <3>1. Does(o, Idle) /\ Idle \in Calls /\ ~Carrying(Idle)
      BY <1>3, <2>1 DEF Calls, Carrying
    <3>2. QED
      BY <1>1, <3>1, CallsKeep
  <2>2. CASE q # "dlq"
    <3> DEFINE c == [op |-> op, at |-> Following[q], id |-> id]
    <3>1. Following[q] \in {"delayed", "dlq"}
      BY <2>2 DEF Following, Queues
    <3>2. c \in Calls /\ c.at # "add" /\ ~Carrying(c)
      BY <3>1 DEF Calls, Carrying
    <3>3. Does(o, c)
      BY <1>3, <2>2
    <3>4. QED
      BY <1>1, <3>2, <3>3, CallsKeep
  <2>3. QED
    BY <2>1, <2>2
<1>4. QED
  BY <1>2, <1>3 DEF LookIn

LEMMA SearchesKeep ==
    ASSUME QueueInv, NEW o \in Operators,
           \/ \E op \in Searches, id \in 1..MaxId : Ask(o, op, id)
           \/ LookFurther(o)
    PROVE  QueueInv'
<1>1. operator[o] \in Calls
  BY DEF QueueInv, QueueTyped, RestTyped
<1>2. CASE LookFurther(o)
  <2>1. /\ operator[o] # Idle /\ operator[o].op \in Searches /\ operator[o].at \in Queues
        /\ LookIn(o, operator[o].at, operator[o].op, operator[o].id)
    BY <1>2 DEF LookFurther
  <2>2. operator[o].at \in {"delayed", "dlq"} /\ operator[o].id \in 1..MaxId
    BY <1>1, <2>1, CallFacts DEF Queues
  <2>3. QED
    BY <2>1, <2>2, LookKeeps
<1>3. CASE \E op \in Searches, id \in 1..MaxId : Ask(o, op, id)
  BY <1>3, LookKeeps DEF Ask, Queues
<1>4. QED
  BY <1>2, <1>3

\* A job that was found is removed, if it is still there.
LEMMA Removes ==
    ASSUME QueueInv, NEW h \in Handles, UNCHANGED nextId, RemoveJob(h),
           \A k \in WithId(h.queue, h.id) : k.delivery = h.delivery
    PROVE  /\ HeldTyped' /\ Descends
           /\ \A d : Cardinality(Of(held', d)) + One(~Missing(h) /\ d = h.delivery)
                       = Cardinality(Of(held, d))
<1>1. HeldTyped /\ held' = held \ WithId(h.queue, h.id)
  BY DEF QueueInv, QueueTyped, RemoveJob
<1>2. HeldTyped' /\ Descends
  BY <1>1, Drops
<1>3. ASSUME NEW d
      PROVE  Cardinality(Of(held', d)) + One(~Missing(h) /\ d = h.delivery) = Cardinality(Of(held, d))
  <2>1. Cardinality(Of(held', d)) \in Nat
    BY <1>2, FS_Subset, FS_CardinalityType DEF HeldTyped, Of
  <2>2. CASE Missing(h)
    <3>1. held' = held /\ One(~Missing(h) /\ d = h.delivery) = 0
      BY <1>1, <2>2 DEF Missing, One
    <3>2. QED
      BY <2>1, <3>1
  <2>3. CASE ~Missing(h)
    <3>1. PICK k \in held : WithId(h.queue, h.id) = {k}
      BY <1>1, <2>3, OneUnderAnId DEF Missing
    <3>2. k.delivery = h.delivery
      BY <3>1
    <3>3. held' = held \ {k} /\ (~Missing(h) /\ d = h.delivery <=> k.delivery = d)
      BY <1>1, <2>3, <3>1, <3>2
    <3>4. Cardinality(Of(held, d)) = Cardinality(Of(held', d)) + One(k.delivery = d)
      BY <1>1, <3>3, OfRemove DEF HeldTyped
    <3>5. QED
      BY <3>3, <3>4 DEF One
  <2>4. QED
    BY <2>2, <2>3
<1>4. QED
  BY <1>2, <1>3

\* The call that found a job.
LEMMA FoundFacts ==
    ASSUME QueueInv, NEW o \in Operators, NEW ops \in SUBSET Searches, Found(o, ops)
    PROVE  /\ HeldTyped /\ RestTyped /\ operator[o] \in Calls
           /\ operator[o] # Idle /\ operator[o].at # "add" /\ Carrying(operator[o])
           /\ operator[o].job \in Handles /\ operator[o].job.delivery \in Deliveries
           /\ operator[o] = [op |-> operator[o].op, at |-> "found", job |-> operator[o].job]
           /\ \A k \in WithId(operator[o].job.queue, operator[o].job.id) :
                k.delivery = operator[o].job.delivery
           /\ Idle \in Calls /\ ~Carrying(Idle)
<1>1. HeldTyped /\ RestTyped /\ operator[o] \in Calls
  BY DEF QueueInv, QueueTyped, RestTyped
<1>2. operator[o] # Idle /\ operator[o].at = "found" /\ Carrying(operator[o])
  BY DEF Found, Carrying
<1>3. operator[o] \in [op : Searches, at : {"found"}, job : Handles]
  BY <1>1, <1>2 DEF Calls
<1>4. operator[o].job \in Handles /\ operator[o].job.delivery \in Deliveries
  BY <1>3 DEF Handles
<1>5. operator[o] = [op |-> operator[o].op, at |-> "found", job |-> operator[o].job]
  BY <1>2, <1>3
<1>6. \A k \in WithId(operator[o].job.queue, operator[o].job.id) :
        k.delivery = operator[o].job.delivery
  BY <1>2 DEF QueueInv, HandlesMatch
<1>7. Idle \in Calls /\ ~Carrying(Idle)
  BY DEF Calls, Carrying
<1>8. QED
  BY <1>1, <1>2, <1>4, <1>5, <1>6, <1>7

LEMMA CancelKeeps ==
    ASSUME QueueInv, NEW o \in Operators, CancelJob(o)
    PROVE  QueueInv'
<1> DEFINE h == operator[o].job
<1>1. /\ HeldTyped /\ RestTyped /\ operator[o].at # "add"
      /\ h \in Handles /\ h.delivery \in Deliveries
      /\ \A k \in WithId(h.queue, h.id) : k.delivery = h.delivery
      /\ Idle \in Calls /\ ~Carrying(Idle) /\ Does(o, Idle)
      /\ UNCHANGED <<nextId, paused, refused, added, lost, ghosts>>
  BY FoundFacts DEF CancelJob, Searches
<1>2. CASE Locked(h)
  <2>1. UNCHANGED <<held, ended>>
    BY <1>2 DEF CancelJob
  <2>2. QED
    BY <1>1, <2>1, CallsKeep DEF history
<1>3. CASE ~Locked(h)
  <2>1. RemoveJob(h) /\ ended' = IF Missing(h) THEN ended ELSE Plus1(ended, h.delivery)
    BY <1>3 DEF CancelJob
  <2>2. /\ HeldTyped' /\ Descends
        /\ \A d : Cardinality(Of(held', d)) + One(~Missing(h) /\ d = h.delivery)
                    = Cardinality(Of(held, d))
    BY <1>1, <2>1, Removes
  <2>3. /\ ended' \in [Deliveries -> Nat]
        /\ \A d \in Deliveries : ended'[d] = ended[d] + One(~Missing(h) /\ d = h.delivery)
    <3>1. ended \in [Deliveries -> Nat]
      BY <1>1 DEF RestTyped
    <3>2. CASE Missing(h)
      BY <2>1, <3>1, <3>2 DEF One
    <3>3. CASE ~Missing(h)
      BY <1>1, <2>1, <3>1, <3>3, PlusFacts DEF One
    <3>4. QED
      BY <3>2, <3>3
  <2>4. ASSUME NEW d \in Deliveries
        PROVE  Cardinality(Of(held', d)) + One(Full(Idle, d)) + ended'[d] + lost'[d] + ghosts[d]
                 = Cardinality(Of(held, d)) + One(Full(operator[o], d)) + ended[d] + lost[d] + ghosts'[d]
    <3>1. One(Full(Idle, d)) = 0 /\ One(Full(operator[o], d)) = 0
      BY <1>1, Unburdened
    <3>2. PICK n \in Nat : n = One(~Missing(h) /\ d = h.delivery)
      BY DEF One
    <3>3. IsFiniteSet(Of(held', d))
      BY <2>2, FS_Subset DEF HeldTyped, Of
    <3>4. Cardinality(Of(held', d)) \in Nat
      BY <3>3, FS_CardinalityType
    <3>5. ended[d] \in Nat /\ lost[d] \in Nat /\ ghosts[d] \in Nat
      BY <1>1 DEF RestTyped
    <3>6. /\ Cardinality(Of(held, d)) = Cardinality(Of(held', d)) + n /\ ended'[d] = ended[d] + n
          /\ lost' = lost /\ ghosts' = ghosts
      BY <1>1, <2>2, <2>3, <3>2
    <3>7. QED
      BY <3>1, <3>4, <3>5, <3>6
  <2>5. /\ lost' \in [Deliveries -> Nat] /\ ghosts' \in [Deliveries -> Nat]
        /\ refused' \in 0..MaxRefused /\ refused' >= refused
        /\ \A d \in Deliveries \ Undatable : lost'[d] + refused <= lost[d] + refused'
    BY <1>1, QueueAssumption DEF RestTyped
  <2>6. QED
    BY <1>1, <2>2, <2>3, <2>4, <2>5, OperatorsKeep
<1>4. QED
  BY <1>2, <1>3

LEMMA RetryKeeps ==
    ASSUME QueueInv, NEW o \in Operators, RetryJob(o)
    PROVE  QueueInv'
<1> DEFINE h == operator[o].job
           failed == {k \in WithId(h.queue, h.id) : k.state = "failed"}
<1>1. /\ HeldTyped /\ RestTyped /\ operator[o].at # "add"
      /\ Idle \in Calls /\ ~Carrying(Idle) /\ Does(o, Idle)
      /\ UNCHANGED <<nextId, paused, refused, history>>
      /\ held' = (held \ failed) \cup {[k EXCEPT !.state = "waiting"] : k \in failed}
  BY FoundFacts DEF RetryJob, Searches
<1>2. CASE failed = {}
  <2>1. held' = held
    BY <1>1, <1>2
  <2>2. QED
    BY <1>1, <2>1, CallsKeep
<1>3. CASE failed # {}
  <2>1. PICK j \in held : WithId(h.queue, h.id) = {j} /\ failed = {j}
    BY <1>1, <1>3, OneUnderAnId
  <2>2. PICK k : k = [j EXCEPT !.state = "waiting"]
    OBVIOUS
  <2>3. Replaced(j, k)
    BY <1>1, <2>1, <2>2 DEF Replaced
  <2>4. k \in Jobs /\ Same(j, k)
    BY <1>1, <2>2 DEF HeldTyped, Jobs, Same
  <2>5. /\ HeldTyped' /\ Descends
        /\ \A d : Cardinality(Of(held', d)) = Cardinality(Of(held, d))
    BY <1>1, <2>3, <2>4, Swaps
  <2>6. UNCHANGED <<added, ended, lost, ghosts>>
    BY <1>1 DEF history
  <2>7. \A d \in Deliveries :
          Cardinality(Of(held', d)) + One(Full(Idle, d)) + ended'[d] + lost'[d] + ghosts[d]
            = Cardinality(Of(held, d)) + One(Full(operator[o], d)) + ended[d] + lost[d] + ghosts'[d]
    <3>1. \A d \in Deliveries : One(Full(Idle, d)) = One(Full(operator[o], d))
      BY <1>1, Unburdened
    <3>2. QED
      BY <2>5, <2>6, <3>1
  <2>8. /\ \A f \in {ended', lost', ghosts'} : f \in [Deliveries -> Nat]
        /\ refused' \in 0..MaxRefused /\ refused' >= refused
        /\ \A d \in Deliveries \ Undatable : lost'[d] + refused <= lost[d] + refused'
    BY <1>1, <2>6, QueueAssumption DEF RestTyped
  <2>9. QED
    BY <1>1, <2>5, <2>6, <2>7, <2>8, OperatorsKeep
<1>4. QED
  BY <1>2, <1>3

\* The first half of a move takes the job, or takes nothing and goes on.
LEMMA MoveRemoveKeeps ==
    ASSUME QueueInv, NEW o \in Operators, MoveRemove(o)
    PROVE  QueueInv'
<1> DEFINE h == operator[o].job
           c == [operator[o] EXCEPT !.at = "add"]
<1>1. /\ HeldTyped /\ RestTyped /\ operator[o] # Idle /\ operator[o].at # "add"
      /\ h \in Handles /\ h.delivery \in Deliveries
      /\ operator[o] = [op |-> operator[o].op, at |-> "found", job |-> h]
      /\ \A k \in WithId(h.queue, h.id) : k.delivery = h.delivery
      /\ Carrying(operator[o]) /\ Idle \in Calls /\ ~Carrying(Idle)
      /\ operator[o].op \in {"toDelayed", "toDLQ"}
      /\ UNCHANGED <<nextId, paused, refused, added, ended, lost>>
  BY FoundFacts DEF MoveRemove, Searches, Found
<1>2. CASE Locked(h)
  <2>1. UNCHANGED <<held, ghosts>> /\ Does(o, Idle)
    BY <1>2 DEF MoveRemove
  <2>2. QED
    BY <1>1, <2>1, CallsKeep DEF history
<1>3. CASE ~Locked(h)
  <2>1. /\ RemoveJob(h) /\ Does(o, c)
        /\ ghosts' = IF Missing(h) THEN Plus1(ghosts, h.delivery) ELSE ghosts
    BY <1>3 DEF MoveRemove
  <2>2. /\ HeldTyped' /\ Descends
        /\ \A d : Cardinality(Of(held', d)) + One(~Missing(h) /\ d = h.delivery)
                    = Cardinality(Of(held, d))
    BY <1>1, <2>1, Removes
  <2>3. /\ ghosts' \in [Deliveries -> Nat]
        /\ \A d \in Deliveries : ghosts'[d] = ghosts[d] + One(Missing(h) /\ d = h.delivery)
    <3>1. ghosts \in [Deliveries -> Nat]
      BY <1>1 DEF RestTyped
    <3>2. CASE ~Missing(h)
      BY <2>1, <3>1, <3>2 DEF One
    <3>3. CASE Missing(h)
      BY <1>1, <2>1, <3>1, <3>3, PlusFacts DEF One
    <3>4. QED
      BY <3>2, <3>3
  <2>4. c = [op |-> operator[o].op, at |-> "add", job |-> h]
    BY <1>1
  <2>5. /\ c \in Calls /\ c.job = h /\ c # Idle /\ c.at = "add"
    BY <1>1, <2>4 DEF Calls, Idle
  <2>6. ASSUME NEW d \in Deliveries
        PROVE  Cardinality(Of(held', d)) + One(Full(c, d)) + ended'[d] + lost'[d] + ghosts[d]
                 = Cardinality(Of(held, d)) + One(Full(operator[o], d)) + ended[d] + lost[d] + ghosts'[d]
    <3>1. One(Full(c, d)) = One(d = h.delivery) /\ One(Full(operator[o], d)) = 0
      <4>1. Full(c, d) <=> d = h.delivery
        BY <2>5 DEF Full
      <4>2. QED
        BY <1>1, <4>1, Unburdened DEF One
    <3>2. PICK n \in Nat, m \in Nat :
             /\ n = One(~Missing(h) /\ d = h.delivery) /\ m = One(Missing(h) /\ d = h.delivery)
             /\ One(d = h.delivery) = n + m
      BY DEF One
    <3>3. IsFiniteSet(Of(held', d))
      BY <2>2, FS_Subset DEF HeldTyped, Of
    <3>4. Cardinality(Of(held', d)) \in Nat
      BY <3>3, FS_CardinalityType
    <3>5. ended[d] \in Nat /\ lost[d] \in Nat /\ ghosts[d] \in Nat
      BY <1>1 DEF RestTyped
    <3>6. /\ Cardinality(Of(held, d)) = Cardinality(Of(held', d)) + n /\ ghosts'[d] = ghosts[d] + m
          /\ lost' = lost /\ ended' = ended
      BY <1>1, <2>2, <2>3, <3>2
    <3>7. One(Full(c, d)) = n + m
      BY <3>1, <3>2
    <3>8. QED
      BY <3>1, <3>4, <3>5, <3>6, <3>7
  <2>7. /\ lost' \in [Deliveries -> Nat] /\ ended' \in [Deliveries -> Nat]
        /\ refused' \in 0..MaxRefused /\ refused' >= refused
        /\ \A d \in Deliveries \ Undatable : lost'[d] + refused <= lost[d] + refused'
    BY <1>1, QueueAssumption DEF RestTyped
  <2>8. QED
    BY <1>1, <2>1, <2>2, <2>3, <2>5, <2>6, <2>7, OperatorsKeep
<1>4. QED
  BY <1>2, <1>3

\* The call of an operator with a job's data in its hands.
LEMMA DataFacts ==
    ASSUME QueueInv, NEW o \in Operators, HasData(o)
    PROVE  /\ operator[o].job.delivery \in Deliveries
           /\ \A d : One(Full(operator[o], d)) = One(d = operator[o].job.delivery)
<1>1. operator[o] \in Calls /\ operator[o] # Idle /\ operator[o].at = "add"
  BY DEF QueueInv, QueueTyped, RestTyped, HasData
<1>2. operator[o].job \in Handles
  BY <1>1, CallFacts DEF Carrying
<1>3. \A d : Full(operator[o], d) <=> d = operator[o].job.delivery
  BY <1>1 DEF Full
<1>4. QED
  BY <1>2, <1>3 DEF Handles, One

\* A move ends: by adding what it took, or by losing it.
LEMMA MoveAddKeeps ==
    ASSUME QueueInv, NEW o \in Operators, MoveAdd(o)
    PROVE  QueueInv'
<1> DEFINE x == operator[o].job.delivery
<1>1. /\ HasData(o) /\ Does(o, Idle) /\ UNCHANGED <<paused, refused, added, ended, ghosts>>
      /\ HeldTyped /\ RestTyped /\ Idle \in Calls /\ ~Carrying(Idle)
  BY DEF MoveAdd, QueueInv, QueueTyped, Calls, Carrying
<1>2. x \in Deliveries /\ \A d : One(Full(operator[o], d)) = One(d = x)
  BY <1>1, DataFacts
<1>3. /\ HeldTyped' /\ Descends /\ lost' \in [Deliveries -> Nat]
      /\ \A d \in Deliveries : Cardinality(Of(held', d)) + lost'[d]
                                 = Cardinality(Of(held, d)) + lost[d] + One(d = x)
      /\ \A d \in Deliveries \ Undatable : lost'[d] = lost[d]
  <2>1. CASE Reserializes(x)
    <3>1. lost' = lost
      BY <2>1 DEF MoveAdd
    <3>2. PICK q \in Queues : AddTo(q, x)
      BY <2>1 DEF MoveAdd, Queues
    <3>3. /\ HeldTyped' /\ Descends
          /\ \A d : Cardinality(Of(held', d)) = Cardinality(Of(held, d)) + One(x = d)
      BY <1>1, <1>2, <3>2, Adds
    <3>4. ASSUME NEW d \in Deliveries
          PROVE  Cardinality(Of(held', d)) + lost'[d] = Cardinality(Of(held, d)) + lost[d] + One(d = x)
      <4>1. One(x = d) = One(d = x) /\ One(d = x) \in Nat
        BY DEF One
      <4>2. Cardinality(Of(held, d)) \in Nat /\ lost[d] \in Nat
        BY Numbers DEF QueueInv
      <4>3. Cardinality(Of(held', d)) = Cardinality(Of(held, d)) + One(x = d)
        BY <3>3
      <4>4. QED
        BY <3>1, <4>1, <4>2, <4>3
    <3>5. QED
      BY <1>1, <3>1, <3>3, <3>4 DEF RestTyped
  <2>2. CASE ~Reserializes(x)
    <3>1. lost' = Plus1(lost, x) /\ UNCHANGED <<held, nextId>>
      BY <2>2 DEF MoveAdd
    <3>2. HeldTyped' /\ Descends
      BY <1>1, <3>1, Drops
    <3>3. lost' \in [Deliveries -> Nat] /\ \A d \in Deliveries : lost'[d] = lost[d] + One(x = d)
      BY <1>1, <1>2, <3>1, PlusFacts DEF RestTyped
    <3>4. ASSUME NEW d \in Deliveries
          PROVE  Cardinality(Of(held', d)) + lost'[d] = Cardinality(Of(held, d)) + lost[d] + One(d = x)
      <4>1. One(x = d) = One(d = x) /\ One(d = x) \in Nat
        BY DEF One
      <4>2. Cardinality(Of(held, d)) \in Nat /\ lost[d] \in Nat /\ held' = held
        BY <3>1, Numbers DEF QueueInv
      <4>3. QED
        BY <3>3, <4>1, <4>2
    <3>5. x \in Undatable
      BY <1>2, <2>2 DEF Reserializes
    <3>6. \A d \in Deliveries \ Undatable : lost'[d] = lost[d]
      BY <1>1, <3>1, <3>5 DEF Plus1, RestTyped
    <3>7. QED
      BY <3>2, <3>3, <3>4, <3>6
  <2>3. QED
    BY <2>1, <2>2
<1>4. ASSUME NEW d \in Deliveries
      PROVE  Cardinality(Of(held', d)) + One(Full(Idle, d)) + ended'[d] + lost'[d] + ghosts[d]
               = Cardinality(Of(held, d)) + One(Full(operator[o], d)) + ended[d] + lost[d] + ghosts'[d]
  <2>1. One(Full(Idle, d)) = 0 /\ One(Full(operator[o], d)) = One(d = x) /\ One(d = x) \in Nat
    BY <1>2, Unburdened DEF One
  <2>2. IsFiniteSet(Of(held', d))
    BY <1>3, FS_Subset DEF HeldTyped, Of
  <2>3. /\ Cardinality(Of(held', d)) \in Nat /\ Cardinality(Of(held, d)) \in Nat
        /\ ended[d] \in Nat /\ lost[d] \in Nat /\ lost'[d] \in Nat /\ ghosts[d] \in Nat
    BY <1>3, <2>2, FS_CardinalityType, Numbers DEF QueueInv
  <2>4. /\ Cardinality(Of(held', d)) + lost'[d] = Cardinality(Of(held, d)) + lost[d] + One(d = x)
        /\ ended' = ended /\ ghosts' = ghosts
    BY <1>1, <1>3
  <2>5. QED
    BY <2>1, <2>3, <2>4
<1>5. /\ ended' \in [Deliveries -> Nat] /\ ghosts' \in [Deliveries -> Nat]
      /\ refused' \in 0..MaxRefused /\ refused' >= refused
      /\ \A d \in Deliveries \ Undatable : lost'[d] + refused <= lost[d] + refused'
  BY <1>1, <1>3, QueueAssumption DEF RestTyped
<1>6. QED
  BY <1>1, <1>3, <1>4, <1>5, OperatorsKeep

\* A call that fails costs one refusal and one job at most.
LEMMA FailureKeeps ==
    ASSUME QueueInv, NEW o \in Operators, CommandFails(o)
    PROVE  QueueInv'
<1>1. /\ HeldTyped /\ RestTyped /\ Idle \in Calls /\ ~Carrying(Idle) /\ Does(o, Idle)
      /\ operator[o] # Idle /\ refused < MaxRefused /\ refused' = refused + 1
      /\ lost' = IF HasData(o) THEN Plus1(lost, operator[o].job.delivery) ELSE lost
      /\ UNCHANGED <<held, nextId, paused, added, ended, ghosts>>
  BY DEF CommandFails, QueueInv, QueueTyped, Calls, Carrying
<1>2. HeldTyped' /\ Descends
  BY <1>1, Drops
<1>3. /\ lost' \in [Deliveries -> Nat]
      /\ \A d \in Deliveries : lost'[d] = lost[d] + One(Full(operator[o], d))
  <2>1. lost \in [Deliveries -> Nat]
    BY <1>1 DEF RestTyped
  <2>2. CASE HasData(o)
    <3>1. lost' = Plus1(lost, operator[o].job.delivery)
      BY <1>1, <2>2
    <3>2. operator[o].job.delivery \in Deliveries
      BY <2>2, DataFacts
    <3>3. /\ lost' \in [Deliveries -> Nat]
          /\ \A d \in Deliveries : lost'[d] = lost[d] + One(operator[o].job.delivery = d)
      BY <2>1, <3>1, <3>2, PlusFacts
    <3>4. \A d : One(operator[o].job.delivery = d) = One(Full(operator[o], d))
      BY <2>2, DataFacts DEF One
    <3>5. QED
      BY <3>3, <3>4
  <2>3. CASE ~HasData(o)
    <3>1. \A d : One(Full(operator[o], d)) = 0
      BY <2>3 DEF HasData, Full, One
    <3>2. QED
      BY <1>1, <2>1, <2>3, <3>1
  <2>4. QED
    BY <2>2, <2>3
<1>4. ASSUME NEW d \in Deliveries
      PROVE  /\ Cardinality(Of(held', d)) + One(Full(Idle, d)) + ended'[d] + lost'[d] + ghosts[d]
                  = Cardinality(Of(held, d)) + One(Full(operator[o], d)) + ended[d] + lost[d] + ghosts'[d]
             /\ lost'[d] + refused <= lost[d] + refused'
  <2>1. One(Full(Idle, d)) = 0 /\ One(Full(operator[o], d)) \in {0, 1}
    BY Unburdened DEF One
  <2>2. /\ Cardinality(Of(held, d)) \in Nat /\ ended[d] \in Nat /\ lost[d] \in Nat
        /\ ghosts[d] \in Nat /\ refused \in Nat
    BY <1>1, Numbers, QueueAssumption DEF QueueInv, RestTyped
  <2>3. lost'[d] = lost[d] + One(Full(operator[o], d))
    BY <1>3
  <2>4. held' = held /\ ended' = ended /\ ghosts' = ghosts
    BY <1>1
  <2>5. QED
    BY <1>1, <2>1, <2>2, <2>3, <2>4
<1>5. /\ ended' \in [Deliveries -> Nat] /\ ghosts' \in [Deliveries -> Nat]
      /\ refused' \in 0..MaxRefused /\ refused' >= refused
  BY <1>1, QueueAssumption DEF RestTyped
<1>6. QED
  BY <1>1, <1>2, <1>3, <1>4, <1>5, OperatorsKeep

LEMMA QueueInitial == QueueInit => QueueInv
<1> SUFFICES ASSUME QueueInit PROVE QueueInv
  OBVIOUS
<1>1. HeldTyped
  BY QueueAssumption, FS_EmptySet DEF QueueInit, HeldTyped
<1>2. RestTyped
  <2>1. paused \in BOOLEAN /\ refused \in 0..MaxRefused
    <3>1. paused = FALSE /\ refused = 0 /\ MaxRefused \in Nat
      BY QueueAssumption DEF QueueInit
    <3>2. paused \in BOOLEAN
      BY <3>1
    <3>3. refused \in 0..MaxRefused
      BY <3>1
    <3>4. QED
      BY <3>2, <3>3
  <2>2. Idle \in Calls /\ operator = [o \in Operators |-> Idle]
    BY DEF QueueInit, Calls
  <2>3. added \in [Deliveries -> Nat] /\ ended = added /\ lost = added /\ ghosts = added
    BY DEF QueueInit
  <2>4. QED
    BY <2>1, <2>2, <2>3 DEF RestTyped
<1>3. HandlesMatch
  BY DEF QueueInit, HandlesMatch, Carrying
<1>4. ASSUME NEW d \in Deliveries
      PROVE  /\ Cardinality(JobsOf(d)) = 0 /\ Cardinality(InHand(d)) = 0
             /\ added[d] = 0 /\ ended[d] = 0 /\ lost[d] = 0 /\ ghosts[d] = 0
  <2>1. JobsOf(d) = {} /\ InHand(d) = {}
    BY DEF QueueInit, JobsOf, InHand, HasData
  <2>2. QED
    BY <2>1, FS_EmptySet DEF QueueInit
<1>5. JobsAreConserved
  BY <1>4 DEF JobsAreConserved
<1>6. LossNeedsAReason
  BY <1>4 DEF LossNeedsAReason, QueueInit
<1>7. QED
  BY <1>1, <1>2, <1>3, <1>5, <1>6 DEF QueueInv, QueueTyped

LEMMA QueueInductive == QueueInv /\ [QueueNext]_queueVars => QueueInv'
<1> SUFFICES ASSUME QueueInv, [QueueNext]_queueVars PROVE QueueInv'
  OBVIOUS
<1>1. CASE UNCHANGED queueVars
  BY <1>1 DEF queueVars, history, QueueInv, QueueTyped, HeldTyped, RestTyped, HandlesMatch, WithId,
     JobsAreConserved, JobsOf, InHand, HasData, LossNeedsAReason
<1>2. CASE PauseOrResume
  <2>1. UNCHANGED <<held, nextId, operator, refused, added, ended, lost, ghosts>> /\ paused' \in BOOLEAN
    BY <1>2 DEF PauseOrResume, history
  <2>2. HeldTyped /\ RestTyped
    BY DEF QueueInv, QueueTyped
  <2>3. HeldTyped' /\ Descends
    BY <2>1, <2>2, Drops
  <2>4. Balanced
    BY <2>1 DEF Balanced, BalancedFor
  <2>5. QED
    BY <2>1, <2>2, <2>3, <2>4, OthersKeep DEF RestTyped
<1>3. CASE \E d \in Deliveries : EnqueueJob(d) \/ EnqueueDelayedJob(d)
  BY <1>3, EnqueueKeeps
<1>4. CASE \E j \in held : WorkerStep(j) \/ DelayOver(j)
  BY <1>4, JobsGoOn, CompleteKeeps DEF WorkerStep
<1>5. CASE \E q \in Queues : ClearQueue(q)
  BY <1>5, ClearKeeps
<1>6. CASE \E o \in Operators :
              \/ \E op \in Searches, id \in 1..MaxId : Ask(o, op, id)
              \/ LookFurther(o) \/ CancelJob(o) \/ RetryJob(o) \/ MoveRemove(o) \/ MoveAdd(o)
              \/ CommandFails(o)
  BY <1>6, SearchesKeep, CancelKeeps, RetryKeeps, MoveRemoveKeeps, MoveAddKeeps, FailureKeeps
<1>7. QED
  BY <1>1, <1>2, <1>3, <1>4, <1>5, <1>6 DEF QueueNext

(***************************************************************************)
(* For any number of deliveries, operators and jobs: whatever operators    *)
(* cancel, retry, move and drain beside the worker, and whatever command   *)
(* fails, each job of a delivery is in a queue, in the hands of a move,    *)
(* ended or lost, and none is there twice unless a move removed nothing    *)
(* (QueueManager.cancelJob, retryJob, moveToDelayed, moveToDLQ).           *)
(***************************************************************************)
THEOREM JobsStayConserved == QueueSpec => []JobsAreConserved
<1>1. QueueInv => JobsAreConserved
  BY DEF QueueInv
<1>2. QED
  BY <1>1, QueueInitial, QueueInductive, PTL DEF QueueSpec

(***************************************************************************)
(* A move loses a job only by a command that fails between its remove and  *)
(* its add, or by data that deserialize reads and serialize refuses.       *)
(***************************************************************************)
THEOREM LossesHaveReasons == QueueSpec => []LossNeedsAReason
<1>1. QueueInv => LossNeedsAReason
  BY DEF QueueInv
<1>2. QED
  BY <1>1, QueueInitial, QueueInductive, PTL DEF QueueSpec

(***************************************************************************)
(* No queue ever holds two jobs of one id, and an operator that found a    *)
(* job acts on that job: its id is given to no other one.                  *)
(***************************************************************************)
THEOREM QueuesStayTyped == QueueSpec => [](QueueTypeOK /\ HandlesMatch)
<1>1. QueueInv => QueueTypeOK /\ HandlesMatch
  <2> SUFFICES ASSUME QueueInv PROVE QueueTypeOK
    BY DEF QueueInv
  <2>1. HeldTyped /\ RestTyped
    BY DEF QueueInv, QueueTyped
  <2>2. ASSUME NEW o \in Operators
        PROVE  \/ operator[o] = Idle
               \/ operator[o] \in [op : Searches, at : {"delayed", "dlq"}, id : 1..MaxId]
               \/ operator[o] \in [op : Searches, at : {"found"}, job : Handles]
               \/ operator[o] \in [op : {"toDelayed", "toDLQ"}, at : {"add"}, job : Handles]
    BY <2>1 DEF RestTyped, Calls
  <2>3. QED
    BY <2>1, <2>2 DEF QueueTypeOK, HeldTyped, RestTyped
<1>2. QED
  BY <1>1, QueueInitial, QueueInductive, PTL DEF QueueSpec
=============================================================================
