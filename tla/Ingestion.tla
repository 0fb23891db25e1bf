----------------------------- MODULE Ingestion -----------------------------
(***************************************************************************)
(* Task results coming in while destinations are being administered:       *)
(* ResultController.ingestResult with IngestResultService (the /api/v1     *)
(* route), TaskResultController.ingest with ReceiveTaskResultUseCase (the  *)
(* presentation route), and the handlers of both DestinationControllers.   *)
(* Nothing of this is transactional: every "await" ends an action, so      *)
(* requests interleave between the lookup of a key and its cache entry,    *)
(* and a crash or a rejected await leaves what was written so far.         *)
(***************************************************************************)
EXTENDS Naturals, Sequences, FiniteSets

CONSTANTS
    Requests,       \* HTTP requests; each is sent once
    Keys,           \* email:agent:version on the api route, taskId on the other
    Dests,          \* destination ids
    Events,         \* what event filters tell apart
    Route,          \* per request: "api" or "presentation"
    KeyOf, EventOf, FlawsOf,    \* per request: its content
    MaxChanges,     \* bound on changes to destinations
    MaxFaults       \* bound on rejected awaits and crashes

Flaws == {"shape", "version", "latency"}

ASSUME IngestionAssumption ==
    /\ Requests \cap Keys = {}
    /\ Route \in [Requests -> {"api", "presentation"}]
    /\ KeyOf \in [Requests -> Keys] /\ EventOf \in [Requests -> Events]
    /\ FlawsOf \in [Requests -> SUBSET Flaws]
    /\ MaxChanges \in Nat /\ MaxFaults \in Nat

VARIABLES
    dest,       \* per destination: its row
    editing,    \* the copies toggle has loaded and not saved yet
    deleted,    \* history: the destinations that were deleted
    stored,     \* ids of the stored task results
    rows,       \* deliveries: pairs of result and destination
    jobs,       \* jobs of delivery-queue: result, destination, request
    cache,      \* per key: the response remembered in Redis
    expired,    \* history: keys whose entry timed out
    req,        \* per request: where its handler is
    changes, faults

vars == <<dest, editing, deleted, stored, rows, jobs, cache, expired, req, changes, faults>>

None == [id |-> "none"]
Results == Requests \cup Keys
Responses == [id : Results, to : SUBSET Dests]
DestRows == [enabled : BOOLEAN, filter : Events \cup {"any"}]
NoRow == [id |-> "no row"]
Steps == {"new", "lookup", "query", "result", "rows", "jobs", "remember", "answered", "dead"}

(***************************************************************************)
(* The type invariant of the stores and of the handlers.                   *)
(***************************************************************************)
TypeOK ==
    /\ \A d \in Dests : dest[d] = NoRow \/ dest[d] \in DestRows
    /\ editing \subseteq Dests \X DestRows
    /\ deleted \subseteq Dests
    /\ stored \subseteq Results
    /\ rows \subseteq Results \X Dests
    /\ jobs \subseteq Results \X Dests \X Requests
    /\ \A k \in Keys : cache[k] = None \/ cache[k] \in Responses
    /\ expired \subseteq Keys
    /\ \A q \in Requests :
         /\ req[q].at \in Steps /\ req[q].late \in BOOLEAN
         /\ req[q].matched \subseteq Dests /\ req[q].left \subseteq Dests
         /\ req[q].answer = None \/ req[q].answer \in Responses
    /\ changes \in 0..MaxChanges /\ faults \in 0..MaxFaults

Init ==
    /\ dest = [d \in Dests |-> NoRow]
    /\ editing = {} /\ deleted = {}
    /\ stored = {} /\ rows = {} /\ jobs = {}
    /\ cache = [k \in Keys |-> None] /\ expired = {}
    /\ req = [q \in Requests |-> [at |-> "new", late |-> FALSE, matched |-> {}, left |-> {},
                                  answer |-> None]]
    /\ changes = 0 /\ faults = 0

stores == <<stored, rows, jobs, cache>>
admin == <<dest, editing, deleted, changes>>

-----------------------------------------------------------------------------
(* Destinations *)

\* matchesEventFilter: no filter takes every event, a filter only its own.
Matches(row, event) == row.filter \in {"any", event}

Active(q) == {d \in Dests : dest[d] # NoRow /\ dest[d].enabled /\ Matches(dest[d], EventOf[q])}

Changes == changes < MaxChanges /\ changes' = changes + 1

\* create: a request may ask for a disabled destination.
Register(d, row) ==
    /\ Changes
    /\ dest[d] = NoRow
    /\ dest' = [dest EXCEPT ![d] = row]
    /\ UNCHANGED <<editing, deleted, stores, expired, req, faults>>

\* update of the api route: Prisma changes the columns that were sent.
Update(d, row) ==
    /\ Changes
    /\ dest[d] # NoRow /\ dest[d] # row
    /\ dest' = [dest EXCEPT ![d] = row]
    /\ UNCHANGED <<editing, deleted, stores, expired, req, faults>>

\* delete is a real DELETE: the foreign key of the deliveries cascades.
Cascade(d) == {pair \in rows : pair[2] # d}

Delete(d) ==
    /\ Changes
    /\ dest[d] # NoRow
    /\ dest' = [dest EXCEPT ![d] = NoRow]
    /\ deleted' = deleted \cup {d}
    /\ rows' = Cascade(d)
    /\ UNCHANGED <<editing, stored, jobs, cache, expired, req, faults>>

\* toggle loads the destination, sets a property isActive that save does not
\* write, and saves the copy it holds.
ToggleRead(d) ==
    /\ Changes
    /\ dest[d] # NoRow
    /\ editing' = editing \cup {<<d, dest[d]>>}
    /\ UNCHANGED <<dest, deleted, stores, expired, req, faults>>

ToggleSave(d, row) ==
    /\ <<d, row>> \in editing
    /\ editing' = editing \ {<<d, row>>}
    /\ dest' = [dest EXCEPT ![d] = row]
    /\ UNCHANGED <<deleted, stores, expired, req, changes, faults>>

-----------------------------------------------------------------------------
(* Requests *)

At(q, step) == req[q].at = step
Moves(q, step) == req' = [req EXCEPT ![q].at = step]
Answers(q, response) == req' = [req EXCEPT ![q].at = "answered", ![q].answer = response]
Accepted(q) == req[q].answer # None

\* A new result gets a UUID on the api route, the taskId on the other.
ResultOf(q) == IF Route[q] = "api" THEN q ELSE KeyOf[q]

\* The schema wants every field in shape but lets the version be absent, and
\* drops llmMetadata.latency; the service wants the version too.
SchemaRejects(q) == "shape" \in FlawsOf[q]
ServiceRejects(q) == FlawsOf[q] \cap {"shape", "version"} # {}

\* The presentation route checks that taskId and payload are there; restore
\* checks the shape later.
Rejected(q) == IF Route[q] = "api" THEN SchemaRejects(q) \/ ServiceRejects(q) ELSE FALSE

Start(q) ==
    /\ At(q, "new")
    /\ IF Rejected(q)
       THEN Moves(q, "answered")
       ELSE req' = [req EXCEPT ![q].at = "lookup",
                      ![q].late = \E p \in Requests :
                                     /\ Route[p] = Route[q] /\ KeyOf[p] = KeyOf[q]
                                     /\ Accepted(p) /\ KeyOf[q] \notin expired]
    /\ UNCHANGED <<admin, stores, expired, faults>>

\* api: a cached response is the answer.  presentation: an existing task is.
Lookup(q) ==
    /\ At(q, "lookup")
    /\ IF Route[q] = "api"
       THEN IF cache[KeyOf[q]] # None THEN Answers(q, cache[KeyOf[q]]) ELSE Moves(q, "query")
       ELSE IF KeyOf[q] \in stored THEN Answers(q, [id |-> KeyOf[q], to |-> {}])
            ELSE IF "shape" \in FlawsOf[q] THEN Moves(q, "answered") ELSE Moves(q, "result")
    /\ UNCHANGED <<admin, stores, expired, faults>>

\* findAllActive and the filters, before the result is saved on the api
\* route, after it on the other.
Query(q) ==
    /\ At(q, "query")
    /\ req' = [req EXCEPT ![q].at = IF Route[q] = "api" THEN "result" ELSE "jobs",
                          ![q].matched = Active(q), ![q].left = Active(q)]
    /\ UNCHANGED <<admin, stores, expired, faults>>

SaveResult(q) ==
    /\ At(q, "result")
    /\ stored' = stored \cup {ResultOf(q)}
    /\ Moves(q, IF Route[q] = "api" THEN "rows" ELSE "query")
    /\ UNCHANGED <<admin, rows, jobs, cache, expired, faults>>

SaveRowUnqueued(q) ==
    /\ At(q, "rows")
    /\ \/ req[q].left = {} /\ Moves(q, "remember") /\ UNCHANGED rows
       \/ \E d \in req[q].left :
            /\ dest[d] # NoRow
            /\ rows' = rows \cup {<<ResultOf(q), d>>}
            /\ req' = [req EXCEPT ![q].left = @ \ {d}]
    /\ UNCHANGED <<admin, stored, jobs, cache, expired, faults>>

\* One row per matched destination; the foreign key refuses a destination
\* that was deleted since the query, and the request fails.
SaveRow(q) ==
    /\ At(q, "rows")
    /\ \/ /\ req[q].left = {}
          /\ req' = [req EXCEPT ![q].at = "jobs", ![q].left = req[q].matched]
          /\ UNCHANGED rows
       \/ \E d \in req[q].left :
            IF dest[d] = NoRow
            THEN Moves(q, "answered") /\ UNCHANGED rows
            ELSE /\ rows' = rows \cup {<<ResultOf(q), d>>}
                 /\ req' = [req EXCEPT ![q].left = @ \ {d}]
    /\ UNCHANGED <<admin, stored, jobs, cache, expired, faults>>

EnqueueOne(q) ==
    /\ At(q, "jobs")
    /\ \/ /\ req[q].left = {}
          /\ IF Route[q] = "api" THEN Moves(q, "remember")
             ELSE Answers(q, [id |-> ResultOf(q), to |-> req[q].matched])
          /\ UNCHANGED jobs
       \/ \E d \in req[q].left :
            /\ jobs' = jobs \cup {<<ResultOf(q), d, q>>}
            /\ req' = [req EXCEPT ![q].left = @ \ {d}]
    /\ UNCHANGED <<admin, stored, rows, cache, expired, faults>>

RememberNothing(q) ==
    /\ At(q, "remember")
    /\ Answers(q, [id |-> ResultOf(q), to |-> req[q].matched])
    /\ UNCHANGED <<admin, stores, expired, faults>>

\* cache.set with the response, for 24 hours, then the 202.
Remember(q) ==
    /\ At(q, "remember")
    /\ LET response == [id |-> ResultOf(q), to |-> req[q].matched]
       IN  /\ cache' = [cache EXCEPT ![KeyOf[q]] = response]
           /\ Answers(q, response)
    /\ UNCHANGED <<admin, stored, rows, jobs, expired, faults>>

\* The entry of a key times out in Redis.
Expire(k) ==
    /\ cache[k] # None
    /\ cache' = [cache EXCEPT ![k] = None]
    /\ expired' = expired \cup {k}
    /\ UNCHANGED <<admin, stored, rows, jobs, req, faults>>

\* An await rejects and the handler passes the error on.
Reject(q) ==
    /\ faults < MaxFaults
    /\ req[q].at \notin {"new", "answered", "dead"}
    /\ faults' = faults + 1
    /\ Moves(q, "answered")
    /\ UNCHANGED <<admin, stores, expired>>

\* The API process dies with its open requests.
Crash ==
    /\ faults < MaxFaults
    /\ faults' = faults + 1
    /\ req' = [q \in Requests |->
                 IF req[q].at \in {"new", "answered"} THEN req[q] ELSE [req[q] EXCEPT !.at = "dead"]]
    /\ req' # req
    /\ editing' = {}
    /\ UNCHANGED <<dest, deleted, changes, stores, expired>>

Next ==
    \/ \E d \in Dests, row \in DestRows :
         Register(d, row) \/ Update(d, row) \/ ToggleSave(d, row)
    \/ \E d \in Dests : Delete(d) \/ ToggleRead(d)
    \/ \E q \in Requests :
         \/ Start(q) \/ Lookup(q) \/ Query(q) \/ SaveResult(q) \/ SaveRow(q) \/ EnqueueOne(q)
         \/ Remember(q) \/ Reject(q)
    \/ \E k \in Keys : Expire(k)
    \/ Crash

Spec == Init /\ [][Next]_vars

-----------------------------------------------------------------------------
(***************************************************************************)
(* A 202 of the api route, also one answered from the cache, names a       *)
(* stored result; every destination it counts has a job, and a delivery    *)
(* row unless the destination was deleted (ingest writes the cache last).  *)
(***************************************************************************)
AcceptedIsComplete ==
    \A q \in Requests : Accepted(q) /\ Route[q] = "api" =>
        LET response == req[q].answer
        IN  /\ response.id \in stored
            /\ \A d \in response.to :
                 /\ \E p \in Requests : <<response.id, d, p>> \in jobs
                 /\ <<response.id, d>> \in rows \/ d \in deleted

(***************************************************************************)
(* A job of the api route has its delivery row for the worker to find,     *)
(* whatever fails half way (all rows are saved before the first job).      *)
(***************************************************************************)
JobsHaveRows ==
    \A job \in jobs : Route[job[3]] = "api" =>
        \A d \in req[job[3]].matched : <<job[1], d>> \in rows \/ d \in deleted

(***************************************************************************)
(* A request that arrives after one with its key was answered 202, within  *)
(* the 24 hours, stores no second result and adds no job.                  *)
(***************************************************************************)
LaterDuplicatesStoreNothing ==
    \A q \in Requests :
        req[q].late /\ KeyOf[q] \notin expired =>
            /\ Route[q] = "api" => q \notin stored
            /\ \A job \in jobs : job[3] # q

(***************************************************************************)
(* No row outlives its destination or comes before its result, although a  *)
(* destination may vanish between the query and the saves of a request.    *)
(***************************************************************************)
RowsAreAnchored ==
    \A pair \in rows : pair[1] \in stored /\ dest[pair[2]] # NoRow

(***************************************************************************)
(* What a client is told about a result is complete and stays so.          *)
(***************************************************************************)
IntakeIsComplete ==
    /\ TypeOK
    /\ AcceptedIsComplete
    /\ JobsHaveRows
    /\ RowsAreAnchored
=============================================================================
