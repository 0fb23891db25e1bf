-------------------------- MODULE DeliveryPipeline --------------------------
(***************************************************************************)
(* The delivery path after ingestion: the rows of task_result_deliveries,  *)
(* the BullMQ main queue, the workers (JobProcessor, DeliveryExecutor,     *)
(* DeliveryStateMachine) and the daemons that repair rows and queue        *)
(* (DelayedQueueProcessor, StateSyncDaemon, StaleJobDetector and the       *)
(* QueueReconstructor cycle of RecoveryDaemon).                            *)
(*                                                                         *)
(* Every "await" on the database, the queue or the destination ends an     *)
(* action, so that a status read in one step may be stale when it is used  *)
(* in the next.  Whether the circuit breaker is open and how the           *)
(* destination answers is left open; CircuitBreaker and Bulkhead model     *)
(* those parts.                                                            *)
(***************************************************************************)
EXTENDS Integers, FiniteSets

CONSTANTS
    Deliveries,     \* rows, one per (task result, destination)
    Workers,        \* concurrent job slots
    Daemons,        \* the daemons this deployment runs
    MaxJobs,        \* bound on the waiting jobs of one delivery
    MaxAccepted,    \* bound on the count of accepted transmissions
    FaultKinds,     \* the faults that may happen
    MaxFaults       \* bound on their number

AllDaemons == {"delayed", "stale", "sync", "reconstruct"}

ASSUME PipelineAssumption ==
    /\ Daemons \subseteq AllDaemons
    /\ FaultKinds \subseteq {"query", "crash", "lock", "daemon"}
    /\ MaxJobs \in Nat \ {0}
    /\ MaxAccepted \in Nat \ {0}
    /\ MaxFaults \in Nat

VARIABLES
    row,        \* per delivery: status, is updatedAt 30s old, has nextRetryAt passed
    jobs,       \* per delivery: waiting jobs whose data carry its deliveryId
    routeJobs,  \* waiting jobs that only name task result and destination
    worker,     \* per worker: what executeWithResilience is doing
    daemon,     \* per daemon: phase of its cycle and the rows still to treat
    accepted,   \* per delivery: how often the destination took the payload
    faults      \* faults so far

vars == <<row, jobs, routeJobs, worker, daemon, accepted, faults>>

Statuses == {"PENDING", "PROCESSING", "COMPLETED", "SCHEDULED_RETRY", "FAILED_DLQ"}
Rows == [status : Statuses, stale : BOOLEAN, due : BOOLEAN]
Plans == {"COMPLETED", "SCHEDULED_RETRY", "FAILED_DLQ"}
Steps == {"markRead", "markWrite", "check", "send", "record", "finishRead", "finishWrite"}

IdleWorkers == [pc : {"idle"}]
BusyWorkers == [pc : Steps, delivery : Deliveries, plan : Plans, caught : BOOLEAN]

\* Jobs without a deliveryId have an id of BullMQ's ("auto") or, from
\* StateSyncDaemon, the route as their jobId ("sync").
RouteJobs == Deliveries \X {"auto", "sync"}

(***************************************************************************)
(* The type invariant of rows, queue, workers and daemons.                 *)
(***************************************************************************)
TypeOK ==
    /\ row \in [Deliveries -> Rows]
    /\ jobs \in [Deliveries -> 0..MaxJobs]
    /\ routeJobs \subseteq RouteJobs
    /\ worker \in [Workers -> IdleWorkers \cup BusyWorkers]
    /\ daemon \in [AllDaemons -> [phase : {"idle", "loop", "mid"},
                                  batch : SUBSET Deliveries, item : SUBSET Deliveries]]
    /\ accepted \in [Deliveries -> 0..MaxAccepted]
    /\ faults \in 0..MaxFaults

Idle == [pc |-> "idle"]
Resting == [phase |-> "idle", batch |-> {}, item |-> {}]

\* Ingestion stored the rows; it may have stopped before it enqueued them all.
Init ==
    /\ row = [d \in Deliveries |-> [status |-> "PENDING", stale |-> FALSE, due |-> FALSE]]
    /\ jobs \in [Deliveries -> {0, 1}]
    /\ routeJobs = {}
    /\ worker = [w \in Workers |-> Idle]
    /\ daemon = [k \in AllDaemons |-> Resting]
    /\ accepted = [d \in Deliveries |-> 0]
    /\ faults = 0

-----------------------------------------------------------------------------
(* Rows and queue *)

ValidTransitions ==
    [PENDING         |-> {"PROCESSING"},
     PROCESSING      |-> {"COMPLETED", "SCHEDULED_RETRY", "FAILED_DLQ"},
     SCHEDULED_RETRY |-> {"PENDING", "PROCESSING"},
     COMPLETED       |-> {},
     FAILED_DLQ      |-> {}]

CanTransitionAnywhere(from, to) == TRUE

\* The test of DeliveryStateMachine.transition; a repeated status passes.
CanTransition(from, to) == from = to \/ to \in ValidTransitions[from]

\* Every update of a row renews updatedAt.
SetStatus(d, s) == row' = [row EXCEPT ![d].status = s, ![d].stale = FALSE]

AddJob(d) == jobs' = [jobs EXCEPT ![d] = IF @ < MaxJobs THEN @ + 1 ELSE @]

\* A row in PROCESSING reaches the age of 30s; nextRetryAt passes.
RowAges(d) ==
    /\ row[d].status = "PROCESSING" /\ ~row[d].stale
    /\ row' = [row EXCEPT ![d].stale = TRUE]
    /\ UNCHANGED <<jobs, routeJobs, worker, daemon, accepted, faults>>

RetryFallsDue(d) ==
    /\ row[d].status = "SCHEDULED_RETRY" /\ ~row[d].due
    /\ row' = [row EXCEPT ![d].due = TRUE]
    /\ UNCHANGED <<jobs, routeJobs, worker, daemon, accepted, faults>>

-----------------------------------------------------------------------------
(* Workers *)

At(w, step) == worker[w].pc = step
Goto(w, step) == worker' = [worker EXCEPT ![w].pc = step]
Done(w) == worker' = [worker EXCEPT ![w] = Idle]

\* A job with a deliveryId reaches JobProcessor.processJob, and its executor
\* loads the row.  Whoever calls processJob is external: JobProcessor.start
\* registers no consumer with BullMQ, and worker-setup.ts leaves the
\* processor without an executor.  No property but ZeroMessageLoss, which
\* fails all the same, counts on a job being taken.
TakeJob(w, d) ==
    /\ At(w, "idle")
    /\ jobs[d] > 0
    /\ jobs' = [jobs EXCEPT ![d] = @ - 1]
    /\ worker' = [worker EXCEPT ![w] =
          [pc |-> "markRead", delivery |-> d, plan |-> "FAILED_DLQ", caught |-> FALSE]]
    /\ UNCHANGED <<row, routeJobs, daemon, accepted, faults>>

\* A route job: processJob falls back to job.id, findById finds no such
\* delivery, and the job is over.
TakeRouteJob(w, j) ==
    /\ At(w, "idle")
    /\ j \in routeJobs
    /\ routeJobs' = routeJobs \ {j}
    /\ UNCHANGED <<row, jobs, worker, daemon, accepted, faults>>

\* markProcessing: read and test; a refused transition is only logged.
MarkRead(w) ==
    /\ At(w, "markRead")
    /\ IF CanTransition(row[worker[w].delivery].status, "PROCESSING")
       THEN Goto(w, "markWrite")
       ELSE Goto(w, "check")
    /\ UNCHANGED <<row, jobs, routeJobs, daemon, accepted, faults>>

MarkWrite(w) ==
    /\ At(w, "markWrite")
    /\ SetStatus(worker[w].delivery, "PROCESSING")
    /\ Goto(w, "check")
    /\ UNCHANGED <<jobs, routeJobs, daemon, accepted, faults>>

\* An open breaker ends the job and leaves the row as it is.
BreakerOpen(w) ==
    /\ At(w, "check")
    /\ Done(w)
    /\ UNCHANGED <<row, jobs, routeJobs, daemon, accepted, faults>>

BreakerClosed(w) ==
    /\ At(w, "check")
    /\ Goto(w, "send")
    /\ UNCHANGED <<row, jobs, routeJobs, daemon, accepted, faults>>

Accept(d) == accepted' = [accepted EXCEPT ![d] = IF @ < MaxAccepted THEN @ + 1 ELSE @]

Planned(w, plan, caught) ==
    worker' = [worker EXCEPT ![w].pc = "record", ![w].plan = plan, ![w].caught = caught]

SendAssumedDelivered(w) ==
    /\ At(w, "send")
    /\ Planned(w, "COMPLETED", FALSE)
    /\ UNCHANGED <<row, jobs, routeJobs, daemon, accepted, faults>>

SendSucceeds(w) ==
    /\ At(w, "send")
    /\ Accept(worker[w].delivery)
    /\ Planned(w, "COMPLETED", FALSE)
    /\ UNCHANGED <<row, jobs, routeJobs, daemon, faults>>

\* The connector reports a failure: retryable, where the payload may have
\* been taken and the answer lost, or permanent.
SendFails(w) ==
    /\ At(w, "send")
    /\ \/ Planned(w, "SCHEDULED_RETRY", FALSE) /\ Accept(worker[w].delivery)
       \/ \E plan \in {"SCHEDULED_RETRY", "FAILED_DLQ"} :
             Planned(w, plan, FALSE) /\ UNCHANGED accepted
    /\ UNCHANGED <<row, jobs, routeJobs, daemon, faults>>

\* An exception before the transmission: no bulkhead slot in time (503),
\* no such destination or connector (400), a failed query.
SendThrows(w) ==
    /\ At(w, "send")
    /\ \E plan \in {"SCHEDULED_RETRY", "FAILED_DLQ"} : Planned(w, plan, TRUE)
    /\ UNCHANGED <<row, jobs, routeJobs, daemon, accepted, faults>>

\* AttemptRecorder adds an attempt and touches the row, or logs its error.
Record(w) ==
    /\ At(w, "record")
    /\ \/ row' = [row EXCEPT ![worker[w].delivery].stale = FALSE]
       \/ UNCHANGED row
    /\ Goto(w, "finishRead")
    /\ UNCHANGED <<jobs, routeJobs, daemon, accepted, faults>>

\* An exception in the try block goes through the catch block once; thrown
\* from the catch block it ends the job (JobProcessor swallows it).
Raise(w, retryable) ==
    IF worker[w].caught
    THEN Done(w)
    ELSE Planned(w, IF retryable THEN "SCHEDULED_RETRY" ELSE "FAILED_DLQ", TRUE)

\* InvalidDeliveryStateError carries status 400: not retryable.
FinishRead(w) ==
    /\ At(w, "finishRead")
    /\ IF CanTransition(row[worker[w].delivery].status, worker[w].plan)
       THEN Goto(w, "finishWrite")
       ELSE Raise(w, FALSE)
    /\ UNCHANGED <<row, jobs, routeJobs, daemon, accepted, faults>>

MarkCompleted(w) ==
    /\ At(w, "finishWrite")
    /\ worker[w].plan = "COMPLETED"
    /\ SetStatus(worker[w].delivery, "COMPLETED")
    /\ Done(w)
    /\ UNCHANGED <<jobs, routeJobs, daemon, accepted, faults>>

ScheduleRetry(w) ==
    /\ At(w, "finishWrite")
    /\ worker[w].plan = "SCHEDULED_RETRY"
    /\ row' = [row EXCEPT ![worker[w].delivery] =
                 [status |-> "SCHEDULED_RETRY", stale |-> FALSE, due |-> FALSE]]
    /\ Done(w)
    /\ UNCHANGED <<jobs, routeJobs, daemon, accepted, faults>>

\* transition hands its metadata to updateStatus as the transaction client,
\* so the write throws an InternalError (500): retryable.
MoveToDeadLetterQueue(w) ==
    /\ At(w, "finishWrite")
    /\ worker[w].plan = "FAILED_DLQ"
    /\ Raise(w, TRUE)
    /\ UNCHANGED <<row, jobs, routeJobs, daemon, accepted, faults>>

-----------------------------------------------------------------------------
(* Faults *)

Fault(kind) == kind \in FaultKinds /\ faults < MaxFaults /\ faults' = faults + 1

\* A query of the state machine fails.
QueryFails(w) ==
    /\ Fault("query")
    /\ \/ (At(w, "markRead") \/ At(w, "markWrite")) /\ Goto(w, "check")
       \/ (At(w, "finishRead") \/ At(w, "finishWrite")) /\ Raise(w, TRUE)
    /\ UNCHANGED <<row, jobs, routeJobs, daemon, accepted>>

\* The worker process dies; BullMQ hands its job out again, or gives it up.
Crash(w) ==
    /\ Fault("crash")
    /\ ~At(w, "idle")
    /\ AddJob(worker[w].delivery) \/ UNCHANGED jobs
    /\ Done(w)
    /\ UNCHANGED <<row, routeJobs, daemon, accepted>>

\* The worker is slow, its job lock expires, and the job is handed out
\* again while the first worker goes on.
LockExpires(w) ==
    /\ Fault("lock")
    /\ ~At(w, "idle")
    /\ AddJob(worker[w].delivery)
    /\ UNCHANGED <<row, routeJobs, worker, daemon, accepted>>

\* StateSyncDaemon is done with d.
AfterSync(d) ==
    daemon' = [daemon EXCEPT !["sync"] =
                 IF @.item = {d} THEN Resting
                 ELSE [phase |-> "mid", batch |-> {}, item |-> @.item \ {d}]]

\* The next row of the batch, or the end of the cycle.
Remaining(batch) ==
    IF batch = {} THEN Resting ELSE [phase |-> "loop", batch |-> batch, item |-> {}]

\* A process restarts, or a query or enqueue of a daemon fails: that ends
\* DelayedQueueProcessor's cycle, skips one row in StaleJobDetector and one
\* enqueue in StateSyncDaemon, and ends enqueuePending in QueueReconstructor.
DaemonFails(k) ==
    /\ Fault("daemon")
    /\ daemon[k].phase # "idle"
    /\ \/ daemon' = [daemon EXCEPT ![k] = Resting]
       \/ /\ k = "stale" /\ daemon[k].phase = "loop"
          /\ \E d \in daemon[k].batch :
                daemon' = [daemon EXCEPT ![k] = Remaining(@.batch \ {d})]
       \/ /\ k = "stale" /\ daemon[k].phase = "mid"
          /\ daemon' = [daemon EXCEPT ![k] = Remaining(@.batch)]
       \/ /\ k = "sync" /\ daemon[k].phase = "mid"
          /\ \E d \in daemon[k].item : AfterSync(d)
       \/ /\ k = "reconstruct"
          /\ daemon' = [daemon EXCEPT ![k].batch = {}]
    /\ UNCHANGED <<row, jobs, routeJobs, worker, accepted>>

-----------------------------------------------------------------------------
(* Daemons *)


\* The rows each daemon's query returns.
Selected(k) ==
    CASE k = "delayed" -> {d \in Deliveries : row[d].status = "SCHEDULED_RETRY" /\ row[d].due}
      [] k = "stale" -> {d \in Deliveries : row[d].status = "PROCESSING" /\ row[d].stale}
      [] k \in {"sync", "reconstruct"} -> {d \in Deliveries : row[d].status = "PENDING"}

\* The query that begins a cycle; the flags "processing" and "syncing" keep
\* cycles of one daemon apart.
Scan(k) ==
    /\ k \in Daemons
    /\ daemon[k].phase = "idle"
    /\ Selected(k) # {}
    /\ daemon' = [daemon EXCEPT ![k] = [phase |-> "loop", batch |-> Selected(k), item |-> {}]]
    /\ UNCHANGED <<row, jobs, routeJobs, worker, accepted, faults>>

\* Take d out of the batch, with one more await to come for it.
Begin(k, d) ==
    /\ daemon[k].phase = "loop"
    /\ d \in daemon[k].batch
    /\ daemon' = [daemon EXCEPT ![k] = [phase |-> "mid", batch |-> @.batch \ {d}, item |-> {d}]]

\* d is done: next row, or the end of the cycle.
End(k, d) ==
    /\ daemon[k].phase = "mid"
    /\ d \in daemon[k].item
    /\ daemon' = [daemon EXCEPT ![k] = Remaining(@.batch)]

\* DelayedQueueProcessor: first the row, then the job.
DelayedReset(d) ==
    /\ Begin("delayed", d)
    /\ SetStatus(d, "PENDING")
    /\ UNCHANGED <<jobs, routeJobs, worker, accepted, faults>>

DelayedEnqueue(d) ==
    /\ End("delayed", d)
    /\ routeJobs' = routeJobs \cup {<<d, "auto">>}
    /\ UNCHANGED <<row, jobs, worker, accepted, faults>>

\* StaleJobDetector.recover: first the job, then the row, whatever it says now.
StaleEnqueue(d) ==
    /\ Begin("stale", d)
    /\ routeJobs' = routeJobs \cup {<<d, "auto">>}
    /\ UNCHANGED <<row, jobs, worker, accepted, faults>>

StaleReset(d) ==
    /\ End("stale", d)
    /\ SetStatus(d, "PENDING")
    /\ UNCHANGED <<jobs, routeJobs, worker, accepted, faults>>

\* StateSyncDaemon: getJobs after the rows, then a job under the route's id
\* for each row that has none.
SyncLook ==
    /\ daemon["sync"].phase = "loop"
    /\ LET missing == {d \in daemon["sync"].batch : <<d, "sync">> \notin routeJobs} IN
       daemon' = [daemon EXCEPT !["sync"] =
          IF missing = {} THEN Resting ELSE [phase |-> "mid", batch |-> {}, item |-> missing]]
    /\ UNCHANGED <<row, jobs, routeJobs, worker, accepted, faults>>

SyncEnqueue(d) ==
    /\ daemon["sync"].phase = "mid"
    /\ d \in daemon["sync"].item
    /\ routeJobs' = routeJobs \cup {<<d, "sync">>}
    /\ AfterSync(d)
    /\ UNCHANGED <<row, jobs, worker, accepted, faults>>

\* QueueReconstructor: a job for every PENDING row, then the jobs whose
\* deliveryId or id names no row are removed, unless they are gone, came too
\* late or cannot be removed.  Its jobs for SCHEDULED_RETRY rows go to the
\* delayed queue, which nothing consumes.
ReconstructEnqueue(d) ==
    /\ daemon["reconstruct"].phase = "loop"
    /\ d \in daemon["reconstruct"].batch
    /\ AddJob(d)
    /\ daemon' = [daemon EXCEPT !["reconstruct"].batch = @ \ {d}]
    /\ UNCHANGED <<row, routeJobs, worker, accepted, faults>>

RemoveOrphaned ==
    /\ daemon["reconstruct"].phase = "loop"
    /\ daemon["reconstruct"].batch = {}
    /\ \E removed \in SUBSET routeJobs : routeJobs' = routeJobs \ removed
    /\ daemon' = [daemon EXCEPT !["reconstruct"] = Resting]
    /\ UNCHANGED <<row, jobs, worker, accepted, faults>>

-----------------------------------------------------------------------------

ExecutorStep(w) ==
    \/ MarkRead(w) \/ MarkWrite(w)
    \/ BreakerOpen(w) \/ BreakerClosed(w)
    \/ SendSucceeds(w) \/ SendFails(w) \/ SendThrows(w)
    \/ Record(w)
    \/ FinishRead(w) \/ MarkCompleted(w) \/ ScheduleRetry(w) \/ MoveToDeadLetterQueue(w)

WorkerStep(w) ==
    \/ \E d \in Deliveries : TakeJob(w, d)
    \/ \E j \in RouteJobs : TakeRouteJob(w, j)
    \/ ExecutorStep(w)
    \/ QueryFails(w) \/ Crash(w) \/ LockExpires(w)

DelayedStep(d) == DelayedReset(d) \/ DelayedEnqueue(d)
StaleStep(d) == StaleEnqueue(d) \/ StaleReset(d)

DaemonStep(d) ==
    \/ DelayedStep(d) \/ StaleStep(d)
    \/ SyncEnqueue(d) \/ ReconstructEnqueue(d)

Next ==
    \/ \E w \in Workers : WorkerStep(w)
    \/ \E k \in AllDaemons : Scan(k) \/ DaemonFails(k)
    \/ \E d \in Deliveries : DaemonStep(d) \/ RowAges(d) \/ RetryFallsDue(d)
    \/ SyncLook
    \/ RemoveOrphaned

Spec == Init /\ [][Next]_vars

\* Time passes; the timers of the daemons fire, and their awaits return.
Repairing ==
    /\ \A d \in Deliveries :
          /\ WF_vars(DelayedStep(d)) /\ WF_vars(StaleStep(d))
          /\ WF_vars(SyncEnqueue(d)) /\ WF_vars(ReconstructEnqueue(d))
          /\ WF_vars(RowAges(d)) /\ WF_vars(RetryFallsDue(d))
    /\ \A k \in Daemons : WF_vars(Scan(k))
    /\ WF_vars(SyncLook) /\ WF_vars(RemoveOrphaned)

\* What runs without a consumer of the queue that can be counted on.
RepairSpec == Spec /\ Repairing

\* In favour of the promise: a consumer takes every job that waits and goes on
\* with it, the breaker lets calls through again (CircuitBreaker), and a
\* destination that is tried again and again answers some time.
Consuming ==
    /\ \A w \in Workers :
          /\ WF_vars(ExecutorStep(w))
          /\ SF_vars(BreakerClosed(w))
          /\ SF_vars(SendSucceeds(w))
          /\ WF_vars(\E j \in RouteJobs : TakeRouteJob(w, j))
    /\ \A d \in Deliveries : SF_vars(\E w \in Workers : TakeJob(w, d))

FairSpec == RepairSpec /\ Consuming

-----------------------------------------------------------------------------
(* Properties *)

(***************************************************************************)
(* A row says COMPLETED only if the destination took the payload, and a    *)
(* worker about to complete a row has seen that happen, whatever stale     *)
(* reads, duplicate jobs, crashes and daemon resets come in between        *)
(* (delivery-executor.ts:141-153).                                         *)
(***************************************************************************)
NoPhantomCompletion ==
    /\ \A d \in Deliveries : row[d].status = "COMPLETED" => accepted[d] > 0
    /\ \A w \in Workers : (worker[w].pc # "idle" /\ worker[w].plan = "COMPLETED") =>
                             accepted[worker[w].delivery] > 0

(***************************************************************************)
(* Every change of a row's status is a transition of                       *)
(* VALID_DELIVERY_TRANSITIONS (state-transitions.ts:8-14): reading the     *)
(* status and writing it later never races.                                *)
(***************************************************************************)
LegalTransitions ==
    [][\A d \in Deliveries :
          row'[d].status # row[d].status => row'[d].status \in ValidTransitions[row[d].status]]_vars

(***************************************************************************)
(* Where the delayed and the sync daemon run, as daemon-setup.ts starts    *)
(* them, a scheduled retry does not wait forever, and neither does a row   *)
(* in PENDING without a job, although a cycle may end between the reset of *)
(* a row and its job, workers may die and change the row meanwhile, and    *)
(* the daemons' queries and enqueues may fail.  What becomes of the job is *)
(* another matter.                                                         *)
(***************************************************************************)
Queued(d) == jobs[d] > 0 \/ \E kind \in {"auto", "sync"} : <<d, kind>> \in routeJobs


(***************************************************************************)
(* Every delivery reaches its destination at least once (README.md:43:     *)
(* "zero message loss").                                                   *)
(***************************************************************************)
ZeroMessageLoss == \A d \in Deliveries : <>(accepted[d] > 0)

(***************************************************************************)
(* Workers and daemons implement the contract of the delivery services: a  *)
(* row says COMPLETED only if the destination took the payload             *)
(* (delivery-executor.ts:141-153), and no step settles two deliveries, or  *)
(* accepts and reports at once.                                            *)
(***************************************************************************)
ReportOf(status) ==
    CASE status = "COMPLETED" -> "delivered"
      [] status = "FAILED_DLQ" -> "dead"
      [] OTHER -> "open"

Contract == INSTANCE DeliveryContract WITH
    report <- [d \in Deliveries |-> ReportOf(row[d].status)],
    accepted <- {d \in Deliveries : accepted[d] > 0}
ImplementsContract == Contract!ContractSpec

(***************************************************************************)
(* The row of a delivery that its destination has not taken is in a status *)
(* that some daemon selects: nothing is settled by mistake, and nothing is *)
(* given up, because the write of FAILED_DLQ throws                        *)
(* (delivery-repository.ts:208).                                           *)
(***************************************************************************)
NothingIsGivenUp ==
    \A d \in Deliveries :
        /\ row[d].status # "FAILED_DLQ"
        /\ accepted[d] = 0 => row[d].status \in {"PENDING", "PROCESSING", "SCHEDULED_RETRY"}
=============================================================================
