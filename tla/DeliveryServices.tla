-------------------------- MODULE DeliveryServices --------------------------
(***************************************************************************)
(* The application services that change deliveries outside the worker      *)
(* pipeline (ProcessDeliveryService, HandleFailureService,                 *)
(* ScheduleRetryService, RetryScheduler, RecoverStaleJobsService,          *)
(* SyncStateService, RebuildQueueService) and the BullMQ worker that runs  *)
(* DeliverTaskResultUseCase, over the repository and the queue they share. *)
(*                                                                         *)
(* A service loads a delivery, changes the loaded copy and saves the whole *)
(* copy; every "await" ends an action, so two services may hold copies of  *)
(* one row and the later save wins.  A call is what its caller still has   *)
(* to await: the head of todo is the next await.                           *)
(***************************************************************************)
EXTENDS DeliveryEntity, Sequences, FiniteSets

CONSTANTS
    Deliveries,     \* rows, each for its own task result and destination
    Callers,        \* concurrent callers of the services
    Serves,         \* per caller: the services it calls
    JobIds,         \* bound on the jobs of delivery-queue that are followed
    MaxAttempts,    \* attempts of a job, 5 in BullMQService
    MaxFaults       \* bound on rejected awaits, crashes and lost answers

ServiceNames == {"process", "failure", "retry", "cancel", "recover", "sync", "rebuild"}

ASSUME ServicesAssumption ==
    /\ Deliveries # {}
    /\ Serves \in [Callers -> SUBSET ServiceNames]
    /\ MaxAttempts \in Nat \ {0}
    /\ MaxFaults \in Nat

VARIABLES
    row,        \* per delivery: its row
    aged,       \* the PROCESSING rows not updated for 30s
    job,        \* per job id: what BullMQ knows of it
    call,       \* per caller: the call it is in
    spoiled,    \* the deliveries whose last recovery an error or a crash cut short
    accepted,   \* the deliveries whose payload the destination took
    condemned,  \* the deliveries with a failure that must not be retried
    faults

vars == <<row, aged, job, call, spoiled, accepted, condemned, faults>>

Awaits == {"save", "post", "record", "enqueue", "items", "jobs", "checks", "remove",
           "clean", "pending", "scheduled"}
NoJob == [state |-> "none"]
Jobs == [state : {"waiting", "active", "posted", "failed"},
         delivery : Deliveries, made : 0..MaxAttempts]
Idle == [svc |-> "none"]
Calls == [svc : ServiceNames, todo : Seq(Awaits), delivery : Deliveries,
          copy : DeliveryRecords, batch : SUBSET (Deliveries \X DeliveryRecords),
          seen : SUBSET (JobIds \X Deliveries)]

(***************************************************************************)
(* The type invariant of rows, jobs and calls.                             *)
(***************************************************************************)
TypeOK ==
    /\ row \in [Deliveries -> DeliveryRecords]
    /\ aged \subseteq Deliveries
    /\ job \in [JobIds -> {NoJob} \cup Jobs]
    /\ call \in [Callers -> {Idle} \cup Calls]
    /\ spoiled \subseteq Deliveries
    /\ accepted \subseteq Deliveries /\ condemned \subseteq Deliveries
    /\ faults \in 0..MaxFaults

Init ==
    /\ row = [d \in Deliveries |-> Created]
    /\ aged = {}
    /\ job = [j \in JobIds |-> NoJob]
    /\ call = [c \in Callers |-> Idle]
    /\ spoiled = {}
    /\ accepted = {} /\ condemned = {}
    /\ faults = 0

-----------------------------------------------------------------------------
(* Calls *)

Free(c, svc) == call[c] = Idle /\ svc \in Serves[c]
Starts(c, svc, d, copy, todo) ==
    call' = [call EXCEPT ![c] = [svc |-> svc, todo |-> todo, delivery |-> d, copy |-> copy,
                                 batch |-> {}, seen |-> {}]]
At(c, await) == call[c] # Idle /\ call[c].todo # <<>> /\ Head(call[c].todo) = await

\* A call whose last await is done is over.
Continues(c, todo) ==
    call' = [call EXCEPT ![c] = IF todo = <<>> THEN Idle ELSE [@ EXCEPT !.todo = todo]]

Aging(d) ==
    /\ row[d].status = "PROCESSING" /\ d \notin aged
    /\ aged' = aged \cup {d}
    /\ UNCHANGED <<row, job, call, spoiled, accepted, condemned, faults>>

\* save writes status, retryCount and nextRetryAt of the copy over the row.
SaveCopy(d, copy) ==
    /\ row' = [row EXCEPT ![d] = copy]
    /\ aged' = aged \ {d}

Save(c) ==
    /\ At(c, "save")
    /\ SaveCopy(call[c].delivery, call[c].copy)
    /\ Continues(c, Tail(call[c].todo))
    /\ UNCHANGED <<job, spoiled, accepted, condemned, faults>>

\* enqueueDelivery names route and attempt; BullMQ gives it a new job id,
\* here one that is free and that no call remembers.  A job beyond the bound
\* JobIds waits unseen.
Remembered == UNION {{pair[1] : pair \in call[c].seen} : c \in {b \in Callers : call[b] # Idle}}

AddJob(d) ==
    LET fresh == {j \in JobIds \ Remembered : job[j] = NoJob}
    IN  IF fresh = {} THEN UNCHANGED job
        ELSE job' = [job EXCEPT ![CHOOSE j \in fresh : TRUE] =
                       [state |-> "waiting", delivery |-> d, made |-> 0]]

Enqueue(c) ==
    /\ At(c, "enqueue")
    /\ AddJob(call[c].delivery)
    /\ Continues(c, Tail(call[c].todo))
    /\ UNCHANGED <<row, aged, spoiled, accepted, condemned, faults>>

AfterRejectRethrown(c) ==
    IF call[c].svc = "sync" /\ Head(call[c].todo) \in {"enqueue", "remove"}
    THEN Tail(call[c].todo) ELSE <<>>

\* What is left of a call when its next await rejects: recoverStale goes on
\* with the next row, sync with the next one too, the others rethrow.
AfterReject(c) ==
    IF call[c].svc = "recover" THEN <<"items">>
    ELSE IF call[c].svc = "sync" /\ Head(call[c].todo) \in {"enqueue", "remove"}
         THEN Tail(call[c].todo)
         ELSE <<>>

\* The rows a recoverStale call has found and not yet saved.
AtHand(c) ==
    IF call[c] = Idle \/ call[c].svc # "recover" THEN {}
    ELSE {item[1] : item \in call[c].batch}
         \cup (IF Head(call[c].todo) = "items" THEN {} ELSE {call[c].delivery})

Rejects(c) ==
    /\ faults < MaxFaults
    /\ \E a \in {"save", "record", "enqueue"} : At(c, a)
    /\ faults' = faults + 1
    /\ spoiled' = IF call[c].svc = "recover" THEN spoiled \cup {call[c].delivery} ELSE spoiled
    /\ Continues(c, AfterReject(c))
    /\ UNCHANGED <<row, aged, job, accepted, condemned>>

\* The process of a caller dies.
Crash(c) ==
    /\ faults < MaxFaults
    /\ call[c] # Idle
    /\ faults' = faults + 1
    /\ spoiled' = spoiled \cup AtHand(c)
    /\ call' = [call EXCEPT ![c] = Idle]
    /\ UNCHANGED <<row, aged, job, accepted, condemned>>

-----------------------------------------------------------------------------
(* ProcessDeliveryService *)

\* A final delivery makes markAsProcessing throw; one in PROCESSING does not.
ProcessDelivery(c, d) ==
    /\ Free(c, "process")
    /\ row[d].status \notin Final
    /\ Starts(c, "process", d,
              IF row[d].status = "PROCESSING" THEN row[d] ELSE MarkAsProcessing(row[d]),
              <<"save", "post">>)
    /\ UNCHANGED <<row, aged, job, spoiled, accepted, condemned, faults>>

SettledTrusting(r, answer) ==
    IF answer = "permanent" THEN MoveToDeadLetterQueue(r) ELSE MarkAsCompleted(r)

\* What processDelivery makes of the answer; the retry count is left alone.
Settled(r, answer) ==
    IF answer = "ok" THEN MarkAsCompleted(r)
    ELSE IF answer = "retryable" /\ CanRetry(r) THEN ScheduleRetry(r)
    ELSE MoveToDeadLetterQueue(r)

PostAnswered(c, answer) ==
    /\ At(c, "post")
    /\ accepted' = IF answer = "ok" THEN accepted \cup {call[c].delivery} ELSE accepted
    /\ condemned' = IF answer = "permanent" THEN condemned \cup {call[c].delivery}
                                            ELSE condemned
    /\ call' = [call EXCEPT ![c].copy = Settled(@, answer),
                            ![c].todo = <<"record", "save">>]
    /\ UNCHANGED <<row, aged, job, spoiled, faults>>

\* No answer: status 0 is outside the range recordAttempt accepts, both
\* tries to record the attempt throw, and the call ends with the row in
\* PROCESSING.  The destination may have taken the payload.
PostUnanswered(c) ==
    /\ At(c, "post")
    /\ faults < MaxFaults
    /\ faults' = faults + 1
    /\ accepted' \in {accepted, accepted \cup {call[c].delivery}}
    /\ call' = [call EXCEPT ![c] = Idle]
    /\ UNCHANGED <<row, aged, job, spoiled, condemned>>

\* AttemptRepository.recordAttempt adds the attempt and writes its number
\* into the row; the save that follows writes the copy's count back.
RecordAttempt(c) ==
    /\ At(c, "record")
    /\ row' = [row EXCEPT ![call[c].delivery].count = Bounded(call[c].copy.count + 1)]
    /\ aged' = aged \ {call[c].delivery}
    /\ Continues(c, Tail(call[c].todo))
    /\ UNCHANGED <<job, spoiled, accepted, condemned, faults>>

-----------------------------------------------------------------------------
(* HandleFailureService, ScheduleRetryService, RetryScheduler *)

\* The copy handleFailure saves: markFailed, then a retry or the DLQ.  With
\* the AttemptRepository of createApplicationModule the call ends before
\* that: recordAttempt, called with two arguments of three, throws, and
\* nothing has changed; without one the copy is saved.
FailureCopy(r, retryable) ==
    LET failed == MarkFailed(IF CanMarkAsProcessing(r) THEN MarkAsProcessing(r) ELSE r, retryable)
    IN  IF retryable /\ CanRetry(failed) THEN ScheduleRetry(failed)
                                         ELSE MoveToDeadLetterQueue(failed)

HandleFailure(c, d, retryable) ==
    /\ Free(c, "failure")
    /\ Starts(c, "failure", d, FailureCopy(row[d], retryable), <<"save">>)
    /\ condemned' = IF retryable THEN condemned ELSE condemned \cup {d}
    /\ UNCHANGED <<row, aged, job, spoiled, accepted, faults>>

\* scheduleRetry: a spent budget ends in the DLQ and an exception.
ScheduleRetryCall(c, d) ==
    /\ Free(c, "retry")
    /\ IF row[d].count >= MaxRetries
       THEN Starts(c, "retry", d, MoveToDeadLetterQueue(row[d]), <<"save">>)
       ELSE Starts(c, "retry", d, ScheduleRetry(row[d]), <<"save", "enqueue">>)
    /\ UNCHANGED <<row, aged, job, spoiled, accepted, condemned, faults>>

\* RetryScheduler.scheduleRetry refuses final deliveries; its retryCount is
\* its caller's, below the maximum.
RescheduleJob(c, d) ==
    /\ Free(c, "retry")
    /\ row[d].status = "PROCESSING" \/ CanMarkAsProcessing(row[d])
    /\ Starts(c, "retry", d, ScheduleRetry(row[d]), <<"save", "enqueue">>)
    /\ UNCHANGED <<row, aged, job, spoiled, accepted, condemned, faults>>

CancelRetry(c, d) ==
    /\ Free(c, "cancel")
    /\ row[d].status \in {"PROCESSING", "SCHEDULED_RETRY"} \/ CanMarkAsProcessing(row[d])
    /\ Starts(c, "cancel", d, MoveToDeadLetterQueue(row[d]), <<"save">>)
    /\ condemned' = condemned \cup {d}
    /\ UNCHANGED <<row, aged, job, spoiled, accepted, faults>>

-----------------------------------------------------------------------------
(* RecoverStaleJobsService *)

Batch(c, svc, rows, todo) ==
    call' = [call EXCEPT ![c] =
        [svc |-> svc, todo |-> todo, delivery |-> CHOOSE d \in Deliveries : TRUE,
         copy |-> Created, batch |-> rows, seen |-> {}]]

RecoverStale(c) ==
    /\ Free(c, "recover")
    /\ LET stale == {d \in aged : row[d].status = "PROCESSING"}
       IN  /\ stale # {}
           /\ Batch(c, "recover", {<<d, row[d]>> : d \in stale}, <<"items">>)
           /\ spoiled' = spoiled \ stale
    /\ UNCHANGED <<row, aged, job, accepted, condemned, faults>>

\* markFailed may choose the DLQ, but up to maxRetries a retry replaces it.
RecoveredCopy(r) ==
    LET failed == MarkFailed(r, TRUE)
    IN  IF failed.count <= MaxRetries THEN ScheduleRetry(failed)
                                      ELSE MoveToDeadLetterQueue(failed)

\* The job is enqueued before the row is saved.
RecoverItem(c) ==
    /\ call[c].svc = "recover" /\ At(c, "items")
    /\ IF call[c].batch = {}
       THEN call' = [call EXCEPT ![c] = Idle]
       ELSE \E item \in call[c].batch :
               LET copy == RecoveredCopy(item[2])
               IN  call' = [call EXCEPT ![c] =
                     [call[c] EXCEPT !.batch = @ \ {item}, !.delivery = item[1], !.copy = copy,
                                     !.todo = IF copy.status = "FAILED_DLQ"
                                              THEN <<"save", "items">>
                                              ELSE <<"enqueue", "save", "items">>]]
    /\ UNCHANGED <<row, aged, job, spoiled, accepted, condemned, faults>>

-----------------------------------------------------------------------------
(* SyncStateService *)

RowsWith(status) == {<<d, row[d]>> : d \in {e \in Deliveries : row[e].status = status}}
QueuedJobs == {j \in JobIds : job[j].state \in {"waiting", "active", "posted"}}

SyncState(c) ==
    /\ Free(c, "sync")
    /\ Batch(c, "sync", RowsWith("PENDING"), <<"jobs">>)
    /\ UNCHANGED <<row, aged, job, spoiled, accepted, condemned, faults>>

\* getJobs: the PENDING rows without a job are left in the batch.
SyncJobs(c) ==
    /\ At(c, "jobs")
    /\ call' = [call EXCEPT ![c] =
          [call[c] EXCEPT !.todo = <<"checks">>,
                          !.seen = {<<j, job[j].delivery>> : j \in QueuedJobs},
                          !.batch = {item \in @ : \A j \in QueuedJobs : job[j].delivery # item[1]}]]
    /\ UNCHANGED <<row, aged, job, spoiled, accepted, condemned, faults>>

\* First the missing jobs are enqueued, then the row of every job seen is
\* read: a job whose delivery is final is to be removed.
SyncEnqueue(c) ==
    /\ At(c, "checks")
    /\ \E item \in call[c].batch :
          call' = [call EXCEPT ![c] = [call[c] EXCEPT !.batch = @ \ {item}, !.delivery = item[1],
                                                      !.todo = <<"enqueue", "checks">>]]
    /\ UNCHANGED <<row, aged, job, spoiled, accepted, condemned, faults>>

SyncCheck(c) ==
    /\ At(c, "checks") /\ call[c].batch = {}
    /\ IF call[c].seen = {}
       THEN call' = [call EXCEPT ![c] = Idle]
       ELSE LET pair == CHOOSE p \in call[c].seen : TRUE
            IN  IF row[pair[2]].status \in Final
                THEN Continues(c, <<"remove", "checks">>)
                ELSE call' = [call EXCEPT ![c].seen = @ \ {pair}]
    /\ UNCHANGED <<row, aged, job, spoiled, accepted, condemned, faults>>

\* BullMQ refuses to remove a job that a worker holds; the error is ignored.
SyncRemove(c) ==
    /\ At(c, "remove")
    /\ LET pair == CHOOSE p \in call[c].seen : TRUE
       IN  /\ job' = IF job[pair[1]].state \in {"waiting", "failed"}
                     THEN [job EXCEPT ![pair[1]] = NoJob] ELSE job
           /\ call' = [call EXCEPT ![c].seen = @ \ {pair}, ![c].todo = Tail(@)]
    /\ UNCHANGED <<row, aged, spoiled, accepted, condemned, faults>>

-----------------------------------------------------------------------------
(* RebuildQueueService *)

\* clean removes the jobs no worker holds; a failed job stays.
RebuildQueue(c) ==
    /\ Free(c, "rebuild")
    /\ job' = [j \in JobIds |-> IF job[j].state = "waiting" THEN NoJob ELSE job[j]]
    /\ Batch(c, "rebuild", {}, <<"pending", "scheduled">>)
    /\ UNCHANGED <<row, aged, spoiled, accepted, condemned, faults>>

\* findByStatus for one of the two loops.
RebuildQuery(c) ==
    /\ \E await \in {"pending", "scheduled"} :
          /\ At(c, await)
          /\ call' = [call EXCEPT ![c] =
               [call[c] EXCEPT !.batch = RowsWith(IF await = "pending" THEN "PENDING"
                                                                       ELSE "SCHEDULED_RETRY"),
                               !.todo = <<"items">> \o Tail(@)]]
    /\ UNCHANGED <<row, aged, job, spoiled, accepted, condemned, faults>>

RebuildItem(c) ==
    /\ call[c].svc = "rebuild" /\ At(c, "items")
    /\ \/ /\ call[c].batch = {}
          /\ Continues(c, Tail(call[c].todo))
       \/ \E item \in call[c].batch :
             call' = [call EXCEPT ![c] = [call[c] EXCEPT !.batch = @ \ {item}, !.delivery = item[1],
                                                         !.todo = <<"enqueue">> \o @]]
    /\ UNCHANGED <<row, aged, job, spoiled, accepted, condemned, faults>>

-----------------------------------------------------------------------------
(* BullMQWorker and DeliverTaskResultUseCase *)

JobAt(j, state) == job[j].state = state

StartJob(j) ==
    /\ JobAt(j, "waiting")
    /\ job' = [job EXCEPT ![j].state = "active"]
    /\ UNCHANGED <<row, aged, call, spoiled, accepted, condemned, faults>>

\* execute: a disabled destination ends the job.
SkipJob(j) ==
    /\ JobAt(j, "active")
    /\ job' = [job EXCEPT ![j] = NoJob]
    /\ UNCHANGED <<row, aged, call, spoiled, accepted, condemned, faults>>

\* execute: the POST, whatever its answer.
PostJob(j, taken) ==
    /\ JobAt(j, "active")
    /\ job' = [job EXCEPT ![j].state = "posted"]
    /\ accepted' = IF taken THEN accepted \cup {job[j].delivery} ELSE accepted
    /\ UNCHANGED <<row, aged, call, spoiled, condemned, faults>>

\* execute then saves a delivery of its own under a random id: the row that
\* exists for this task result and destination makes the upsert throw on
\* their unique index, so the attempt fails whatever the answer was.  BullMQ
\* retries the job and keeps it after the last attempt.
LastAttempt(j) == job[j].made + 1 >= MaxAttempts

SaveAttempt(j) ==
    /\ JobAt(j, "posted")
    /\ job' = [job EXCEPT ![j].made = @ + 1,
                          ![j].state = IF LastAttempt(j) THEN "failed" ELSE "waiting"]
    /\ UNCHANGED <<row, aged, call, spoiled, accepted, condemned, faults>>

\* The worker dies; BullMQ returns the stalled job.
StallJob(j) ==
    /\ faults < MaxFaults
    /\ job[j].state \in {"active", "posted"}
    /\ faults' = faults + 1
    /\ job' = [job EXCEPT ![j].state = "waiting"]
    /\ UNCHANGED <<row, aged, call, spoiled, accepted, condemned>>

\* Somebody inspects a failed job and deletes it.
DropFailedJob(j) ==
    /\ JobAt(j, "failed")
    /\ job' = [job EXCEPT ![j] = NoJob]
    /\ UNCHANGED <<row, aged, call, spoiled, accepted, condemned, faults>>

-----------------------------------------------------------------------------
ServiceStep(c) ==
    \/ Save(c) \/ Enqueue(c) \/ RecordAttempt(c)
    \/ \E answer \in {"ok", "retryable", "permanent"} : PostAnswered(c, answer)
    \/ RecoverItem(c)
    \/ SyncJobs(c) \/ SyncEnqueue(c) \/ SyncCheck(c) \/ SyncRemove(c)
    \/ RebuildQuery(c) \/ RebuildItem(c)

JobStep(j) ==
    \/ StartJob(j) \/ SkipJob(j) \/ SaveAttempt(j) \/ DropFailedJob(j)
    \/ \E taken \in BOOLEAN : PostJob(j, taken)

Next ==
    \/ \E d \in Deliveries : Aging(d)
    \/ \E c \in Callers, d \in Deliveries :
          \/ ProcessDelivery(c, d) \/ ScheduleRetryCall(c, d) \/ RescheduleJob(c, d)
          \/ CancelRetry(c, d)
          \/ \E retryable \in BOOLEAN : HandleFailure(c, d, retryable)
    \/ \E c \in Callers :
          \/ RecoverStale(c) \/ SyncState(c) \/ RebuildQueue(c)
          \/ ServiceStep(c) \/ PostUnanswered(c) \/ Rejects(c) \/ Crash(c)
    \/ \E j \in JobIds : JobStep(j) \/ StallJob(j)

Spec == Init /\ [][Next]_vars

-----------------------------------------------------------------------------
(* Properties *)

(***************************************************************************)
(* DelayedQueueProcessor looks for SCHEDULED_RETRY rows by nextRetryAt:    *)
(* whatever services have saved, in whatever order, such a row has a time, *)
(* and a final row has none.                                               *)
(***************************************************************************)
RetriesHaveATime ==
    \A d \in Deliveries :
        /\ row[d].status = "SCHEDULED_RETRY" => row[d].timed
        /\ row[d].status \in Final => ~row[d].timed

(***************************************************************************)
(* A delivery enters the dead letter queue only if a failure was reported  *)
(* that must not be retried, an operator gave it up, or the copy that is   *)
(* saved carries a spent retry budget.                                     *)
(***************************************************************************)
BuriedForAReason ==
    [][\A d \in Deliveries :
          row[d].status # "FAILED_DLQ" /\ row'[d].status = "FAILED_DLQ"
            => d \in condemned \/ row'[d].count >= MaxRetries]_vars

(***************************************************************************)
(* The services implement the delivery contract: a row says COMPLETED only *)
(* if the destination took the payload.                                    *)
(***************************************************************************)
Report ==
    [d \in Deliveries |->
        IF row[d].status = "COMPLETED" THEN "delivered"
        ELSE IF row[d].status = "FAILED_DLQ" THEN "dead" ELSE "open"]

Contract == INSTANCE DeliveryContract WITH report <- Report
ImplementsContract == Contract!ContractSpec

(***************************************************************************)
(* recoverStale drops no row it has found: whatever other services save    *)
(* meanwhile and whichever rows fail, a row leaves its batch only when it  *)
(* leaves PROCESSING, when an await of its own rejected, or with the death *)
(* of the process.                                                         *)
(***************************************************************************)
FoundRowsMoveOn ==
    [][\A c \in Callers, d \in Deliveries :
          d \in AtHand(c) /\ d \notin AtHand(c)'
            => row'[d].status # "PROCESSING" \/ d \in spoiled']_vars

(***************************************************************************)
(* Rows are well formed whatever order the services save them in.          *)
(***************************************************************************)
RowsAreSound ==
    /\ TypeOK
    /\ RetriesHaveATime
=============================================================================
