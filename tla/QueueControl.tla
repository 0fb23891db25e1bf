---------------------------- MODULE QueueControl ----------------------------
(***************************************************************************)
(* QueueManager over the three BullMQ queues, with a worker of the main    *)
(* queue, which is external: nothing under src registers one for it.       *)
(* Every operation of the manager is a chain of awaits: a job is           *)
(* looked up in queue after queue, acted on under the id it was found by,  *)
(* and a move removes it here and adds its data there.  Operators work     *)
(* side by side with the worker and with each other.                       *)
(***************************************************************************)
EXTENDS Naturals, FiniteSets

CONSTANTS
    Deliveries,
    Undatable,      \* deliveries whose data holds text that looks like an
                    \* ISO date and is none
    Operators,      \* callers of QueueManager
    Attempts,       \* defaultJobOptions.attempts of the main queue
    MaxId,          \* bound: jobs created per queue
    MaxRefused      \* bound: rejected commands and operators that crash

ASSUME QueueAssumption ==
    /\ IsFiniteSet(Deliveries) /\ IsFiniteSet(Operators)
    /\ Undatable \subseteq Deliveries
    /\ Attempts \in Nat \ {0} /\ MaxId \in Nat /\ MaxRefused \in Nat

VARIABLES
    held,       \* the jobs of all queues
    nextId,     \* per queue: the id of its next job
    paused,     \* whether the main queue is paused
    operator,   \* per operator: the call under way
    refused,    \* rejected commands so far
    added, ended, lost, ghosts
                \* history, per delivery: jobs added by enqueue, jobs that
                \* were completed, cancelled or drained, data that was removed
                \* and never added, and moves that removed nothing

history == <<added, ended, lost, ghosts>>
queueVars == <<held, nextId, paused, operator, refused, history>>

Queues == {"main", "delayed", "dlq"}
Jobs == [queue : Queues, id : 1..MaxId, delivery : Deliveries,
         state : {"waiting", "active", "delayed", "failed"}, tries : 0..Attempts]
Handles == [queue : Queues, id : 1..MaxId, delivery : Deliveries]
Searches == {"cancel", "retry", "toDelayed", "toDLQ"}
Idle == [op |-> "idle"]

(***************************************************************************)
(* The type invariant; a queue never holds two jobs of one id.             *)
(***************************************************************************)
QueueTypeOK ==
    /\ held \subseteq Jobs
    /\ \A j, k \in held : j.queue = k.queue /\ j.id = k.id => j = k
    /\ nextId \in [Queues -> 1..MaxId + 1]
    /\ \A j \in held : j.id < nextId[j.queue]
    /\ paused \in BOOLEAN
    /\ \A o \in Operators :
         \/ operator[o] = Idle
         \/ operator[o] \in [op : Searches, at : {"delayed", "dlq"}, id : 1..MaxId]
         \/ operator[o] \in [op : Searches, at : {"found"}, job : Handles]
         \/ operator[o] \in [op : {"toDelayed", "toDLQ"}, at : {"add"}, job : Handles]
    /\ refused \in 0..MaxRefused
    /\ \A h \in {added, ended, lost, ghosts} : h \in [Deliveries -> Nat]

QueueInit ==
    /\ held = {}
    /\ nextId = [q \in Queues |-> 1]
    /\ paused = FALSE
    /\ operator = [o \in Operators |-> Idle]
    /\ refused = 0
    /\ added = [d \in Deliveries |-> 0]
    /\ ended = added /\ lost = added /\ ghosts = added

-----------------------------------------------------------------------------
(* Data and queues *)

\* serialize after deserialize: text that looks like a date has become a
\* Date, and an invalid one has no ISO form.
Reserializes(d) == d \notin Undatable

\* Queue.add with the options of the queue: main and DLQ jobs wait, jobs of
\* the delayed queue wait for their delay first.
AddTo(q, d) ==
    /\ nextId[q] <= MaxId
    /\ held' = held \cup {[queue |-> q, id |-> nextId[q], delivery |-> d, tries |-> 0,
                           state |-> IF q = "delayed" THEN "delayed" ELSE "waiting"]}
    /\ nextId' = [nextId EXCEPT ![q] = @ + 1]

WithId(q, id) == {j \in held : j.queue = q /\ j.id = id}
Locked(j) == \E k \in WithId(j.queue, j.id) : k.state = "active"
Missing(j) == WithId(j.queue, j.id) = {}

\* Job.remove: a job a worker holds is refused, a missing one is no error.
RemoveJob(j) == held' = held \ WithId(j.queue, j.id)

Plus1(h, d) == [h EXCEPT ![d] = @ + 1]

-----------------------------------------------------------------------------
(* Producers and the worker *)

EnqueueJob(d) ==
    /\ AddTo("main", d)
    /\ added' = Plus1(added, d)
    /\ UNCHANGED <<paused, operator, refused, ended, lost, ghosts>>

EnqueueDelayedJob(d) ==
    /\ AddTo("delayed", d)
    /\ added' = Plus1(added, d)
    /\ UNCHANGED <<paused, operator, refused, ended, lost, ghosts>>

Replaced(j, k) == held' = (held \ {j}) \cup {k}
WorkerLeaves == UNCHANGED <<nextId, paused, operator, refused, added, lost, ghosts>>

\* The worker is one of the main queue; nothing reads the other two.
StartJob(j) ==
    /\ j.queue = "main" /\ j.state = "waiting" /\ ~paused
    /\ Replaced(j, [j EXCEPT !.state = "active"])
    /\ UNCHANGED ended /\ WorkerLeaves

CompleteJob(j) ==                                   \* removeOnComplete
    /\ j.state = "active"
    /\ held' = held \ {j}
    /\ ended' = Plus1(ended, j.delivery)
    /\ WorkerLeaves

FailJob(j) ==                                       \* attempts, removeOnFail: false
    /\ j.state = "active"
    /\ Replaced(j, [j EXCEPT !.tries = IF @ < Attempts THEN @ + 1 ELSE @,
                             !.state = IF j.tries + 1 < Attempts THEN "waiting" ELSE "failed"])
    /\ UNCHANGED ended /\ WorkerLeaves

DelayOver(j) ==
    /\ j.state = "delayed"
    /\ Replaced(j, [j EXCEPT !.state = "waiting"])
    /\ UNCHANGED ended /\ WorkerLeaves

-----------------------------------------------------------------------------
(* Operators: cancelJob, retryJob, moveToDelayed, moveToDLQ *)

Does(o, call) == operator' = [operator EXCEPT ![o] = call]

\* findJob: main, delayed, DLQ, the first that knows the id; else NotFoundError.
Following == [q \in {"main", "delayed"} |-> IF q = "main" THEN "delayed" ELSE "dlq"]
Handle(j) == [queue |-> j.queue, id |-> j.id, delivery |-> j.delivery]

LookIn(o, q, op, id) ==
    /\ \/ \E j \in WithId(q, id) : Does(o, [op |-> op, at |-> "found", job |-> Handle(j)])
       \/ /\ WithId(q, id) = {}
          /\ Does(o, IF q = "dlq" THEN Idle ELSE [op |-> op, at |-> Following[q], id |-> id])
    /\ UNCHANGED <<held, nextId, paused, refused, history>>

Ask(o, op, id) == operator[o] = Idle /\ LookIn(o, "main", op, id)

LookFurther(o) ==
    /\ operator[o] # Idle /\ operator[o].op \in Searches /\ operator[o].at \in Queues
    /\ LookIn(o, operator[o].at, operator[o].op, operator[o].id)

Found(o, ops) == operator[o] # Idle /\ operator[o].at = "found" /\ operator[o].op \in ops

CancelJob(o) ==
    /\ Found(o, {"cancel"})
    /\ Does(o, Idle)
    /\ LET j == operator[o].job IN
         IF Locked(j) THEN UNCHANGED <<held, ended>>
         ELSE /\ RemoveJob(j)
              /\ ended' = IF Missing(j) THEN ended ELSE Plus1(ended, j.delivery)
    /\ UNCHANGED <<nextId, paused, refused, added, lost, ghosts>>

\* Job.retry: only a failed job can be retried.
RetryJob(o) ==
    /\ Found(o, {"retry"})
    /\ Does(o, Idle)
    /\ LET failed == {k \in WithId(operator[o].job.queue, operator[o].job.id) : k.state = "failed"}
       IN  held' = (held \ failed) \cup {[k EXCEPT !.state = "waiting"] : k \in failed}
    /\ UNCHANGED <<nextId, paused, refused, history>>

MoveRemove(o) ==
    /\ Found(o, {"toDelayed", "toDLQ"})
    /\ LET j == operator[o].job IN
         IF Locked(j) THEN Does(o, Idle) /\ UNCHANGED <<held, ghosts>>
         ELSE /\ RemoveJob(j)
              /\ Does(o, [operator[o] EXCEPT !.at = "add"])
              /\ ghosts' = IF Missing(j) THEN Plus1(ghosts, j.delivery) ELSE ghosts
    /\ UNCHANGED <<nextId, paused, refused, added, ended, lost>>

HasData(o) == operator[o] # Idle /\ operator[o].at = "add"

MoveAddOnce(o) ==
    /\ HasData(o)
    /\ Does(o, Idle)
    /\ LET d == operator[o].job.delivery IN
         IF Reserializes(d) /\ ~\E j \in held : j.delivery = d
         THEN /\ AddTo(IF operator[o].op = "toDLQ" THEN "dlq" ELSE "delayed", d)
              /\ UNCHANGED lost
         ELSE lost' = Plus1(lost, d) /\ UNCHANGED <<held, nextId>>
    /\ UNCHANGED <<paused, refused, added, ended, ghosts>>

\* The data is serialized again and added to the other queue.
MoveAdd(o) ==
    /\ HasData(o)
    /\ Does(o, Idle)
    /\ LET d == operator[o].job.delivery IN
         IF Reserializes(d)
         THEN /\ AddTo(IF operator[o].op = "toDLQ" THEN "dlq" ELSE "delayed", d)
              /\ UNCHANGED lost
         ELSE lost' = Plus1(lost, d) /\ UNCHANGED <<held, nextId>>
    /\ UNCHANGED <<paused, refused, added, ended, ghosts>>

-----------------------------------------------------------------------------
(* pauseQueue, resumeQueue, clearQueue; failures *)

\* Only the main queue has a worker that notices.
PauseOrResume ==
    /\ paused' = ~paused
    /\ UNCHANGED <<held, nextId, operator, refused, history>>

\* Queue.drain leaves active, delayed and failed jobs alone.
ClearQueue(q) ==
    /\ LET drained == {j \in held : j.queue = q /\ j.state = "waiting"} IN
         /\ drained # {}
         /\ held' = held \ drained
         /\ ended' = [d \in Deliveries |->
                        ended[d] + Cardinality({j \in drained : j.delivery = d})]
    /\ UNCHANGED <<nextId, paused, operator, refused, added, lost, ghosts>>

\* An awaited command rejects or the operator's process dies: the call ends.
CommandFails(o) ==
    /\ operator[o] # Idle /\ refused < MaxRefused
    /\ refused' = refused + 1
    /\ Does(o, Idle)
    /\ lost' = IF HasData(o) THEN Plus1(lost, operator[o].job.delivery) ELSE lost
    /\ UNCHANGED <<held, nextId, paused, added, ended, ghosts>>

WorkerStep(j) == StartJob(j) \/ CompleteJob(j) \/ FailJob(j)

QueueNext ==
    \/ \E d \in Deliveries : EnqueueJob(d) \/ EnqueueDelayedJob(d)
    \/ \E j \in held : WorkerStep(j) \/ DelayOver(j)
    \/ PauseOrResume \/ \E q \in Queues : ClearQueue(q)
    \/ \E o \in Operators :
         \/ \E op \in Searches, id \in 1..MaxId : Ask(o, op, id)
         \/ LookFurther(o) \/ CancelJob(o) \/ RetryJob(o) \/ MoveRemove(o) \/ MoveAdd(o)
         \/ CommandFails(o)

-----------------------------------------------------------------------------
JobsOf(d) == {j \in held : j.delivery = d}
InHand(d) == {o \in Operators : HasData(o) /\ operator[o].job.delivery = d}

(***************************************************************************)
(* Jobs are conserved, although a move is a remove and an add: each job of *)
(* a delivery is in a queue, in the hands of a move, ended or lost, and    *)
(* none is there twice unless a move removed nothing, because somebody     *)
(* else had removed or finished the job since it was found.                *)
(***************************************************************************)
JobsAreConserved ==
    \A d \in Deliveries :
        Cardinality(JobsOf(d)) + Cardinality(InHand(d)) + ended[d] + lost[d]
            = added[d] + ghosts[d]

(***************************************************************************)
(* moveToDelayed and moveToDLQ lose a job only if a command fails between  *)
(* remove and add, or if its data survives deserialize but not serialize.  *)
(***************************************************************************)
LossNeedsAReason ==
    \A d \in Deliveries \ Undatable : lost[d] <= refused

(***************************************************************************)
(* If somebody consumes the main queue, none of its jobs is worked on for  *)
(* ever: it ends, fails for good or is moved, unless the queue gets paused.*)
(***************************************************************************)
MainJobsSettle ==
    \A id \in 1..MaxId :
        (\E j \in WithId("main", id) : j.state = "waiting")
            ~> (paused \/ \A j \in WithId("main", id) : j.state = "failed")

(***************************************************************************)
(* Jobs are kept: none vanishes or doubles without a reason, and the       *)
(* worker gets through with each.                                          *)
(***************************************************************************)
JobsAreKept ==
    /\ [](QueueTypeOK /\ JobsAreConserved /\ LossNeedsAReason)
    /\ MainJobsSettle
=============================================================================
