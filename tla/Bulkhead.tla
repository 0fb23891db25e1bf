------------------------------ MODULE Bulkhead ------------------------------
(***************************************************************************)
(* One bulkhead: the slot counter and FIFO wait queue of ResourcePool      *)
(* (resource-pool.ts), the admission test and the metrics of               *)
(* Bulkhead.execute (bulkhead.ts), and the ticket interface of             *)
(* BulkheadManager (bulkhead-manager.ts), which DeliveryExecutor uses.     *)
(*                                                                         *)
(* JavaScript runs one callback at a time, so an action is one synchronous *)
(* stretch of code.  A promise that is resolved runs its continuation      *)
(* later: a call that was handed a slot is first "granted" (the pool has   *)
(* counted it) and then "running" (its continuation has run), and anything *)
(* may happen in between.                                                  *)
(***************************************************************************)
EXTENDS Integers, Sequences, FiniteSets, SequencesExt

CONSTANTS
    ExecCallers,    \* calls made through Bulkhead.execute
    TicketCallers,  \* calls made through BulkheadManager.acquire / release
    Patient,        \* the execute calls whose overrideTimeoutMs is 0: no timer
    MaxConcurrent,  \* config.maxConcurrent, the pool's maxSize
    MaxQueueSize    \* config.maxQueueSize

Callers == ExecCallers \cup TicketCallers

ASSUME CallersAssumption ==
    /\ IsFiniteSet(ExecCallers)
    /\ IsFiniteSet(TicketCallers)
    /\ ExecCallers \cap TicketCallers = {}
    /\ Patient \subseteq ExecCallers

ASSUME SizeAssumption ==
    /\ MaxConcurrent \in Nat \ {0}
    /\ MaxQueueSize \in Nat \ {0}

VARIABLES
    inUse,      \* ResourcePool.inUse
    queue,      \* ResourcePool.queue, oldest waiter first
    pc,         \* where each call stands
    active,     \* BulkheadMetrics.active
    queued      \* BulkheadMetrics.queued

vars == <<inUse, queue, pc, active, queued>>

Stages == {"idle", "waiting", "granted", "timedOut", "running"}

\* The calls that own a slot of the pool.
Holders == {c \in Callers : pc[c] \in {"granted", "running"}}

(***************************************************************************)
(* The type invariant: the counters are naturals, the wait queue holds     *)
(* calls, each call is at one stage (ResourcePool, BulkheadMetrics).       *)
(***************************************************************************)
TypeOK ==
    /\ inUse \in Nat
    /\ queue \in Seq(Callers)
    /\ pc \in [Callers -> Stages]
    /\ active \in Nat
    /\ queued \in Nat

Init ==
    /\ inUse = 0
    /\ queue = <<>>
    /\ pc = [c \in Callers |-> "idle"]
    /\ active = 0
    /\ queued = 0

-----------------------------------------------------------------------------
(* ResourcePool *)

\* tryAcquire: take a free slot, or join the end of the wait queue.
TryAcquire(c) ==
    IF inUse < MaxConcurrent
    THEN /\ inUse' = inUse + 1
         /\ pc' = [pc EXCEPT ![c] = "granted"]
         /\ UNCHANGED queue
    ELSE /\ queue' = Append(queue, c)
         /\ pc' = [pc EXCEPT ![c] = "waiting"]
         /\ UNCHANGED inUse

\* release by call c, which is then over: a slot that comes free goes at
\* once to the oldest waiter.  Resolving a promise that is settled already
\* does nothing to its call, but the waiter's callback counts the slot.
Grant(w) == IF pc[w] = "waiting" THEN "granted" ELSE pc[w]

ReleaseLatestFirst(c) ==
    IF queue = <<>>
    THEN /\ inUse' = inUse - 1
         /\ pc' = [pc EXCEPT ![c] = "idle"]
         /\ UNCHANGED queue
    ELSE /\ pc' = [pc EXCEPT ![c] = "idle", ![queue[Len(queue)]] = "granted"]
         /\ queue' = SubSeq(queue, 1, Len(queue) - 1)
         /\ UNCHANGED inUse

ReleaseWithoutGrant(c) ==
    /\ inUse' = inUse - 1
    /\ pc' = [pc EXCEPT ![c] = "idle"]
    /\ UNCHANGED queue

ReleaseSlot(c) ==
    IF inUse <= 0
    THEN /\ pc' = [pc EXCEPT ![c] = "idle"]
         /\ UNCHANGED <<inUse, queue>>
    ELSE IF queue = <<>>
    THEN /\ inUse' = inUse - 1
         /\ pc' = [pc EXCEPT ![c] = "idle"]
         /\ UNCHANGED queue
    ELSE /\ inUse' = (inUse - 1) + 1
         /\ pc' = [pc EXCEPT ![c] = "idle", ![Head(queue)] = Grant(Head(queue))]
         /\ queue' = Tail(queue)

\* The timer of a waiter fires: it leaves the queue and resolves to false.
LeaveQueueForgotten(c) == queue

LeaveQueue(c) == RemoveAt(queue, CHOOSE i \in 1..Len(queue) : queue[i] = c)

Timeout(c) ==
    /\ pc[c] = "waiting"
    /\ c \notin Patient
    /\ queue' = LeaveQueue(c)
    /\ pc' = [pc EXCEPT ![c] = "timedOut"]
    /\ UNCHANGED <<inUse, active, queued>>

-----------------------------------------------------------------------------
(* Bulkhead.execute *)

IsFull == inUse >= MaxConcurrent /\ Len(queue) >= MaxQueueSize

\* execute up to its first await; a rejected call throws and changes only
\* the rejection total, which is not kept.
Execute(c) ==
    /\ pc[c] = "idle"
    /\ ~IsFull
    /\ queued' = queued + 1
    /\ TryAcquire(c)
    /\ UNCHANGED active

\* Bulkhead.reset zeroes the counters, whoever is in flight.
ResetMetrics ==
    /\ active' = 0
    /\ queued' = 0
    /\ UNCHANGED <<inUse, queue, pc>>

DecrementForgotten(n) == n

Decrement(n) == IF n > 0 THEN n - 1 ELSE 0

\* tryAcquire resolved: recordDequeued, then recordAcquire or the rejection.
ResumeExecute(c) ==
    \/ /\ pc[c] = "granted"
       /\ pc' = [pc EXCEPT ![c] = "running"]
       /\ queued' = Decrement(queued)
       /\ active' = active + 1
       /\ UNCHANGED <<inUse, queue>>
    \/ /\ pc[c] = "timedOut"
       /\ pc' = [pc EXCEPT ![c] = "idle"]
       /\ queued' = Decrement(queued)
       /\ UNCHANGED <<inUse, queue, active>>

\* fn settled, with a value or an error: the finally block.
FinishExecute(c) ==
    /\ pc[c] = "running"
    /\ ReleaseSlot(c)
    /\ active' = Decrement(active)
    /\ UNCHANGED queued

-----------------------------------------------------------------------------
(* BulkheadManager.acquire and release *)

AcquireTicket(c) ==
    /\ pc[c] = "idle"
    /\ TryAcquire(c)
    /\ UNCHANGED <<active, queued>>

\* acquire returns a ticket, or throws BulkheadFullError after the timeout.
ResumeTicket(c) ==
    /\ pc[c] \in {"granted", "timedOut"}
    /\ pc' = [pc EXCEPT ![c] = IF @ = "granted" THEN "running" ELSE "idle"]
    /\ UNCHANGED <<inUse, queue, active, queued>>

ReleaseTicket(c) ==
    /\ pc[c] = "running"
    /\ ReleaseSlot(c)
    /\ UNCHANGED <<active, queued>>

-----------------------------------------------------------------------------

Next ==
    \/ \E c \in ExecCallers : Execute(c) \/ ResumeExecute(c) \/ FinishExecute(c)
    \/ \E c \in TicketCallers : AcquireTicket(c) \/ ResumeTicket(c) \/ ReleaseTicket(c)
    \/ \E c \in Callers : Timeout(c)
    \/ ResetMetrics

Spec == Init /\ [][Next]_vars

\* Resolved promises run their continuations, and fn settles: every connector
\* call is bounded by its timeout.  New calls, timers and resets may not come.
Fairness ==
    /\ \A c \in ExecCallers : WF_vars(ResumeExecute(c)) /\ WF_vars(FinishExecute(c))
    /\ \A c \in TicketCallers : WF_vars(ResumeTicket(c)) /\ WF_vars(ReleaseTicket(c))

FairSpec == Spec /\ Fairness

-----------------------------------------------------------------------------
(* Properties *)

(***************************************************************************)
(* inUse counts exactly the calls that own a slot, and never more than     *)
(* maxConcurrent of them: no interleaving of releases, timers and late     *)
(* continuations leaks a slot or hands one out twice (resource-pool.ts,    *)
(* tryAcquire, its timer and release).                                     *)
(***************************************************************************)
SlotConservation ==
    /\ inUse = Cardinality(Holders)
    /\ inUse <= MaxConcurrent

(***************************************************************************)
(* Nobody waits while a slot is free, and the queue holds every waiting    *)
(* call exactly once and nothing else: a timer and a release that meet do  *)
(* not lose a wakeup (resource-pool.ts, release and the timer callback).   *)
(***************************************************************************)
NoLostWakeup ==
    /\ queue # <<>> => inUse >= MaxConcurrent
    /\ \A c \in Callers : pc[c] = "waiting" <=> \E i \in 1..Len(queue) : queue[i] = c
    /\ \A i, j \in 1..Len(queue) : queue[i] = queue[j] => i = j

(***************************************************************************)
(* While calls are queued a slot is only ever given to the oldest of them: *)
(* a new call never overtakes the "fair FIFO wait queue" of                *)
(* resource-pool.ts:10.                                                    *)
(***************************************************************************)
FifoGrant ==
    [][\A c \in Callers :
          (c \notin Holders /\ c \in Holders' /\ queue # <<>>) => c = Head(queue)]_vars

(***************************************************************************)
(* The wait queue never exceeds maxQueueSize (bulkhead.ts:12: the barrier  *)
(* limits "maximum concurrent operations and queue depth").                *)
(***************************************************************************)
QueueDepthBound == Len(queue) <= MaxQueueSize

(***************************************************************************)
(* The bulkhead's own gauges never report more running or waiting execute  *)
(* calls than there are, resets in the middle of calls included            *)
(* (bulkhead-metrics.ts, the Math.max clamps).                             *)
(***************************************************************************)
MetricsNeverOvercount ==
    /\ active <= Cardinality({c \in ExecCallers : pc[c] = "running"})
    /\ queued <= Cardinality({c \in ExecCallers : pc[c] \in {"waiting", "granted", "timedOut"}})

(***************************************************************************)
(* An execute call that waits without a timer (overrideTimeoutMs = 0) is   *)
(* eventually run, however many other calls arrive: the FIFO queue does    *)
(* not starve it (resource-pool.ts, release).                              *)
(***************************************************************************)
PatientServed ==
    \A c \in Patient : pc[c] = "waiting" ~> pc[c] = "running"

=============================================================================
