---------------------- MODULE DeliveryPipeline_proofs ----------------------
(***************************************************************************)
(* Proofs about DeliveryPipeline for any number of deliveries, workers and *)
(* faults and any set of daemons: the state is well formed, and no row     *)
(* says COMPLETED without a payload that the destination took. With the    *)
(* daemons of daemon-setup.ts and no lock expiring, every change of a      *)
(* status is one of the table.  The delivery path implements               *)
(* DeliveryContract, and writes no delivery off.  About Daemons: for any   *)
(* number of hosts, somebody runs the recovery daemon; a stop of the       *)
(* coordinator that has returned, and an alert of the dead letter queue,   *)
(* can be relied on; the gauges of a collection nearly add up.  About      *)
(* Dashboard: the pages show what was asked for and do what was clicked,   *)
(* once.                                                                   *)
(***************************************************************************)
EXTENDS Daemons, Dashboard, DeliveryPipeline, FiniteSetTheorems, TLAPS

WorkerStates == IdleWorkers \cup BusyWorkers
DaemonStates == [phase : {"idle", "loop", "mid"},
                 batch : SUBSET Deliveries, item : SUBSET Deliveries]

\* The property carries itself through every step, once the state is well formed:
\* its second half is what a worker remembers between SendSucceeds and the write.
IInv == TypeOK /\ NoPhantomCompletion

-----------------------------------------------------------------------------
(* Facts about the parts of the state *)

\* A worker that is not idle carries a delivery and a plan.
LEMMA BusyFacts ==
    ASSUME TypeOK, NEW w \in Workers, worker[w].pc # "idle"
    PROVE  /\ worker[w] \in BusyWorkers
           /\ worker[w].delivery \in Deliveries
           /\ worker[w].plan \in Plans
           /\ worker[w].pc \in Steps
           /\ worker[w].caught \in BOOLEAN
<1>1. worker[w] \in IdleWorkers \cup BusyWorkers
  BY DEF TypeOK
<1>2. worker[w] \in BusyWorkers
  BY <1>1 DEF IdleWorkers
<1>3. QED
  BY <1>2 DEF BusyWorkers

\* The executor goes on to its next await.
LEMMA GotoFacts ==
    ASSUME TypeOK, NEW w \in Workers, worker[w].pc # "idle",
           NEW step \in Steps, Goto(w, step)
    PROVE  /\ worker' \in [Workers -> WorkerStates]
           /\ worker'[w].delivery = worker[w].delivery
           /\ worker'[w].plan = worker[w].plan
           /\ \A v \in Workers \ {w} : worker'[v] = worker[v]
<1>1. worker \in [Workers -> WorkerStates] /\ worker[w] \in BusyWorkers
  BY BusyFacts DEF TypeOK, WorkerStates
<1>2. worker' = [worker EXCEPT ![w] = [worker[w] EXCEPT !.pc = step]]
  BY DEF Goto
<1> DEFINE r == [worker[w] EXCEPT !.pc = step]
<1>3. r \in BusyWorkers /\ r.delivery = worker[w].delivery /\ r.plan = worker[w].plan
  BY <1>1 DEF BusyWorkers
<1>4. worker'[w] = r
  BY <1>1, <1>2
<1> HIDE DEF r
<1>5. worker' = [worker EXCEPT ![w] = r]
  BY <1>2 DEF r
<1>6. QED
  BY <1>1, <1>3, <1>4, <1>5 DEF WorkerStates

\* The executor decides on an outcome.
LEMMA PlannedFacts ==
    ASSUME TypeOK, NEW w \in Workers, worker[w].pc # "idle",
           NEW plan \in Plans, NEW caught \in BOOLEAN, Planned(w, plan, caught)
    PROVE  /\ worker' \in [Workers -> WorkerStates]
           /\ worker'[w].delivery = worker[w].delivery
           /\ worker'[w].plan = plan
           /\ \A v \in Workers \ {w} : worker'[v] = worker[v]
<1>1. worker \in [Workers -> WorkerStates] /\ worker[w] \in BusyWorkers
  BY BusyFacts DEF TypeOK, WorkerStates
<1> DEFINE r == [worker[w] EXCEPT !.pc = "record", !.plan = plan, !.caught = caught]
<1>2. worker' = [worker EXCEPT ![w] = r]
  BY <1>1 DEF Planned
<1>3. r \in BusyWorkers /\ r.delivery = worker[w].delivery /\ r.plan = plan
  BY <1>1 DEF BusyWorkers, Steps
<1> HIDE DEF r
<1>4. worker'[w] = r
  BY <1>1, <1>2
<1>5. QED
  BY <1>1, <1>2, <1>3, <1>4 DEF WorkerStates

\* The job is over.
LEMMA DoneFacts ==
    ASSUME TypeOK, NEW w \in Workers, Done(w)
    PROVE  /\ worker' \in [Workers -> WorkerStates]
           /\ worker'[w].pc = "idle"
           /\ \A v \in Workers \ {w} : worker'[v] = worker[v]
<1>1. Idle \in WorkerStates /\ Idle.pc = "idle"
  BY DEF Idle, WorkerStates, IdleWorkers
<1>2. QED
  BY <1>1 DEF Done, TypeOK, WorkerStates

\* A status is written.
LEMMA SetStatusFacts ==
    ASSUME TypeOK, NEW d \in Deliveries, NEW s \in Statuses, SetStatus(d, s)
    PROVE  /\ row' \in [Deliveries -> Rows]
           /\ row'[d].status = s
           /\ \A e \in Deliveries \ {d} : row'[e] = row[e]
<1>1. row \in [Deliveries -> Rows] /\ row[d] \in Rows
  BY DEF TypeOK
<1> DEFINE r == [row[d] EXCEPT !.status = s, !.stale = FALSE]
<1>2. row' = [row EXCEPT ![d] = r]
  BY <1>1 DEF SetStatus
<1>3. r \in Rows /\ r.status = s
  BY <1>1 DEF Rows
<1> HIDE DEF r
<1>4. QED
  BY <1>1, <1>2, <1>3

\* A flag of a row changes and its status does not.
LEMMA AgeFacts ==
    ASSUME TypeOK, NEW d \in Deliveries, NEW b \in BOOLEAN,
           \/ row' = [row EXCEPT ![d].stale = b]
           \/ row' = [row EXCEPT ![d].due = b]
    PROVE  /\ row' \in [Deliveries -> Rows]
           /\ \A e \in Deliveries : row'[e].status = row[e].status
<1>1. row \in [Deliveries -> Rows] /\ row[d] \in Rows
  BY DEF TypeOK
<1>2. PICK r \in Rows : row' = [row EXCEPT ![d] = r] /\ r.status = row[d].status
  <2>1. CASE row' = [row EXCEPT ![d].stale = b]
    <3>1. [row[d] EXCEPT !.stale = b] \in Rows
      BY <1>1 DEF Rows
    <3>2. [row[d] EXCEPT !.stale = b].status = row[d].status
      BY <1>1 DEF Rows
    <3>3. QED
      BY <2>1, <3>1, <3>2
  <2>2. CASE row' = [row EXCEPT ![d].due = b]
    <3>1. [row[d] EXCEPT !.due = b] \in Rows
      BY <1>1 DEF Rows
    <3>2. [row[d] EXCEPT !.due = b].status = row[d].status
      BY <1>1 DEF Rows
    <3>3. QED
      BY <2>2, <3>1, <3>2
  <2>3. QED
    BY <2>1, <2>2
<1>3. QED
  BY <1>1, <1>2

LEMMA AddJobFacts ==
    ASSUME TypeOK, NEW d \in Deliveries, AddJob(d)
    PROVE  jobs' \in [Deliveries -> 0..MaxJobs]
BY PipelineAssumption DEF TypeOK, AddJob

\* The destination takes the payload: the count never falls.
LEMMA AcceptFacts ==
    ASSUME TypeOK, NEW d \in Deliveries, Accept(d)
    PROVE  /\ accepted' \in [Deliveries -> 0..MaxAccepted]
           /\ accepted'[d] > 0
           /\ \A e \in Deliveries : accepted[e] > 0 => accepted'[e] > 0
BY PipelineAssumption DEF TypeOK, Accept

-----------------------------------------------------------------------------
(* The inductive invariant *)

LEMMA IInvInit == Init => IInv
<1> SUFFICES ASSUME Init PROVE IInv
  OBVIOUS
<1>1. row \in [Deliveries -> Rows] /\ \A d \in Deliveries : row[d].status = "PENDING"
  BY DEF Init, Rows, Statuses
<1>2. jobs \in [Deliveries -> 0..MaxJobs]
  BY PipelineAssumption DEF Init
<1>3. /\ worker \in [Workers -> IdleWorkers \cup BusyWorkers]
      /\ \A w \in Workers : worker[w].pc = "idle"
  BY DEF Init, Idle, IdleWorkers
<1>4. daemon \in [AllDaemons -> DaemonStates]
  BY DEF Init, Resting, DaemonStates
<1>5. /\ accepted \in [Deliveries -> 0..MaxAccepted] /\ faults \in 0..MaxFaults
      /\ routeJobs \subseteq RouteJobs
  BY PipelineAssumption DEF Init
<1>6. QED
  BY <1>1, <1>2, <1>3, <1>4, <1>5 DEF IInv, TypeOK, NoPhantomCompletion, DaemonStates

\* What a worker's step may do: its worker ends the job, keeps its plan, plans
\* something else than COMPLETED, or has seen the payload taken; rows become
\* COMPLETED only where the payload was taken.
LEMMA HonestStep ==
    ASSUME IInv, TypeOK', NEW w \in Workers,
           \A v \in Workers \ {w} : worker'[v] = worker[v],
           \/ worker'[w].pc = "idle"
           \/ worker'[w].plan # "COMPLETED"
           \/ accepted'[worker'[w].delivery] > 0
           \/ /\ worker[w].pc # "idle"
              /\ worker'[w].plan = worker[w].plan
              /\ worker'[w].delivery = worker[w].delivery,
           \A d \in Deliveries : accepted[d] > 0 => accepted'[d] > 0,
           \A d \in Deliveries : row'[d].status = "COMPLETED" =>
                 (row[d].status = "COMPLETED" \/ accepted[d] > 0)
    PROVE  IInv'
<1>1. ASSUME NEW d \in Deliveries, row'[d].status = "COMPLETED" PROVE accepted'[d] > 0
  BY <1>1 DEF IInv, NoPhantomCompletion
<1>2. ASSUME NEW v \in Workers, worker'[v].pc # "idle", worker'[v].plan = "COMPLETED"
      PROVE  accepted'[worker'[v].delivery] > 0
  <2>1. CASE v # w
    <3>1. worker'[v] = worker[v] /\ worker[v].pc # "idle" /\ worker[v].plan = "COMPLETED"
      BY <1>2, <2>1
    <3>2. worker[v].delivery \in Deliveries
      BY <3>1, BusyFacts DEF IInv
    <3>3. QED
      BY <3>1, <3>2 DEF IInv, NoPhantomCompletion
  <2>2. CASE v = w
    <3>1. CASE accepted'[worker'[w].delivery] > 0
      BY <2>2, <3>1
    <3>2. CASE /\ worker[w].pc # "idle"
               /\ worker'[w].plan = worker[w].plan
               /\ worker'[w].delivery = worker[w].delivery
      <4>1. worker[w].delivery \in Deliveries
        BY <3>2, BusyFacts DEF IInv
      <4>2. QED
        BY <1>2, <2>2, <3>2, <4>1 DEF IInv, NoPhantomCompletion
    <3>3. QED
      BY <1>2, <2>2, <3>1, <3>2
  <2>3. QED
    BY <2>1, <2>2
<1>3. QED
  BY <1>1, <1>2 DEF IInv, NoPhantomCompletion

\* What a daemon's step may do: it touches no worker and completes no row.
LEMMA DaemonHonest ==
    ASSUME IInv, TypeOK', UNCHANGED <<worker, accepted>>,
           \A d \in Deliveries : row'[d].status = "COMPLETED" => row[d].status = "COMPLETED"
    PROVE  IInv'
BY DEF IInv, NoPhantomCompletion

\* A job is taken.
LEMMA TakeKeeps ==
    ASSUME IInv, NEW w \in Workers,
           \/ \E d \in Deliveries : TakeJob(w, d)
           \/ \E j \in RouteJobs : TakeRouteJob(w, j)
    PROVE  IInv'
<1>0. TypeOK
  BY DEF IInv
<1>1. ASSUME NEW d \in Deliveries, TakeJob(w, d) PROVE IInv'
  <2> DEFINE r == [pc |-> "markRead", delivery |-> d, plan |-> "FAILED_DLQ", caught |-> FALSE]
  <2>1. r \in BusyWorkers /\ r.plan # "COMPLETED"
    BY DEF BusyWorkers, Steps, Plans
  <2>2. worker' = [worker EXCEPT ![w] = r]
    BY <1>1 DEF TakeJob
  <2> HIDE DEF r
  <2>3. /\ worker' \in [Workers -> IdleWorkers \cup BusyWorkers]
        /\ worker'[w] = r
        /\ \A v \in Workers \ {w} : worker'[v] = worker[v]
    BY <1>0, <2>1, <2>2 DEF TypeOK
  <2>4. jobs' \in [Deliveries -> 0..MaxJobs]
    BY <1>0, <1>1, PipelineAssumption DEF TypeOK, TakeJob
  <2>5. TypeOK' /\ UNCHANGED <<row, accepted>>
    BY <1>0, <1>1, <2>3, <2>4 DEF TypeOK, TakeJob
  <2>6. QED
    BY <2>1, <2>3, <2>5, HonestStep
<1>2. ASSUME NEW j \in RouteJobs, TakeRouteJob(w, j) PROVE IInv'
  <2>1. TypeOK' /\ UNCHANGED <<row, worker, accepted>>
    BY <1>0, <1>2 DEF TypeOK, TakeRouteJob
  <2>2. QED
    BY <2>1, DaemonHonest
<1>3. QED
  BY <1>1, <1>2

\* The steps that only move the worker on: reads and the breaker's verdict.
LEMMA MoveKeeps ==
    ASSUME IInv, NEW w \in Workers, worker[w].pc # "idle",
           UNCHANGED <<row, routeJobs, daemon, accepted>>,
           jobs' \in [Deliveries -> 0..MaxJobs], faults' \in 0..MaxFaults,
           \/ \E step \in Steps : Goto(w, step)
           \/ \E plan \in Plans \ {"COMPLETED"}, caught \in BOOLEAN : Planned(w, plan, caught)
           \/ Done(w)
    PROVE  IInv'
<1>0. TypeOK
  BY DEF IInv
<1>1. worker' \in [Workers -> WorkerStates] => TypeOK'
  BY <1>0 DEF TypeOK, WorkerStates
<1>2. ASSUME NEW step \in Steps, Goto(w, step) PROVE IInv'
  BY <1>0, <1>1, <1>2, GotoFacts, HonestStep
<1>3. ASSUME NEW plan \in Plans \ {"COMPLETED"}, NEW caught \in BOOLEAN,
             Planned(w, plan, caught)
      PROVE  IInv'
  BY <1>0, <1>1, <1>3, PlannedFacts, HonestStep
<1>4. CASE Done(w)
  BY <1>0, <1>1, <1>4, DoneFacts, HonestStep
<1>5. QED
  BY <1>2, <1>3, <1>4

\* An exception is one of the moves above.
LEMMA RaiseFacts ==
    ASSUME NEW w, NEW retryable \in BOOLEAN, Raise(w, retryable)
    PROVE  \/ \E plan \in Plans \ {"COMPLETED"}, caught \in BOOLEAN : Planned(w, plan, caught)
           \/ Done(w)
<1>1. {"SCHEDULED_RETRY", "FAILED_DLQ"} \subseteq Plans \ {"COMPLETED"}
  BY DEF Plans
<1>2. CASE worker[w].caught
  BY <1>2 DEF Raise
<1>3. CASE ~worker[w].caught
  BY <1>1, <1>3 DEF Raise
<1>4. QED
  BY <1>2, <1>3

\* The executor, from await to await.
LEMMA ExecutorKeeps ==
    ASSUME IInv, NEW w \in Workers, ExecutorStep(w)
    PROVE  IInv'
<1>0. TypeOK
  BY DEF IInv
<1>1. /\ worker[w].pc # "idle"
      /\ UNCHANGED <<jobs, routeJobs, daemon, faults>>
  BY DEF ExecutorStep, At, MarkRead, MarkWrite, BreakerOpen, BreakerClosed, SendSucceeds,
     SendFails, SendThrows, Record, FinishRead, MarkCompleted, ScheduleRetry,
     MoveToDeadLetterQueue
<1>2. /\ worker[w].delivery \in Deliveries /\ worker[w].plan \in Plans
      /\ worker[w].caught \in BOOLEAN
  BY <1>0, <1>1, BusyFacts
<1>3. /\ jobs' \in [Deliveries -> 0..MaxJobs] /\ faults' \in 0..MaxFaults
      /\ routeJobs' \subseteq RouteJobs
      /\ daemon' \in [AllDaemons -> DaemonStates]
  BY <1>0, <1>1 DEF TypeOK, DaemonStates
<1>4. /\ {"markWrite", "check", "send", "finishRead", "finishWrite"} \subseteq Steps
      /\ {"SCHEDULED_RETRY", "FAILED_DLQ"} \subseteq Plans \ {"COMPLETED"}
      /\ "COMPLETED" \in Plans
      /\ {"PROCESSING", "COMPLETED", "SCHEDULED_RETRY"} \subseteq Statuses
  BY DEF Steps, Plans, Statuses
<1>5. (/\ row' \in [Deliveries -> Rows] /\ worker' \in [Workers -> WorkerStates]
       /\ accepted' \in [Deliveries -> 0..MaxAccepted]) => TypeOK'
  BY <1>3 DEF TypeOK, WorkerStates, DaemonStates
<1>6. CASE MarkRead(w) \/ BreakerOpen(w) \/ BreakerClosed(w)
  <2>1. UNCHANGED <<row, accepted>> /\ ((\E step \in Steps : Goto(w, step)) \/ Done(w))
    BY <1>4, <1>6 DEF MarkRead, BreakerOpen, BreakerClosed
  <2>2. QED
    BY <1>1, <1>3, <2>1, MoveKeeps
<1>7. CASE MarkWrite(w)
  <2>1. /\ SetStatus(worker[w].delivery, "PROCESSING") /\ Goto(w, "check")
        /\ UNCHANGED accepted
    BY <1>7 DEF MarkWrite
  <2>2. /\ row' \in [Deliveries -> Rows]
        /\ \A e \in Deliveries : row'[e].status = "COMPLETED" => row[e].status = "COMPLETED"
    BY <1>0, <1>2, <1>4, <2>1, SetStatusFacts
  <2>3. /\ worker' \in [Workers -> WorkerStates]
        /\ worker'[w].delivery = worker[w].delivery /\ worker'[w].plan = worker[w].plan
        /\ \A v \in Workers \ {w} : worker'[v] = worker[v]
    BY <1>0, <1>1, <1>4, <2>1, GotoFacts
  <2>4. TypeOK'
    BY <1>0, <1>5, <2>1, <2>2, <2>3 DEF TypeOK
  <2>5. QED
    BY <1>1, <2>1, <2>2, <2>3, <2>4, HonestStep
<1>8. CASE SendSucceeds(w)
  <2>1. /\ Accept(worker[w].delivery) /\ Planned(w, "COMPLETED", FALSE) /\ UNCHANGED row
    BY <1>8 DEF SendSucceeds
  <2>2. /\ accepted' \in [Deliveries -> 0..MaxAccepted]
        /\ accepted'[worker[w].delivery] > 0
        /\ \A e \in Deliveries : accepted[e] > 0 => accepted'[e] > 0
    BY <1>0, <1>2, <2>1, AcceptFacts
  <2>3. /\ worker' \in [Workers -> WorkerStates]
        /\ worker'[w].delivery = worker[w].delivery
        /\ \A v \in Workers \ {w} : worker'[v] = worker[v]
    BY <1>0, <1>1, <1>4, <2>1, PlannedFacts
  <2>4. TypeOK'
    BY <1>0, <1>5, <2>1, <2>2, <2>3 DEF TypeOK
  <2>5. QED
    BY <2>1, <2>2, <2>3, <2>4, HonestStep
<1>9. CASE SendFails(w)
  <2>1. UNCHANGED row
    BY <1>9 DEF SendFails
  <2>2. PICK plan \in Plans \ {"COMPLETED"} : Planned(w, plan, FALSE)
    BY <1>4, <1>9 DEF SendFails
  <2>3. Accept(worker[w].delivery) \/ UNCHANGED accepted
    BY <1>9 DEF SendFails
  <2>4. /\ accepted' \in [Deliveries -> 0..MaxAccepted]
        /\ \A e \in Deliveries : accepted[e] > 0 => accepted'[e] > 0
    <3>1. CASE Accept(worker[w].delivery)
      BY <1>0, <1>2, <3>1, AcceptFacts
    <3>2. CASE UNCHANGED accepted
      BY <1>0, <3>2 DEF TypeOK
    <3>3. QED
      BY <2>3, <3>1, <3>2
  <2>5. /\ worker' \in [Workers -> WorkerStates]
        /\ worker'[w].plan # "COMPLETED"
        /\ \A v \in Workers \ {w} : worker'[v] = worker[v]
    BY <1>0, <1>1, <2>2, PlannedFacts
  <2>6. TypeOK'
    BY <1>0, <1>5, <2>1, <2>4, <2>5 DEF TypeOK
  <2>7. QED
    BY <2>1, <2>4, <2>5, <2>6, HonestStep
<1>10. CASE SendThrows(w)
  <2>1. /\ UNCHANGED <<row, accepted>>
        /\ \E plan \in Plans \ {"COMPLETED"}, caught \in BOOLEAN : Planned(w, plan, caught)
    BY <1>4, <1>10 DEF SendThrows
  <2>2. QED
    BY <1>1, <1>3, <2>1, MoveKeeps
<1>11. CASE Record(w)
  <2>1. Goto(w, "finishRead") /\ UNCHANGED accepted
    BY <1>11 DEF Record
  <2>2. /\ row' \in [Deliveries -> Rows]
        /\ \A e \in Deliveries : row'[e].status = row[e].status
    <3>1. CASE row' = [row EXCEPT ![worker[w].delivery].stale = FALSE]
      BY <1>0, <1>2, <3>1, AgeFacts
    <3>2. CASE UNCHANGED row
      BY <1>0, <3>2 DEF TypeOK
    <3>3. QED
      BY <1>11, <3>1, <3>2 DEF Record
  <2>3. /\ worker' \in [Workers -> WorkerStates]
        /\ worker'[w].delivery = worker[w].delivery /\ worker'[w].plan = worker[w].plan
        /\ \A v \in Workers \ {w} : worker'[v] = worker[v]
    BY <1>0, <1>1, <1>4, <2>1, GotoFacts
  <2>4. TypeOK'
    BY <1>0, <1>5, <2>1, <2>2, <2>3 DEF TypeOK
  <2>5. QED
    BY <1>1, <2>1, <2>2, <2>3, <2>4, HonestStep
<1>12. CASE FinishRead(w) \/ MoveToDeadLetterQueue(w)
  <2>1. /\ UNCHANGED <<row, accepted>>
        /\ Goto(w, "finishWrite") \/ Raise(w, FALSE) \/ Raise(w, TRUE)
    BY <1>12 DEF FinishRead, MoveToDeadLetterQueue
  <2>2. QED
    BY <1>1, <1>3, <1>4, <2>1, RaiseFacts, MoveKeeps
<1>13. CASE MarkCompleted(w)
  <2>1. /\ worker[w].plan = "COMPLETED"
        /\ SetStatus(worker[w].delivery, "COMPLETED") /\ Done(w) /\ UNCHANGED accepted
    BY <1>13 DEF MarkCompleted
  <2>2. accepted[worker[w].delivery] > 0
    BY <1>1, <2>1 DEF IInv, NoPhantomCompletion
  <2>3. /\ row' \in [Deliveries -> Rows]
        /\ \A e \in Deliveries : row'[e].status = "COMPLETED" =>
              (row[e].status = "COMPLETED" \/ accepted[e] > 0)
    BY <1>0, <1>2, <1>4, <2>1, <2>2, SetStatusFacts
  <2>4. /\ worker' \in [Workers -> WorkerStates] /\ worker'[w].pc = "idle"
        /\ \A v \in Workers \ {w} : worker'[v] = worker[v]
    BY <1>0, <2>1, DoneFacts
  <2>5. TypeOK'
    BY <1>0, <1>5, <2>1, <2>3, <2>4 DEF TypeOK
  <2>6. QED
    BY <2>1, <2>3, <2>4, <2>5, HonestStep
<1>14. CASE ScheduleRetry(w)
  <2> DEFINE r == [status |-> "SCHEDULED_RETRY", stale |-> FALSE, due |-> FALSE]
  <2>1. /\ row' = [row EXCEPT ![worker[w].delivery] = r] /\ Done(w) /\ UNCHANGED accepted
    BY <1>14 DEF ScheduleRetry
  <2>2. r \in Rows /\ r.status # "COMPLETED"
    BY <1>4 DEF Rows
  <2> HIDE DEF r
  <2>3. /\ row' \in [Deliveries -> Rows]
        /\ \A e \in Deliveries : row'[e].status = "COMPLETED" => row[e].status = "COMPLETED"
    BY <1>0, <1>2, <2>1, <2>2 DEF TypeOK
  <2>4. /\ worker' \in [Workers -> WorkerStates] /\ worker'[w].pc = "idle"
        /\ \A v \in Workers \ {w} : worker'[v] = worker[v]
    BY <1>0, <2>1, DoneFacts
  <2>5. TypeOK'
    BY <1>0, <1>5, <2>1, <2>3, <2>4 DEF TypeOK
  <2>6. QED
    BY <2>1, <2>3, <2>4, <2>5, HonestStep
<1>15. QED
  BY <1>6, <1>7, <1>8, <1>9, <1>10, <1>11, <1>12, <1>13, <1>14 DEF ExecutorStep

\* Failed queries, crashes and lost locks of a worker.
LEMMA WorkerFaultKeeps ==
    ASSUME IInv, NEW w \in Workers, QueryFails(w) \/ Crash(w) \/ LockExpires(w)
    PROVE  IInv'
<1>0. TypeOK
  BY DEF IInv
<1>1. /\ faults' \in 0..MaxFaults /\ worker[w].pc # "idle"
      /\ UNCHANGED <<row, routeJobs, daemon, accepted>>
  <2>1. faults \in 0..MaxFaults /\ faults < MaxFaults /\ faults' = faults + 1
    BY <1>0 DEF TypeOK, Fault, QueryFails, Crash, LockExpires
  <2>2. faults' \in 0..MaxFaults
    BY <2>1, PipelineAssumption
  <2>3. QED
    BY <2>2 DEF QueryFails, Crash, LockExpires, At
<1>2. worker[w].delivery \in Deliveries
  BY <1>0, <1>1, BusyFacts
<1>3. CASE QueryFails(w)
  <2>1. UNCHANGED jobs /\ (Goto(w, "check") \/ Raise(w, TRUE))
    BY <1>3 DEF QueryFails
  <2>2. jobs' \in [Deliveries -> 0..MaxJobs] /\ "check" \in Steps
    BY <1>0, <2>1 DEF TypeOK, Steps
  <2>3. QED
    BY <1>1, <2>1, <2>2, RaiseFacts, MoveKeeps
<1>4. jobs' \in [Deliveries -> 0..MaxJobs]
  <2>1. CASE AddJob(worker[w].delivery)
    BY <1>0, <1>2, <2>1, AddJobFacts
  <2>2. CASE UNCHANGED jobs
    BY <1>0, <2>2 DEF TypeOK
  <2>3. QED
    BY <2>1, <2>2 DEF QueryFails, Crash, LockExpires
<1>5. CASE Crash(w)
  BY <1>1, <1>4, <1>5, MoveKeeps DEF Crash
<1>6. CASE LockExpires(w)
  <2>1. TypeOK' /\ UNCHANGED <<row, worker, accepted>>
    BY <1>0, <1>1, <1>4, <1>6 DEF TypeOK, LockExpires
  <2>2. QED
    BY <2>1, DaemonHonest
<1>7. QED
  BY <1>3, <1>5, <1>6

-----------------------------------------------------------------------------
(* The daemons *)

LEMMA RestingFacts ==
    /\ Resting \in DaemonStates
    /\ \A b \in SUBSET Deliveries : Remaining(b) \in DaemonStates
<1>1. Resting \in DaemonStates
  BY DEF Resting, DaemonStates
<1>2. ASSUME NEW b \in SUBSET Deliveries PROVE Remaining(b) \in DaemonStates
  BY <1>1, <1>2 DEF Remaining, DaemonStates
<1>3. QED
  BY <1>1, <1>2

\* A daemon's state is replaced by another one of its states.
LEMMA DaemonUpdate ==
    ASSUME TypeOK, NEW k \in AllDaemons, NEW s \in DaemonStates,
           daemon' = [daemon EXCEPT ![k] = s]
    PROVE  daemon' \in [AllDaemons -> DaemonStates]
BY DEF TypeOK, DaemonStates

LEMMA DaemonParts ==
    ASSUME TypeOK, NEW k \in AllDaemons
    PROVE  /\ daemon[k] \in DaemonStates
           /\ daemon[k].batch \subseteq Deliveries
           /\ daemon[k].item \subseteq Deliveries
<1>1. daemon[k] \in DaemonStates
  BY DEF TypeOK, DaemonStates
<1>2. QED
  BY <1>1 DEF DaemonStates

LEMMA AfterSyncFacts ==
    ASSUME TypeOK, NEW d \in Deliveries, AfterSync(d)
    PROVE  daemon' \in [AllDaemons -> DaemonStates]
<1>0. "sync" \in AllDaemons
  BY DEF AllDaemons
<1>1. daemon["sync"] \in DaemonStates
  BY <1>0, DaemonParts
<1> DEFINE r == [phase |-> "mid", batch |-> {}, item |-> daemon["sync"].item \ {d}]
<1>2. r \in DaemonStates
  BY <1>1 DEF DaemonStates
<1>3. daemon' = [daemon EXCEPT !["sync"] = IF daemon["sync"].item = {d} THEN Resting ELSE r]
  BY <1>0 DEF AfterSync, TypeOK
<1> HIDE DEF r
<1>4. (IF daemon["sync"].item = {d} THEN Resting ELSE r) \in DaemonStates
  BY <1>2, RestingFacts
<1>5. QED
  BY <1>0, <1>3, <1>4, DaemonUpdate

LEMMA BeginEndFacts ==
    ASSUME TypeOK, NEW k \in AllDaemons, NEW d \in Deliveries, Begin(k, d) \/ End(k, d)
    PROVE  daemon' \in [AllDaemons -> DaemonStates]
<1>1. daemon[k].batch \subseteq Deliveries /\ daemon[k].batch \ {d} \subseteq Deliveries
  BY DaemonParts
<1>2. CASE Begin(k, d)
  <2> DEFINE r == [phase |-> "mid", batch |-> daemon[k].batch \ {d}, item |-> {d}]
  <2>1. r \in DaemonStates
    BY <1>1 DEF DaemonStates
  <2>2. daemon' = [daemon EXCEPT ![k] = r]
    BY <1>2 DEF Begin, TypeOK
  <2> HIDE DEF r
  <2>3. QED
    BY <2>1, <2>2, DaemonUpdate
<1>3. CASE End(k, d)
  <2>1. daemon' = [daemon EXCEPT ![k] = Remaining(daemon[k].batch)]
    BY <1>3 DEF End, TypeOK
  <2>2. Remaining(daemon[k].batch) \in DaemonStates
    BY <1>1, RestingFacts
  <2>3. QED
    BY <2>1, <2>2, DaemonUpdate
<1>4. QED
  BY <1>2, <1>3

LEMMA ScanKeeps ==
    ASSUME IInv, NEW k \in AllDaemons, Scan(k)
    PROVE  IInv'
<1>0. TypeOK
  BY DEF IInv
<1>1. Selected(k) \subseteq Deliveries
  BY DEF Selected, AllDaemons
<1> DEFINE r == [phase |-> "loop", batch |-> Selected(k), item |-> {}]
<1>2. r \in DaemonStates
  BY <1>1 DEF DaemonStates
<1>3. daemon' = [daemon EXCEPT ![k] = r]
  BY DEF Scan
<1> HIDE DEF r
<1>4. daemon' \in [AllDaemons -> DaemonStates]
  BY <1>0, <1>2, <1>3, DaemonUpdate
<1>5. TypeOK' /\ UNCHANGED <<row, worker, accepted>>
  BY <1>0, <1>4 DEF Scan, TypeOK, DaemonStates
<1>6. QED
  BY <1>5, DaemonHonest

LEMMA DaemonFailsKeeps ==
    ASSUME IInv, NEW k \in AllDaemons, DaemonFails(k)
    PROVE  IInv'
<1>0. TypeOK
  BY DEF IInv
<1>1. faults' \in 0..MaxFaults
  <2>1. faults \in 0..MaxFaults /\ faults < MaxFaults /\ faults' = faults + 1
    BY <1>0 DEF TypeOK, Fault, DaemonFails
  <2>2. QED
    BY <2>1, PipelineAssumption
<1>2. /\ daemon[k] \in DaemonStates /\ daemon[k].batch \subseteq Deliveries
      /\ daemon[k].item \subseteq Deliveries
  BY <1>0, DaemonParts
<1>3. daemon' \in [AllDaemons -> DaemonStates]
  <2>1. CASE daemon' = [daemon EXCEPT ![k] = Resting]
    BY <1>0, <2>1, RestingFacts, DaemonUpdate
  <2>2. ASSUME NEW d \in daemon[k].batch,
               daemon' = [daemon EXCEPT ![k] = Remaining(@.batch \ {d})]
        PROVE  daemon' \in [AllDaemons -> DaemonStates]
    <3>1. daemon' = [daemon EXCEPT ![k] = Remaining(daemon[k].batch \ {d})]
      BY <1>0, <2>2 DEF TypeOK
    <3>2. Remaining(daemon[k].batch \ {d}) \in DaemonStates
      BY <1>2, RestingFacts
    <3>3. QED
      BY <1>0, <3>1, <3>2, DaemonUpdate
  <2>3. CASE daemon' = [daemon EXCEPT ![k] = Remaining(@.batch)]
    <3>1. daemon' = [daemon EXCEPT ![k] = Remaining(daemon[k].batch)]
      BY <1>0, <2>3 DEF TypeOK
    <3>2. Remaining(daemon[k].batch) \in DaemonStates
      BY <1>2, RestingFacts
    <3>3. QED
      BY <1>0, <3>1, <3>2, DaemonUpdate
  <2>4. ASSUME NEW d \in daemon[k].item, AfterSync(d)
        PROVE  daemon' \in [AllDaemons -> DaemonStates]
    BY <1>0, <1>2, <2>4, AfterSyncFacts
  <2>5. CASE daemon' = [daemon EXCEPT ![k].batch = {}]
    <3> DEFINE r == [daemon[k] EXCEPT !.batch = {}]
    <3>1. r \in DaemonStates
      BY <1>2 DEF DaemonStates
    <3>2. daemon' = [daemon EXCEPT ![k] = r]
      BY <1>0, <2>5 DEF TypeOK
    <3> HIDE DEF r
    <3>3. QED
      BY <1>0, <3>1, <3>2, DaemonUpdate
  <2>6. QED
    BY <2>1, <2>2, <2>3, <2>4, <2>5 DEF DaemonFails
<1>4. TypeOK' /\ UNCHANGED <<row, worker, accepted>>
  BY <1>0, <1>1, <1>3 DEF DaemonFails, TypeOK, DaemonStates
<1>5. QED
  BY <1>4, DaemonHonest

\* The daemons that write rows write PENDING.
LEMMA DaemonStepKeeps ==
    ASSUME IInv, NEW d \in Deliveries, DaemonStep(d)
    PROVE  IInv'
<1>0. TypeOK /\ AllDaemons = {"delayed", "stale", "sync", "reconstruct"}
  BY DEF IInv, AllDaemons
<1>1. CASE DelayedReset(d) \/ StaleReset(d)
  <2>1. /\ SetStatus(d, "PENDING")
        /\ UNCHANGED <<jobs, routeJobs, worker, accepted, faults>>
        /\ Begin("delayed", d) \/ End("stale", d)
    BY <1>1 DEF DelayedReset, StaleReset
  <2>2. "PENDING" \in Statuses
    BY DEF Statuses
  <2>3. /\ row' \in [Deliveries -> Rows]
        /\ \A e \in Deliveries : row'[e].status = "COMPLETED" => row[e].status = "COMPLETED"
    BY <1>0, <2>1, <2>2, SetStatusFacts
  <2>4. daemon' \in [AllDaemons -> DaemonStates]
    BY <1>0, <2>1, BeginEndFacts
  <2>5. TypeOK'
    BY <1>0, <2>1, <2>3, <2>4 DEF TypeOK, DaemonStates
  <2>6. QED
    BY <2>1, <2>3, <2>5, DaemonHonest
<1>2. CASE DelayedEnqueue(d) \/ StaleEnqueue(d)
  <2>1. /\ routeJobs' = routeJobs \cup {<<d, "auto">>}
        /\ UNCHANGED <<row, jobs, worker, accepted, faults>>
        /\ End("delayed", d) \/ Begin("stale", d)
    BY <1>2 DEF DelayedEnqueue, StaleEnqueue
  <2>2. daemon' \in [AllDaemons -> DaemonStates]
    BY <1>0, <2>1, BeginEndFacts
  <2>3. TypeOK'
    BY <1>0, <2>1, <2>2 DEF TypeOK, DaemonStates, RouteJobs
  <2>4. QED
    BY <2>1, <2>3, DaemonHonest
<1>3. CASE SyncEnqueue(d)
  <2>1. /\ routeJobs' = routeJobs \cup {<<d, "sync">>} /\ AfterSync(d)
        /\ UNCHANGED <<row, jobs, worker, accepted, faults>>
    BY <1>3 DEF SyncEnqueue
  <2>2. daemon' \in [AllDaemons -> DaemonStates]
    BY <1>0, <2>1, AfterSyncFacts
  <2>3. TypeOK'
    BY <1>0, <2>1, <2>2 DEF TypeOK, DaemonStates, RouteJobs
  <2>4. QED
    BY <2>1, <2>3, DaemonHonest
<1>4. CASE ReconstructEnqueue(d)
  <2> DEFINE r == [daemon["reconstruct"] EXCEPT !.batch = daemon["reconstruct"].batch \ {d}]
  <2>1. AddJob(d) /\ UNCHANGED <<row, routeJobs, worker, accepted, faults>>
    BY <1>4 DEF ReconstructEnqueue
  <2>2. daemon' = [daemon EXCEPT !["reconstruct"] = r]
    BY <1>0, <1>4 DEF ReconstructEnqueue, TypeOK
  <2>3. r \in DaemonStates
    <3>1. daemon["reconstruct"] \in DaemonStates
      BY <1>0, DaemonParts
    <3>2. QED
      BY <3>1 DEF DaemonStates
  <2> HIDE DEF r
  <2>4. daemon' \in [AllDaemons -> DaemonStates]
    BY <1>0, <2>2, <2>3, DaemonUpdate
  <2>5. jobs' \in [Deliveries -> 0..MaxJobs]
    BY <1>0, <2>1, AddJobFacts
  <2>6. TypeOK'
    BY <1>0, <2>1, <2>4, <2>5 DEF TypeOK, DaemonStates
  <2>7. QED
    BY <2>1, <2>6, DaemonHonest
<1>5. QED
  BY <1>1, <1>2, <1>3, <1>4 DEF DaemonStep, DelayedStep, StaleStep

\* The steps of a cycle that concern the whole batch.
LEMMA BatchStepKeeps ==
    ASSUME IInv, SyncLook \/ RemoveOrphaned
    PROVE  IInv'
<1>0. TypeOK /\ AllDaemons = {"delayed", "stale", "sync", "reconstruct"}
  BY DEF IInv, AllDaemons
<1>1. CASE SyncLook
  <2> DEFINE missing == {d \in daemon["sync"].batch : <<d, "sync">> \notin routeJobs}
             r == IF missing = {} THEN Resting
                  ELSE [phase |-> "mid", batch |-> {}, item |-> missing]
  <2>1. daemon' = [daemon EXCEPT !["sync"] = r]
    BY <1>1 DEF SyncLook
  <2>2. missing \subseteq Deliveries
    BY <1>0, DaemonParts
  <2> HIDE DEF missing
  <2>3. r \in DaemonStates
    BY <2>2, RestingFacts DEF DaemonStates
  <2> HIDE DEF r
  <2>4. daemon' \in [AllDaemons -> DaemonStates]
    BY <1>0, <2>1, <2>3, DaemonUpdate
  <2>5. TypeOK' /\ UNCHANGED <<row, worker, accepted>>
    BY <1>0, <1>1, <2>4 DEF TypeOK, DaemonStates, SyncLook
  <2>6. QED
    BY <2>5, DaemonHonest
<1>2. CASE RemoveOrphaned
  <2>1. daemon' \in [AllDaemons -> DaemonStates]
    BY <1>0, <1>2, RestingFacts, DaemonUpdate DEF RemoveOrphaned
  <2>2. routeJobs' \subseteq RouteJobs
    BY <1>0, <1>2 DEF RemoveOrphaned, TypeOK
  <2>3. TypeOK' /\ UNCHANGED <<row, worker, accepted>>
    BY <1>0, <1>2, <2>1, <2>2 DEF TypeOK, DaemonStates, RemoveOrphaned
  <2>4. QED
    BY <2>3, DaemonHonest
<1>3. QED
  BY <1>1, <1>2

\* The clock.
LEMMA ClockKeeps ==
    ASSUME IInv, NEW d \in Deliveries, RowAges(d) \/ RetryFallsDue(d)
    PROVE  IInv'
<1>0. TypeOK
  BY DEF IInv
<1>1. /\ row' = [row EXCEPT ![d].stale = TRUE] \/ row' = [row EXCEPT ![d].due = TRUE]
      /\ UNCHANGED <<jobs, routeJobs, worker, daemon, accepted, faults>>
  BY DEF RowAges, RetryFallsDue
<1>2. row' \in [Deliveries -> Rows] /\ \A e \in Deliveries : row'[e].status = row[e].status
  BY <1>0, <1>1, AgeFacts
<1>3. TypeOK'
  BY <1>0, <1>1, <1>2 DEF TypeOK
<1>4. QED
  BY <1>1, <1>2, <1>3, DaemonHonest

LEMMA IInvInductive == IInv /\ [Next]_vars => IInv'
<1> SUFFICES ASSUME IInv, [Next]_vars PROVE IInv'
  OBVIOUS
<1>1. CASE UNCHANGED vars
  BY <1>1 DEF vars, IInv, TypeOK, NoPhantomCompletion
<1>2. ASSUME NEW w \in Workers, WorkerStep(w) PROVE IInv'
  BY <1>2, TakeKeeps, ExecutorKeeps, WorkerFaultKeeps DEF WorkerStep
<1>3. ASSUME NEW k \in AllDaemons, Scan(k) \/ DaemonFails(k) PROVE IInv'
  BY <1>3, ScanKeeps, DaemonFailsKeeps
<1>4. ASSUME NEW d \in Deliveries, DaemonStep(d) \/ RowAges(d) \/ RetryFallsDue(d)
      PROVE  IInv'
  BY <1>4, DaemonStepKeeps, ClockKeeps
<1>5. CASE SyncLook \/ RemoveOrphaned
  BY <1>5, BatchStepKeeps
<1>6. QED
  BY <1>1, <1>2, <1>3, <1>4, <1>5 DEF Next

-----------------------------------------------------------------------------
(* The theorems *)

(***************************************************************************)
(* Every step of the workers, the daemons, the faults and the clock keeps  *)
(* rows, queues, workers and daemon cycles in their domains: a busy worker *)
(* always carries a delivery and a plan of delivery-executor.ts.           *)
(***************************************************************************)
THEOREM TypeCorrect == Spec => []TypeOK
<1>1. IInv => TypeOK
  BY DEF IInv
<1>2. QED
  BY IInvInit, IInvInductive, <1>1, PTL DEF Spec

(***************************************************************************)
(* For any number of rows, workers and faults and any set of daemons, a    *)
(* row says COMPLETED only if its destination took the payload             *)
(* (delivery-executor.ts:141-153), although no write of a status is        *)
(* conditional on what the row says at that moment.                        *)
(***************************************************************************)
THEOREM CompletionsAreReal == Spec => []NoPhantomCompletion
<1>1. IInv => NoPhantomCompletion
  BY DEF IInv
<1>2. QED
  BY IInvInit, IInvInductive, <1>1, PTL DEF Spec

-----------------------------------------------------------------------------
(* The deployment of daemon-setup.ts *)

(***************************************************************************)
(* Of the four daemons daemon-setup.ts starts DelayedQueueProcessor and    *)
(* StateSyncDaemon; no lock of a job expires under its worker.  Queries    *)
(* and daemons may fail and workers crash.                                 *)
(***************************************************************************)
OneWorkerPerJob ==
    /\ Daemons \cap {"stale", "reconstruct"} = {}
    /\ "lock" \notin FaultKinds

Busy(w) == worker[w].pc # "idle"

\* A delivery has one job that waits, or one worker, or neither.
Single ==
    /\ \A d \in Deliveries : jobs[d] <= 1
    /\ \A w \in Workers : Busy(w) => jobs[worker[w].delivery] = 0
    /\ \A v, w \in Workers : Busy(v) /\ Busy(w) /\ worker[v].delivery = worker[w].delivery => v = w

\* What a worker read of its row before it writes is still so.
ReadsHold ==
    \A w \in Workers :
        /\ worker[w].pc = "markWrite" => CanTransition(row[worker[w].delivery].status, "PROCESSING")
        /\ worker[w].pc = "finishWrite" => CanTransition(row[worker[w].delivery].status, worker[w].plan)

\* Nobody works on a row that waits for its retry, and none that
\* DelayedQueueProcessor has read as such has changed.
RetriesRest ==
    /\ \A d \in Deliveries : row[d].status = "SCHEDULED_RETRY" =>
         jobs[d] = 0 /\ \A w \in Workers : Busy(w) => worker[w].delivery # d
    /\ \A d \in daemon["delayed"].batch : row[d].status = "SCHEDULED_RETRY"

Alone ==
    /\ Single /\ ReadsHold /\ RetriesRest
    /\ daemon["stale"].phase = "idle" /\ daemon["reconstruct"].phase = "idle"

LEMMA AloneInit == Init => Alone
<1> SUFFICES ASSUME Init PROVE Alone
  OBVIOUS
<1>1. /\ \A w \in Workers : worker[w].pc = "idle"
      /\ \A d \in Deliveries : row[d].status = "PENDING" /\ jobs[d] \in {0, 1}
      /\ \A k \in AllDaemons : daemon[k].phase = "idle" /\ daemon[k].batch = {}
  BY DEF Init, Idle, Resting
<1>2. {"delayed", "stale", "reconstruct"} \subseteq AllDaemons
  BY DEF AllDaemons
<1>3. QED
  BY <1>1, <1>2 DEF Alone, Single, ReadsHold, RetriesRest, Busy

\* Where the executor's moves lead.
LEMMA MovesTo ==
    ASSUME TypeOK, NEW w \in Workers, Busy(w)
    PROVE  /\ \A step \in Steps : Goto(w, step) =>
                /\ worker'[w].pc = step /\ worker'[w].delivery = worker[w].delivery
                /\ worker'[w].plan = worker[w].plan /\ \A v \in Workers \ {w} : worker'[v] = worker[v]
           /\ \A plan \in Plans, caught \in BOOLEAN : Planned(w, plan, caught) =>
                /\ worker'[w].pc = "record" /\ worker'[w].delivery = worker[w].delivery
                /\ \A v \in Workers \ {w} : worker'[v] = worker[v]
           /\ Done(w) => worker'[w].pc = "idle" /\ \A v \in Workers \ {w} : worker'[v] = worker[v]
<1>1. worker \in [Workers -> WorkerStates] /\ worker[w] \in BusyWorkers
  BY BusyFacts DEF TypeOK, WorkerStates, Busy
<1>2. ASSUME NEW step \in Steps, Goto(w, step)
      PROVE  /\ worker'[w].pc = step /\ worker'[w].delivery = worker[w].delivery
             /\ worker'[w].plan = worker[w].plan /\ \A v \in Workers \ {w} : worker'[v] = worker[v]
  <2>1. PICK r : r = [worker[w] EXCEPT !.pc = step]
    OBVIOUS
  <2>2. worker' = [worker EXCEPT ![w] = r]
    BY <1>2, <2>1 DEF Goto
  <2>3. r.pc = step /\ r.delivery = worker[w].delivery /\ r.plan = worker[w].plan
    BY <1>1, <2>1 DEF BusyWorkers
  <2>4. QED
    BY <1>1, <2>2, <2>3
<1>3. ASSUME NEW plan \in Plans, NEW caught \in BOOLEAN, Planned(w, plan, caught)
      PROVE  /\ worker'[w].pc = "record" /\ worker'[w].delivery = worker[w].delivery
             /\ \A v \in Workers \ {w} : worker'[v] = worker[v]
  <2>1. PICK r : r = [worker[w] EXCEPT !.pc = "record", !.plan = plan, !.caught = caught]
    OBVIOUS
  <2>2. worker' = [worker EXCEPT ![w] = r]
    BY <1>1, <1>3, <2>1 DEF Planned
  <2>3. r.pc = "record" /\ r.delivery = worker[w].delivery
    BY <1>1, <2>1 DEF BusyWorkers
  <2>4. QED
    BY <1>1, <2>2, <2>3
<1>4. QED
  BY <1>2, <1>3, DoneFacts

\* A worker's step touches its own row only.
LEMMA WorkerAlone ==
    ASSUME TypeOK, TypeOK', Alone, NEW w \in Workers, Busy(w), UNCHANGED daemon,
           \A v \in Workers \ {w} : worker'[v] = worker[v],
           worker'[w].pc = "idle" \/ (worker'[w].delivery = worker[w].delivery /\ jobs' = jobs),
           \A d \in Deliveries \ {worker[w].delivery} : row'[d].status = row[d].status /\ jobs'[d] = jobs[d],
           jobs'[worker[w].delivery] <= 1,
           worker'[w].pc = "markWrite" => CanTransition(row'[worker[w].delivery].status, "PROCESSING"),
           worker'[w].pc = "finishWrite" => CanTransition(row'[worker[w].delivery].status, worker'[w].plan),
           row'[worker[w].delivery].status = "SCHEDULED_RETRY" => worker'[w].pc = "idle" /\ jobs' = jobs
    PROVE  Alone'
<1>1. PICK d \in Deliveries : d = worker[w].delivery
  BY BusyFacts DEF Busy
<1>2. \A v \in Workers : Busy(v) => worker[v].delivery \in Deliveries
  BY BusyFacts DEF Busy
<1>3. \A v \in Workers : Busy(v) /\ v # w => worker[v].delivery # d
  BY <1>1 DEF Alone, Single
<1>4. jobs[d] = 0 /\ row[d].status # "SCHEDULED_RETRY"
  BY <1>1 DEF Alone, Single, RetriesRest
<1>5. \A v \in Workers : Busy(v)' => v = w \/ Busy(v)
  BY DEF Busy
<1>6. Single'
  <2>1. \A e \in Deliveries : jobs'[e] <= 1
    BY <1>1 DEF Alone, Single
  <2>2. \A v \in Workers : Busy(v)' => jobs'[worker'[v].delivery] = 0
    BY <1>1, <1>2, <1>3, <1>4 DEF Alone, Single, Busy
  <2>3. \A v, u \in Workers : Busy(v)' /\ Busy(u)' /\ worker'[v].delivery = worker'[u].delivery => v = u
    BY <1>1, <1>3 DEF Alone, Single, Busy
  <2>4. QED
    BY <2>1, <2>2, <2>3 DEF Single
<1>7. ReadsHold'
  <2>1. ASSUME NEW v \in Workers, v # w, worker[v].pc \in {"markWrite", "finishWrite"}
        PROVE  /\ worker'[v] = worker[v] /\ row'[worker[v].delivery].status = row[worker[v].delivery].status
    BY <1>1, <1>2, <1>3, <2>1 DEF Busy
  <2>2. ASSUME NEW v \in Workers, v # w
        PROVE  /\ worker'[v].pc = "markWrite" => CanTransition(row'[worker'[v].delivery].status, "PROCESSING")
               /\ worker'[v].pc = "finishWrite" => CanTransition(row'[worker'[v].delivery].status, worker'[v].plan)
    BY <2>1, <2>2 DEF Alone, ReadsHold
  <2>3. /\ worker'[w].pc = "markWrite" => CanTransition(row'[worker'[w].delivery].status, "PROCESSING")
        /\ worker'[w].pc = "finishWrite" => CanTransition(row'[worker'[w].delivery].status, worker'[w].plan)
    OBVIOUS
  <2>4. QED
    BY <2>2, <2>3 DEF ReadsHold, CanTransition
<1>8. RetriesRest'
  <2>1. ASSUME NEW e \in Deliveries, row'[e].status = "SCHEDULED_RETRY"
        PROVE  jobs'[e] = 0 /\ \A v \in Workers : Busy(v)' => worker'[v].delivery # e
    <3>1. CASE e = d
      BY <1>1, <1>3, <1>4, <1>5, <2>1, <3>1 DEF Busy
    <3>2. CASE e # d
      BY <1>1, <1>5, <2>1, <3>2 DEF Alone, RetriesRest, Busy
    <3>3. QED
      BY <3>1, <3>2
  <2>2. daemon["delayed"].batch \subseteq Deliveries
    BY DaemonParts DEF AllDaemons
  <2>3. \A e \in daemon'["delayed"].batch : row'[e].status = "SCHEDULED_RETRY"
    BY <1>1, <1>4, <2>2 DEF Alone, RetriesRest
  <2>4. QED
    BY <2>1, <2>3 DEF RetriesRest
<1>9. QED
  BY <1>6, <1>7, <1>8 DEF Alone

\* The step that LegalTransitions speaks of.
LegalStep ==
    \A d \in Deliveries :
        row'[d].status # row[d].status => row'[d].status \in ValidTransitions[row[d].status]

\* Reads, sends and ends of a job leave the rows' statuses alone.
LEMMA MoveAlone ==
    ASSUME TypeOK, TypeOK', Alone, NEW w \in Workers, Busy(w), UNCHANGED <<jobs, daemon>>,
           \A d \in Deliveries : row'[d].status = row[d].status,
           \/ \E step \in {"check", "send", "finishRead"} : Goto(w, step)
           \/ Goto(w, "markWrite") /\ CanTransition(row[worker[w].delivery].status, "PROCESSING")
           \/ Goto(w, "finishWrite") /\ CanTransition(row[worker[w].delivery].status, worker[w].plan)
           \/ \E plan \in Plans, caught \in BOOLEAN : Planned(w, plan, caught)
           \/ Done(w)
    PROVE  Alone' /\ LegalStep
<1>1. PICK d \in Deliveries : d = worker[w].delivery
  BY BusyFacts DEF Busy
<1>2. {"check", "send", "finishRead", "markWrite", "finishWrite"} \subseteq Steps
  BY DEF Steps
<1>3. /\ \A v \in Workers \ {w} : worker'[v] = worker[v]
      /\ \/ worker'[w].pc = "idle"
         \/ /\ worker'[w].delivery = d
            /\ \/ worker'[w].pc \in {"check", "send", "finishRead", "record"}
               \/ worker'[w].pc = "markWrite" /\ CanTransition(row[d].status, "PROCESSING")
               \/ /\ worker'[w].pc = "finishWrite" /\ worker'[w].plan = worker[w].plan
                  /\ CanTransition(row[d].status, worker[w].plan)
  BY <1>1, <1>2, MovesTo
<1>4. jobs[d] <= 1 /\ row[d].status # "SCHEDULED_RETRY" /\ row'[d].status = row[d].status
  BY <1>1 DEF Alone, Single, RetriesRest
<1>5. /\ worker'[w].pc = "markWrite" => CanTransition(row'[d].status, "PROCESSING")
      /\ worker'[w].pc = "finishWrite" => CanTransition(row'[d].status, worker'[w].plan)
  BY <1>3, <1>4 DEF CanTransition
<1>6. Alone'
  BY <1>1, <1>3, <1>4, <1>5, WorkerAlone
<1>7. QED
  BY <1>6 DEF LegalStep

\* A write after a read that still holds.
LEMMA WriteAlone ==
    ASSUME TypeOK, TypeOK', Alone, NEW w \in Workers, Busy(w), UNCHANGED <<jobs, daemon>>,
           NEW s \in Statuses, CanTransition(row[worker[w].delivery].status, s),
           row'[worker[w].delivery].status = s,
           \A d \in Deliveries \ {worker[w].delivery} : row'[d] = row[d],
           (Goto(w, "check") /\ s = "PROCESSING") \/ Done(w)
    PROVE  Alone' /\ LegalStep
<1>1. PICK d \in Deliveries : d = worker[w].delivery
  BY BusyFacts DEF Busy
<1>2. "check" \in Steps
  BY DEF Steps
<1>3. /\ \A v \in Workers \ {w} : worker'[v] = worker[v]
      /\ \/ worker'[w].pc = "idle"
         \/ worker'[w].delivery = d /\ worker'[w].pc = "check" /\ s = "PROCESSING"
  BY <1>1, <1>2, MovesTo
<1>4. jobs[d] <= 1
  BY <1>1 DEF Alone, Single
<1>5. Alone'
  BY <1>1, <1>3, <1>4, WorkerAlone
<1>6. LegalStep
  BY <1>1 DEF LegalStep, CanTransition
<1>7. QED
  BY <1>5, <1>6

LEMMA ExecutorAlone ==
    ASSUME TypeOK, TypeOK', Alone, NEW w \in Workers, ExecutorStep(w)
    PROVE  Alone' /\ LegalStep
<1>1. Busy(w) /\ UNCHANGED <<jobs, daemon>>
  BY DEF ExecutorStep, At, MarkRead, MarkWrite, BreakerOpen, BreakerClosed, SendSucceeds,
     SendFails, SendThrows, Record, FinishRead, MarkCompleted, ScheduleRetry,
     MoveToDeadLetterQueue, Busy
<1>2. PICK d \in Deliveries : d = worker[w].delivery
  BY <1>1, BusyFacts DEF Busy
<1>3. /\ {"SCHEDULED_RETRY", "FAILED_DLQ", "COMPLETED"} \subseteq Plans
      /\ {"PROCESSING", "COMPLETED", "SCHEDULED_RETRY"} \subseteq Statuses
      /\ {TRUE, FALSE} \subseteq BOOLEAN
  BY DEF Plans, Statuses
<1>4. CASE MarkRead(w)
  <2>1. /\ UNCHANGED row
        /\ \/ Goto(w, "markWrite") /\ CanTransition(row[worker[w].delivery].status, "PROCESSING")
           \/ Goto(w, "check")
    BY <1>4 DEF MarkRead
  <2>2. QED
    BY <1>1, <2>1, MoveAlone
<1>5. CASE BreakerOpen(w) \/ BreakerClosed(w)
  <2>1. UNCHANGED row /\ (Goto(w, "send") \/ Done(w))
    BY <1>5 DEF BreakerOpen, BreakerClosed
  <2>2. QED
    BY <1>1, <2>1, MoveAlone
<1>6. CASE SendSucceeds(w) \/ SendFails(w) \/ SendThrows(w)
  <2>1. UNCHANGED row /\ \E plan \in Plans, caught \in BOOLEAN : Planned(w, plan, caught)
    BY <1>3, <1>6 DEF SendSucceeds, SendFails, SendThrows
  <2>2. QED
    BY <1>1, <2>1, MoveAlone
<1>7. CASE Record(w)
  <2>1. Goto(w, "finishRead") /\ (row' = [row EXCEPT ![d].stale = FALSE] \/ row' = row)
    BY <1>2, <1>7 DEF Record
  <2>2. \A e \in Deliveries : row'[e].status = row[e].status
    BY <2>1, AgeFacts
  <2>3. QED
    BY <1>1, <2>1, <2>2, MoveAlone
<1>8. CASE FinishRead(w) \/ MoveToDeadLetterQueue(w)
  <2>1. /\ UNCHANGED row
        /\ \/ Goto(w, "finishWrite") /\ CanTransition(row[worker[w].delivery].status, worker[w].plan)
           \/ Raise(w, FALSE) \/ Raise(w, TRUE)
    BY <1>8 DEF FinishRead, MoveToDeadLetterQueue
  <2>2. Raise(w, FALSE) \/ Raise(w, TRUE)
          => Done(w) \/ \E plan \in Plans, caught \in BOOLEAN : Planned(w, plan, caught)
    BY <1>3, RaiseFacts
  <2>3. QED
    BY <1>1, <2>1, <2>2, MoveAlone
<1>9. CASE MarkWrite(w)
  <2>1. /\ SetStatus(d, "PROCESSING") /\ Goto(w, "check")
        /\ CanTransition(row[worker[w].delivery].status, "PROCESSING")
    BY <1>2, <1>9 DEF MarkWrite, At, Alone, ReadsHold
  <2>2. row'[d].status = "PROCESSING" /\ \A e \in Deliveries \ {d} : row'[e] = row[e]
    BY <1>3, <2>1, SetStatusFacts
  <2>3. QED
    BY <1>1, <1>2, <1>3, <2>1, <2>2, WriteAlone
<1>10. CASE MarkCompleted(w)
  <2>1. /\ SetStatus(d, "COMPLETED") /\ Done(w)
        /\ CanTransition(row[worker[w].delivery].status, "COMPLETED")
    BY <1>2, <1>10 DEF MarkCompleted, At, Alone, ReadsHold
  <2>2. row'[d].status = "COMPLETED" /\ \A e \in Deliveries \ {d} : row'[e] = row[e]
    BY <1>3, <2>1, SetStatusFacts
  <2>3. QED
    BY <1>1, <1>2, <1>3, <2>1, <2>2, WriteAlone
<1>11. CASE ScheduleRetry(w)
  <2>1. /\ row' = [row EXCEPT ![d] = [status |-> "SCHEDULED_RETRY", stale |-> FALSE, due |-> FALSE]]
        /\ Done(w) /\ CanTransition(row[worker[w].delivery].status, "SCHEDULED_RETRY")
    BY <1>2, <1>11 DEF ScheduleRetry, At, Alone, ReadsHold
  <2>2. row'[d].status = "SCHEDULED_RETRY" /\ \A e \in Deliveries \ {d} : row'[e] = row[e]
    BY <2>1 DEF TypeOK
  <2>3. QED
    BY <1>1, <1>2, <1>3, <2>1, <2>2, WriteAlone
<1>12. QED
  BY <1>4, <1>5, <1>6, <1>7, <1>8, <1>9, <1>10, <1>11 DEF ExecutorStep

LEMMA TakeAlone ==
    ASSUME TypeOK, TypeOK', Alone, NEW w \in Workers, NEW d \in Deliveries, TakeJob(w, d)
    PROVE  Alone' /\ LegalStep
<1>1. PICK r : r = [pc |-> "markRead", delivery |-> d, plan |-> "FAILED_DLQ", caught |-> FALSE]
  OBVIOUS
<1>2. /\ jobs[d] > 0 /\ jobs' = [jobs EXCEPT ![d] = @ - 1] /\ worker' = [worker EXCEPT ![w] = r]
      /\ UNCHANGED <<row, daemon>> /\ ~Busy(w)
  BY <1>1 DEF TakeJob, At, Busy
<1>3. r.pc = "markRead" /\ r.delivery = d
  BY <1>1
<1>4. worker'[w] = r /\ \A v \in Workers \ {w} : worker'[v] = worker[v]
  BY <1>2 DEF TypeOK
<1>5. /\ jobs[d] = 1 /\ jobs'[d] = 0 /\ \A e \in Deliveries \ {d} : jobs'[e] = jobs[e]
  BY <1>2 DEF TypeOK, Alone, Single
<1>6. \A v \in Workers : Busy(v) => worker[v].delivery # d /\ worker[v].delivery \in Deliveries
  BY <1>5, BusyFacts DEF Alone, Single, Busy
<1>7. row[d].status # "SCHEDULED_RETRY"
  BY <1>5 DEF Alone, RetriesRest
<1>8. Single'
  <2>1. \A v \in Workers : Busy(v)' => jobs'[worker'[v].delivery] = 0
    BY <1>3, <1>4, <1>5, <1>6 DEF Alone, Single, Busy
  <2>2. \A v, u \in Workers : Busy(v)' /\ Busy(u)' /\ worker'[v].delivery = worker'[u].delivery => v = u
    BY <1>3, <1>4, <1>6 DEF Alone, Single, Busy
  <2>3. \A e \in Deliveries : jobs'[e] <= 1
    BY <1>5 DEF Alone, Single
  <2>4. QED
    BY <2>1, <2>2, <2>3 DEF Single
<1>9. ReadsHold'
  BY <1>2, <1>3, <1>4 DEF Alone, ReadsHold, CanTransition
<1>10. RetriesRest'
  BY <1>2, <1>3, <1>4, <1>5, <1>7 DEF Alone, RetriesRest, Busy
<1>11. QED
  BY <1>2, <1>8, <1>9, <1>10 DEF Alone, LegalStep

LEMMA FaultAlone ==
    ASSUME OneWorkerPerJob, TypeOK, TypeOK', Alone, NEW w \in Workers,
           QueryFails(w) \/ Crash(w) \/ LockExpires(w)
    PROVE  Alone' /\ LegalStep
<1>1. Busy(w) /\ UNCHANGED <<row, daemon>>
  BY DEF QueryFails, Crash, LockExpires, At, Busy
<1>2. CASE QueryFails(w)
  <2>1. UNCHANGED jobs /\ (Goto(w, "check") \/ Raise(w, TRUE))
    BY <1>2 DEF QueryFails
  <2>2. Raise(w, TRUE) => Done(w) \/ \E plan \in Plans, caught \in BOOLEAN : Planned(w, plan, caught)
    BY RaiseFacts
  <2>3. QED
    BY <1>1, <2>1, <2>2, MoveAlone
<1>3. CASE Crash(w)
  <2>1. PICK d \in Deliveries : d = worker[w].delivery
    BY <1>1, BusyFacts DEF Busy
  <2>2. Done(w) /\ (AddJob(d) \/ UNCHANGED jobs)
    BY <1>3, <2>1 DEF Crash
  <2>3. worker'[w].pc = "idle" /\ \A v \in Workers \ {w} : worker'[v] = worker[v]
    BY <2>2, DoneFacts
  <2>4. jobs[d] = 0 /\ row[d].status # "SCHEDULED_RETRY"
    BY <1>1, <2>1 DEF Alone, Single, RetriesRest
  <2>5. jobs'[d] <= 1 /\ \A e \in Deliveries \ {d} : jobs'[e] = jobs[e]
    BY <2>2, <2>4 DEF AddJob, TypeOK
  <2>6. Alone'
    BY <1>1, <2>1, <2>3, <2>4, <2>5, WorkerAlone
  <2>7. QED
    BY <1>1, <2>6 DEF LegalStep
<1>4. CASE LockExpires(w)
  BY <1>4 DEF LockExpires, Fault, OneWorkerPerJob
<1>5. QED
  BY <1>2, <1>3, <1>4

-----------------------------------------------------------------------------
\* A daemon that reads, enqueues or fails.
LEMMA DaemonAlone ==
    ASSUME Alone, UNCHANGED <<jobs, worker>>,
           \A d \in Deliveries : row'[d].status = row[d].status,
           \A d \in daemon'["delayed"].batch :
               d \in Deliveries /\ (d \in daemon["delayed"].batch \/ row[d].status = "SCHEDULED_RETRY"),
           daemon'["stale"].phase = "idle", daemon'["reconstruct"].phase = "idle", TypeOK
    PROVE  Alone' /\ LegalStep
<1>1. \A w \in Workers : Busy(w) => worker[w].delivery \in Deliveries
  BY BusyFacts DEF Busy
<1>2. Single'
  BY DEF Alone, Single, Busy
<1>3. ReadsHold'
  <2>1. \A w \in Workers : worker[w].pc \in {"markWrite", "finishWrite"} => worker[w].delivery \in Deliveries
    BY <1>1 DEF Busy
  <2>2. QED
    BY <2>1 DEF Alone, ReadsHold, CanTransition
<1>4. RetriesRest'
  BY DEF Alone, RetriesRest, Busy
<1>5. QED
  BY <1>2, <1>3, <1>4 DEF Alone, LegalStep

\* The other daemons keep their state.
LEMMA OneDaemon ==
    ASSUME TypeOK, NEW k \in AllDaemons, NEW s, daemon' = [daemon EXCEPT ![k] = s]
    PROVE  daemon'[k] = s /\ \A j \in AllDaemons \ {k} : daemon'[j] = daemon[j]
  BY DEF TypeOK

LEMMA FourDaemons ==
    /\ AllDaemons = {"delayed", "stale", "sync", "reconstruct"}
    /\ Resting.batch = {} /\ Resting.phase = "idle"
    /\ \A b : Remaining(b).batch = b
  BY DEF AllDaemons, Resting, Remaining

\* StateSyncDaemon's cycle has rows of its own.
LEMMA SyncAlone ==
    ASSUME TypeOK, Alone, NEW s, daemon' = [daemon EXCEPT !["sync"] = s], UNCHANGED <<row, jobs, worker>>
    PROVE  Alone' /\ LegalStep
<1>1. PICK k \in AllDaemons : k = "sync"
  BY FourDaemons
<1>2. \A j \in AllDaemons \ {k} : daemon'[j] = daemon[j]
  BY <1>1, OneDaemon
<1>3. /\ daemon'["delayed"] = daemon["delayed"] /\ daemon'["stale"] = daemon["stale"]
      /\ daemon'["reconstruct"] = daemon["reconstruct"]
  BY <1>1, <1>2, FourDaemons
<1>4. daemon["delayed"].batch \subseteq Deliveries
  BY DaemonParts, FourDaemons
<1>5. QED
  BY <1>3, <1>4, DaemonAlone DEF Alone

\* A cycle of DelayedQueueProcessor goes on or ends.
LEMMA DelayedAlone ==
    ASSUME TypeOK, Alone, NEW s, daemon' = [daemon EXCEPT !["delayed"] = s], UNCHANGED <<row, jobs, worker>>,
           \A d \in s.batch : d \in Deliveries /\ (d \in daemon["delayed"].batch \/ row[d].status = "SCHEDULED_RETRY")
    PROVE  Alone' /\ LegalStep
<1>1. PICK k \in AllDaemons : k = "delayed"
  BY FourDaemons
<1>2. daemon'[k] = s /\ \A j \in AllDaemons \ {k} : daemon'[j] = daemon[j]
  BY <1>1, OneDaemon
<1>3. daemon'["delayed"] = s /\ daemon'["stale"] = daemon["stale"] /\ daemon'["reconstruct"] = daemon["reconstruct"]
  BY <1>1, <1>2, FourDaemons
<1>4. QED
  BY <1>3, DaemonAlone DEF Alone

LEMMA CycleAlone ==
    ASSUME OneWorkerPerJob, TypeOK, Alone, NEW k \in AllDaemons, Scan(k) \/ DaemonFails(k)
    PROVE  Alone' /\ LegalStep
<1>1. UNCHANGED <<row, jobs, worker>> /\ k \in {"delayed", "sync"}
  BY FourDaemons DEF Scan, DaemonFails, Alone, OneWorkerPerJob
<1>2. daemon["delayed"].batch \subseteq Deliveries
  BY DaemonParts, FourDaemons
<1>3. CASE Scan(k)
  <2>1. PICK s : s = [phase |-> "loop", batch |-> Selected(k), item |-> {}]
    OBVIOUS
  <2>2. daemon' = [daemon EXCEPT ![k] = s] /\ s.batch = Selected(k)
    BY <1>3, <2>1 DEF Scan
  <2>3. CASE k = "sync"
    BY <1>1, <2>2, <2>3, SyncAlone
  <2>4. CASE k = "delayed"
    <3>1. \A d \in s.batch : d \in Deliveries /\ row[d].status = "SCHEDULED_RETRY"
      BY <2>2, <2>4 DEF Selected
    <3>2. QED
      BY <1>1, <2>2, <2>4, <3>1, DelayedAlone
  <2>5. QED
    BY <1>1, <2>3, <2>4
<1>4. CASE DaemonFails(k)
  <2>1. daemon' = [daemon EXCEPT ![k] = Resting] \/ (k = "sync" /\ \E d : AfterSync(d))
    BY <1>1, <1>4 DEF DaemonFails
  <2>2. CASE k = "sync"
    <3>1. \E s : daemon' = [daemon EXCEPT !["sync"] = s]
      BY <2>1, <2>2 DEF AfterSync
    <3>2. QED
      BY <1>1, <3>1, SyncAlone
  <2>3. CASE k = "delayed"
    <3>1. PICK s : s = Resting
      OBVIOUS
    <3>2. daemon' = [daemon EXCEPT !["delayed"] = s] /\ s.batch = {}
      BY <2>1, <2>3, <3>1, FourDaemons
    <3>3. QED
      BY <1>1, <3>2, DelayedAlone
  <2>4. QED
    BY <1>1, <2>2, <2>3
<1>5. QED
  BY <1>3, <1>4

\* A row that DelayedQueueProcessor resets waits for its retry still.
LEMMA ResetAlone ==
    ASSUME TypeOK, TypeOK', Alone, NEW d \in Deliveries, DelayedReset(d)
    PROVE  Alone' /\ LegalStep
<1>1. PICK s : s = [phase |-> "mid", batch |-> daemon["delayed"].batch \ {d}, item |-> {d}]
  OBVIOUS
<1>2. PICK k \in AllDaemons : k = "delayed"
  BY FourDaemons
<1>3. /\ daemon' = [daemon EXCEPT ![k] = s] /\ d \in daemon["delayed"].batch
      /\ SetStatus(d, "PENDING") /\ UNCHANGED <<jobs, worker>>
  BY <1>1, <1>2 DEF DelayedReset, Begin, TypeOK
<1>4. daemon'[k] = s /\ \A j \in AllDaemons \ {k} : daemon'[j] = daemon[j]
  BY <1>3, OneDaemon
<1>5. /\ daemon'["delayed"].batch = daemon["delayed"].batch \ {d}
      /\ daemon'["stale"] = daemon["stale"] /\ daemon'["reconstruct"] = daemon["reconstruct"]
  BY <1>1, <1>2, <1>4, FourDaemons
<1>6. row'[d].status = "PENDING" /\ \A e \in Deliveries \ {d} : row'[e] = row[e]
  BY <1>3, SetStatusFacts DEF Statuses
<1>7. row[d].status = "SCHEDULED_RETRY"
  BY <1>3 DEF Alone, RetriesRest
<1>8. \A w \in Workers : Busy(w) => worker[w].delivery \in Deliveries \ {d}
  BY <1>7, BusyFacts DEF Alone, RetriesRest, Busy
<1>9. Single'
  BY <1>3 DEF Alone, Single, Busy
<1>10. ReadsHold'
  <2>1. \A w \in Workers : worker[w].pc \in {"markWrite", "finishWrite"} =>
            row'[worker[w].delivery] = row[worker[w].delivery]
    BY <1>6, <1>8 DEF Busy
  <2>2. QED
    BY <1>3, <2>1 DEF Alone, ReadsHold, CanTransition
<1>11. RetriesRest'
  <2>1. daemon["delayed"].batch \subseteq Deliveries
    BY DaemonParts, FourDaemons
  <2>2. QED
    BY <1>3, <1>5, <1>6, <2>1 DEF Alone, RetriesRest, Busy
<1>12. LegalStep
  BY <1>6, <1>7 DEF LegalStep, ValidTransitions
<1>13. QED
  BY <1>5, <1>9, <1>10, <1>11, <1>12 DEF Alone

LEMMA DaemonStepAlone ==
    ASSUME TypeOK, TypeOK', Alone, NEW d \in Deliveries, DaemonStep(d)
    PROVE  Alone' /\ LegalStep
<1>1. CASE DelayedReset(d)
  BY <1>1, ResetAlone
<1>2. CASE DelayedEnqueue(d)
  <2>1. PICK s : s = Remaining(daemon["delayed"].batch)
    OBVIOUS
  <2>2. daemon' = [daemon EXCEPT !["delayed"] = s] /\ UNCHANGED <<row, jobs, worker>>
    BY <1>2, <2>1, FourDaemons DEF DelayedEnqueue, End, TypeOK
  <2>3. s.batch = daemon["delayed"].batch /\ s.batch \subseteq Deliveries
    BY <2>1, FourDaemons, DaemonParts
  <2>4. QED
    BY <2>2, <2>3, DelayedAlone
<1>3. CASE StaleEnqueue(d) \/ StaleReset(d) \/ ReconstructEnqueue(d)
  BY <1>3 DEF StaleEnqueue, StaleReset, ReconstructEnqueue, Begin, End, Alone
<1>4. CASE SyncEnqueue(d)
  <2>1. (\E s : daemon' = [daemon EXCEPT !["sync"] = s]) /\ UNCHANGED <<row, jobs, worker>>
    BY <1>4 DEF SyncEnqueue, AfterSync
  <2>2. QED
    BY <2>1, SyncAlone
<1>5. QED
  BY <1>1, <1>2, <1>3, <1>4 DEF DaemonStep, DelayedStep, StaleStep

LEMMA AloneNext ==
    ASSUME OneWorkerPerJob, TypeOK, TypeOK', Alone, [Next]_vars
    PROVE  Alone' /\ LegalStep
<1>1. CASE UNCHANGED vars
  BY <1>1 DEF vars, Alone, Single, ReadsHold, CanTransition, RetriesRest, Busy, LegalStep
<1>2. ASSUME NEW w \in Workers, WorkerStep(w) PROVE Alone' /\ LegalStep
  <2>1. ASSUME NEW j \in RouteJobs, TakeRouteJob(w, j) PROVE Alone' /\ LegalStep
    <3>1. UNCHANGED <<row, jobs, worker, daemon>>
      BY <2>1 DEF TakeRouteJob
    <3>2. daemon["delayed"].batch \subseteq Deliveries
      BY DaemonParts, FourDaemons
    <3>3. QED
      BY <3>1, <3>2, DaemonAlone DEF Alone
  <2>2. QED
    BY <1>2, <2>1, TakeAlone, ExecutorAlone, FaultAlone DEF WorkerStep
<1>3. ASSUME NEW k \in AllDaemons, Scan(k) \/ DaemonFails(k) PROVE Alone' /\ LegalStep
  BY <1>3, CycleAlone
<1>4. ASSUME NEW d \in Deliveries, RowAges(d) \/ RetryFallsDue(d) PROVE Alone' /\ LegalStep
  <2>1. /\ row' = [row EXCEPT ![d].stale = TRUE] \/ row' = [row EXCEPT ![d].due = TRUE]
        /\ UNCHANGED <<jobs, worker, daemon>>
    BY <1>4 DEF RowAges, RetryFallsDue
  <2>2. \A e \in Deliveries : row'[e].status = row[e].status
    BY <2>1, AgeFacts
  <2>3. daemon["delayed"].batch \subseteq Deliveries
    BY DaemonParts, FourDaemons
  <2>4. QED
    BY <2>1, <2>2, <2>3, DaemonAlone DEF Alone
<1>5. ASSUME NEW d \in Deliveries, DaemonStep(d) PROVE Alone' /\ LegalStep
  BY <1>5, DaemonStepAlone
<1>6. CASE SyncLook
  <2>1. (\E s : daemon' = [daemon EXCEPT !["sync"] = s]) /\ UNCHANGED <<row, jobs, worker>>
    BY <1>6 DEF SyncLook
  <2>2. QED
    BY <2>1, SyncAlone
<1>7. CASE RemoveOrphaned
  BY <1>7 DEF RemoveOrphaned, Alone
<1>8. QED
  BY <1>1, <1>2, <1>3, <1>4, <1>5, <1>6, <1>7 DEF Next

(***************************************************************************)
(* With the daemons of daemon-setup.ts and while no lock expires, every    *)
(* change of a status is a transition of VALID_DELIVERY_TRANSITIONS        *)
(* (state-transitions.ts:8-14), for any number of rows and workers and     *)
(* whatever queries fail and workers crash: reading a status and writing   *)
(* it later does not race, because a delivery has one job at a time.       *)
(***************************************************************************)
THEOREM StatusesChangeLegally ==
    ASSUME OneWorkerPerJob
    PROVE  Spec => LegalTransitions
<1>1. IInv => TypeOK
  BY DEF IInv
<1>2. IInv /\ Alone /\ [Next]_vars => IInv' /\ Alone'
  BY <1>1, IInvInductive, AloneNext DEF IInv
<1>3. IInv /\ Alone /\ [Next]_vars =>
        [\A d \in Deliveries :
           row'[d].status # row[d].status => row'[d].status \in ValidTransitions[row[d].status]]_vars
  BY <1>1, IInvInductive, AloneNext DEF IInv, LegalStep
<1>4. QED
  BY IInvInit, AloneInit, <1>2, <1>3, PTL DEF Spec, LegalTransitions

-----------------------------------------------------------------------------
(* The contract of the delivery services *)

OpenStatuses == {"PENDING", "PROCESSING", "SCHEDULED_RETRY"}

(***************************************************************************)
(* Of what the contract sees a step changes nothing, or that one payload   *)
(* was taken, or the status of one row: to an open one, or to COMPLETED    *)
(* if its payload has been taken.                                          *)
(***************************************************************************)
KeepsRows == \A d \in Deliveries : row'[d].status = row[d].status

TakesOne ==
    /\ KeepsRows
    /\ \E d \in Deliveries : Accept(d)

SettlesOne ==
    /\ UNCHANGED accepted
    /\ \E d \in Deliveries :
          /\ \A e \in Deliveries \ {d} : row'[e].status = row[e].status
          /\ \/ row'[d].status \in OpenStatuses
             \/ row'[d].status = "COMPLETED" /\ accepted[d] > 0

Seen == (KeepsRows /\ UNCHANGED accepted) \/ TakesOne \/ SettlesOne

LEMMA WritesOpen ==
    ASSUME TypeOK, UNCHANGED accepted, NEW d \in Deliveries, NEW s \in OpenStatuses, SetStatus(d, s)
    PROVE  SettlesOne
<1>1. s \in Statuses
  BY DEF OpenStatuses, Statuses
<1>2. QED
  BY <1>1, SetStatusFacts DEF SettlesOne

LEMMA AgesUnseen ==
    ASSUME TypeOK, UNCHANGED accepted, NEW d \in Deliveries, NEW b \in BOOLEAN,
           \/ row' = [row EXCEPT ![d].stale = b]
           \/ row' = [row EXCEPT ![d].due = b]
    PROVE  Seen
BY AgeFacts DEF Seen, KeepsRows

LEMMA ExecutorSeen ==
    ASSUME IInv, NEW w \in Workers, ExecutorStep(w)
    PROVE  Seen
<1>0. TypeOK
  BY DEF IInv
<1>1. worker[w].pc # "idle"
  BY DEF ExecutorStep, At, MarkRead, MarkWrite, BreakerOpen, BreakerClosed, SendSucceeds,
     SendFails, SendThrows, Record, FinishRead, MarkCompleted, ScheduleRetry,
     MoveToDeadLetterQueue
<1>2. worker[w].delivery \in Deliveries
  BY <1>0, <1>1, BusyFacts
<1>3. OpenStatuses \subseteq Statuses /\ {"PROCESSING", "SCHEDULED_RETRY"} \subseteq OpenStatuses
  BY DEF OpenStatuses, Statuses
<1>4. CASE \/ MarkRead(w) \/ BreakerOpen(w) \/ BreakerClosed(w) \/ SendThrows(w)
           \/ FinishRead(w) \/ MoveToDeadLetterQueue(w)
  BY <1>4 DEF MarkRead, BreakerOpen, BreakerClosed, SendThrows, FinishRead,
     MoveToDeadLetterQueue, Seen, KeepsRows
<1>5. CASE MarkWrite(w)
  BY <1>0, <1>2, <1>3, <1>5, WritesOpen DEF MarkWrite, Seen
<1>6. CASE SendSucceeds(w) \/ SendFails(w)
  BY <1>2, <1>6 DEF SendSucceeds, SendFails, Seen, TakesOne, KeepsRows
<1>7. CASE Record(w)
  <2>1. UNCHANGED accepted
    BY <1>7 DEF Record
  <2>2. CASE UNCHANGED row
    BY <2>1, <2>2 DEF Seen, KeepsRows
  <2>3. CASE row' = [row EXCEPT ![worker[w].delivery].stale = FALSE]
    BY <1>0, <1>2, <2>1, <2>3, AgesUnseen
  <2>4. QED
    BY <1>7, <2>2, <2>3 DEF Record
<1>8. CASE MarkCompleted(w)
  <2>1. /\ SetStatus(worker[w].delivery, "COMPLETED") /\ UNCHANGED accepted
        /\ accepted[worker[w].delivery] > 0
    BY <1>1, <1>8 DEF MarkCompleted, IInv, NoPhantomCompletion
  <2>2. "COMPLETED" \in Statuses
    BY DEF Statuses
  <2>3. QED
    BY <1>0, <1>2, <2>1, <2>2, SetStatusFacts DEF Seen, SettlesOne
<1>9. CASE ScheduleRetry(w)
  <2>1. /\ row' = [row EXCEPT ![worker[w].delivery] =
                      [status |-> "SCHEDULED_RETRY", stale |-> FALSE, due |-> FALSE]]
        /\ UNCHANGED accepted
    BY <1>9 DEF ScheduleRetry
  <2>2. row'[worker[w].delivery].status = "SCHEDULED_RETRY"
    BY <1>0, <1>2, <2>1 DEF TypeOK
  <2>3. \A e \in Deliveries \ {worker[w].delivery} : row'[e].status = row[e].status
    BY <1>0, <2>1 DEF TypeOK
  <2>4. QED
    BY <1>2, <1>3, <2>1, <2>2, <2>3 DEF Seen, SettlesOne
<1>10. QED
  BY <1>4, <1>5, <1>6, <1>7, <1>8, <1>9 DEF ExecutorStep

LEMMA StepsAreSeen ==
    ASSUME IInv, [Next]_vars
    PROVE  Seen
<1>0. TypeOK
  BY DEF IInv
<1>1. CASE UNCHANGED vars
  BY <1>1 DEF vars, Seen, KeepsRows
<1>2. ASSUME NEW w \in Workers, WorkerStep(w) PROVE Seen
  <2>1. CASE ExecutorStep(w)
    BY <2>1, ExecutorSeen
  <2>2. CASE ~ExecutorStep(w)
    <3>1. UNCHANGED <<row, accepted>>
      BY <1>2, <2>2 DEF WorkerStep, TakeJob, TakeRouteJob, QueryFails, Crash, LockExpires
    <3>2. QED
      BY <3>1 DEF Seen, KeepsRows
  <2>3. QED
    BY <2>1, <2>2
<1>3. ASSUME NEW k \in AllDaemons, Scan(k) \/ DaemonFails(k) PROVE Seen
  BY <1>3 DEF Scan, DaemonFails, Seen, KeepsRows
<1>4. ASSUME NEW d \in Deliveries, RowAges(d) \/ RetryFallsDue(d) PROVE Seen
  BY <1>0, <1>4, AgesUnseen DEF RowAges, RetryFallsDue
<1>5. ASSUME NEW d \in Deliveries, DaemonStep(d) PROVE Seen
  <2>1. CASE DelayedReset(d) \/ StaleReset(d)
    <3>1. SetStatus(d, "PENDING") /\ UNCHANGED accepted /\ "PENDING" \in OpenStatuses
      BY <2>1 DEF DelayedReset, StaleReset, OpenStatuses
    <3>2. QED
      BY <1>0, <3>1, WritesOpen DEF Seen
  <2>2. CASE DelayedEnqueue(d) \/ StaleEnqueue(d) \/ SyncEnqueue(d) \/ ReconstructEnqueue(d)
    BY <2>2 DEF DelayedEnqueue, StaleEnqueue, SyncEnqueue, ReconstructEnqueue, Seen, KeepsRows
  <2>3. QED
    BY <1>5, <2>1, <2>2 DEF DaemonStep, DelayedStep, StaleStep
<1>6. CASE SyncLook \/ RemoveOrphaned
  BY <1>6 DEF SyncLook, RemoveOrphaned, Seen, KeepsRows
<1>7. QED
  BY <1>1, <1>2, <1>3, <1>4, <1>5, <1>6 DEF Next

Reports == [d \in Deliveries |-> ReportOf(row[d].status)]
Taken == {d \in Deliveries : accepted[d] > 0}

LEMMA ContractStep ==
    ASSUME IInv, [Next]_vars
    PROVE  [Contract!ContractNext]_(Contract!cvars)
<1>0. TypeOK
  BY DEF IInv
<1>1. Seen
  BY StepsAreSeen
<1>2. KeepsRows => Reports' = Reports
  BY DEF KeepsRows, Reports
<1>3. UNCHANGED accepted => Taken' = Taken
  BY DEF Taken
<1>4. CASE KeepsRows /\ UNCHANGED accepted
  BY <1>2, <1>3, <1>4 DEF Contract!cvars, Reports, Taken
<1>5. CASE TakesOne
  <2>1. PICK d \in Deliveries : Accept(d)
    BY <1>5 DEF TakesOne
  <2>2. \A e \in Deliveries : accepted'[e] > 0 <=> accepted[e] > 0 \/ e = d
    BY <1>0, <2>1, PipelineAssumption DEF TypeOK, Accept
  <2>3. Taken' = Taken \cup {d} /\ Reports' = Reports
    BY <1>2, <1>5, <2>2 DEF Taken, TakesOne
  <2>4. QED
    BY <2>3 DEF Contract!ContractNext, Contract!DestinationAccepts, Reports, Taken
<1>6. CASE SettlesOne
  <2>1. PICK d \in Deliveries :
           /\ \A e \in Deliveries \ {d} : row'[e].status = row[e].status
           /\ \/ row'[d].status \in OpenStatuses
              \/ row'[d].status = "COMPLETED" /\ accepted[d] > 0
    BY <1>6 DEF SettlesOne
  <2>2. Taken' = Taken
    BY <1>3, <1>6 DEF SettlesOne
  <2>3. Reports' = [Reports EXCEPT ![d] = ReportOf(row'[d].status)]
    BY <2>1 DEF Reports
  <2>4. CASE row'[d].status \in OpenStatuses
    <3>1. ReportOf(row'[d].status) = "open"
      BY <2>4 DEF ReportOf, OpenStatuses
    <3>2. QED
      BY <2>2, <2>3, <3>1 DEF Contract!ContractNext, Contract!Reopen, Reports, Taken
  <2>5. CASE row'[d].status = "COMPLETED" /\ accepted[d] > 0
    <3>1. ReportOf(row'[d].status) = "delivered" /\ d \in Taken
      BY <2>5 DEF ReportOf, Taken
    <3>2. QED
      BY <2>2, <2>3, <3>1 DEF Contract!ContractNext, Contract!ReportDelivered, Reports, Taken
  <2>6. QED
    BY <2>1, <2>4, <2>5
<1>7. QED
  BY <1>1, <1>4, <1>5, <1>6 DEF Seen

(***************************************************************************)
(* For any number of rows, workers and faults and any set of daemons,      *)
(* every step of the workers, the daemons and the faults is a step of the  *)
(* contract that the services keep too, or changes nothing it speaks of.   *)
(***************************************************************************)
THEOREM PipelineKeepsContract == Spec => ImplementsContract
<1>1. Init => Contract!ContractInit
  <2>1. ReportOf("PENDING") = "open"
    BY DEF ReportOf
  <2>2. QED
    BY <2>1 DEF Init, Contract!ContractInit
<1>2. IInv /\ [Next]_vars => [Contract!ContractNext]_(Contract!cvars)
  BY ContractStep
<1>3. QED
  BY IInvInit, IInvInductive, <1>1, <1>2, PTL DEF Spec, ImplementsContract, Contract!ContractSpec

(***************************************************************************)
(* A delivery that its destination has not taken keeps a status that some  *)
(* daemon selects, whatever crashes and fails: no row is written off.      *)
(***************************************************************************)
THEOREM UndeliveredStayOpen == Spec => []NothingIsGivenUp
<1> DEFINE NoneDead == \A d \in Deliveries : row[d].status # "FAILED_DLQ"
<1>1. Init => NoneDead
  BY DEF Init
<1>2. IInv /\ NoneDead /\ [Next]_vars => NoneDead'
  <2> SUFFICES ASSUME IInv, NoneDead, [Next]_vars PROVE NoneDead'
    OBVIOUS
  <2>1. Seen
    BY StepsAreSeen
  <2>2. QED
    BY <2>1 DEF Seen, KeepsRows, TakesOne, SettlesOne, OpenStatuses
<1>3. IInv /\ NoneDead => NothingIsGivenUp
  <2> SUFFICES ASSUME IInv, NoneDead, NEW d \in Deliveries, accepted[d] = 0
               PROVE  row[d].status \in {"PENDING", "PROCESSING", "SCHEDULED_RETRY"}
    BY DEF NothingIsGivenUp
  <2>1. row[d].status \in Statuses
    BY DEF IInv, TypeOK, Rows
  <2>2. row[d].status # "COMPLETED"
    BY DEF IInv, NoPhantomCompletion
  <2>3. QED
    BY <2>1, <2>2 DEF Statuses
<1> HIDE DEF NoneDead
<1>4. QED
  BY IInvInit, IInvInductive, <1>1, <1>2, <1>3, PTL DEF Spec

-----------------------------------------------------------------------------
(* Daemons: initializeDaemonModule *)

BootSpec == BootInit /\ [][BootNext]_bootVars

AllTypes == {"HEALTH", "METRICS", "RECOVERY"}
BootPhases == {"register", "elect", "start", "up", "stop", "resign", "delete", "down"}
TypesBefore(n) == {DaemonTypes[i] : i \in 1..(n - 1)}
TypesFrom(n) == {DaemonTypes[i] : i \in n..3}

BootTyped ==
    /\ leadKey \in Hosts \cup {"none"}
    /\ boot \in [Hosts -> [phase : BootPhases, at : 1..3]]
    /\ asks \in [Hosts -> {"none", "SET", "GET"}] /\ leads \in [Hosts -> BOOLEAN]
    /\ kept \in [Hosts -> SUBSET AllTypes] /\ working \in [Hosts -> SUBSET AllTypes]
    /\ erred \in [Hosts -> BOOLEAN]

(***************************************************************************)
(* A host that does not take itself for the leader when it starts its      *)
(* daemons lost the key to another one, or a command of its failed, and it *)
(* never asks for the key again.                                           *)
(***************************************************************************)
HostInv(h) ==
    /\ In(h, "register") => /\ asks[h] = "none" /\ ~leads[h] /\ working[h] = {}
                            /\ TypesBefore(boot[h].at) \subseteq kept[h]
    /\ In(h, "elect") => boot[h].at = 3 /\ working[h] = {} /\ AllTypes \subseteq kept[h]
    /\ In(h, "start") \/ In(h, "up") => AllTypes \subseteq kept[h]
    /\ In(h, "start") /\ ~leads[h] => asks[h] = "none" /\ (erred[h] \/ leadKey # h)
    /\ In(h, "up") /\ "RECOVERY" \notin working[h] =>
          ~leads[h] /\ asks[h] = "none" /\ (erred[h] \/ leadKey # h)
    /\ In(h, "up") => boot[h].at = 1
    /\ In(h, "stop") => working[h] \subseteq TypesFrom(boot[h].at) /\ TypesFrom(boot[h].at) \subseteq kept[h]
    /\ boot[h].phase \in {"resign", "delete", "down"} => working[h] = {}

\* The key is set from the first election that did not fail on, until a
\* leader resigns.
KeyInv ==
    leadKey = "none" =>
        \/ \E h \in Hosts : In(h, "down")
        \/ \A h \in Hosts : In(h, "register") \/ (In(h, "elect") /\ asks[h] = "SET") \/ erred[h]

BootedInv == BootTyped /\ (\A h \in Hosts : HostInv(h)) /\ KeyInv

LEMMA TypeFacts ==
    /\ Len(DaemonTypes) = 3
    /\ DaemonTypes[1] = "HEALTH" /\ DaemonTypes[2] = "METRICS" /\ DaemonTypes[3] = "RECOVERY"
  BY DEF DaemonTypes

LEMMA TypeSets ==
    /\ TypesBefore(1) = {} /\ TypesBefore(2) = {"HEALTH"} /\ TypesBefore(3) = {"HEALTH", "METRICS"}
    /\ TypesFrom(1) = AllTypes /\ TypesFrom(2) = {"METRICS", "RECOVERY"} /\ TypesFrom(3) = {"RECOVERY"}
<1>1. 1..(1 - 1) = {} /\ 1..(2 - 1) = {1} /\ 1..(3 - 1) = {1, 2} /\ 1..3 = {1, 2, 3} /\ 2..3 = {2, 3}
      /\ 3..3 = {3}
  OBVIOUS
<1>2. QED
  BY <1>1, TypeFacts DEF TypesBefore, TypesFrom, AllTypes

\* The hosts that do not move see at most that the key changes.
LEMMA OtherHosts ==
    ASSUME BootedInv, NEW h \in Hosts, NEW g \in Hosts, g # h,
           boot'[g] = boot[g], asks'[g] = asks[g], leads'[g] = leads[g],
           kept'[g] = kept[g], working'[g] = working[g], erred'[g] = erred[g], leadKey' \in {leadKey, h, "none"}
    PROVE  HostInv(g)'
  BY DaemonsAssumption DEF BootedInv, HostInv, In, TypesBefore, TypesFrom, AllTypes, DaemonTypes

\* A key once set is missing only after a host went down.
LEMMA KeyStays ==
    ASSUME BootedInv, leadKey' = leadKey, NEW h \in Hosts,
           \A g \in Hosts : g # h => boot'[g] = boot[g] /\ asks'[g] = asks[g] /\ erred'[g] = erred[g],
           erred[h] => erred'[h],
           In(h, "down") => In(h, "down")',
           \/ In(h, "down")' \/ (In(h, "elect")' /\ asks'[h] = "SET") \/ In(h, "register")'
           \/ erred'[h]
           \/ ~(In(h, "register") \/ (In(h, "elect") /\ asks[h] = "SET"))
    PROVE  KeyInv'
<1>1. ASSUME leadKey = "none", NEW d \in Hosts, In(d, "down") PROVE In(d, "down")'
  BY <1>1 DEF In
<1>2. ASSUME leadKey = "none",
             \A g \in Hosts : In(g, "register") \/ (In(g, "elect") /\ asks[g] = "SET") \/ erred[g]
      PROVE  \/ In(h, "down")'
             \/ \A g \in Hosts : (In(g, "register") \/ (In(g, "elect") /\ asks[g] = "SET") \/ erred[g])'
  BY <1>2 DEF In
<1>3. QED
  BY <1>1, <1>2 DEF BootedInv, KeyInv

\* One host moves.
LEMMA OneHostMoves ==
    ASSUME BootedInv, NEW h \in Hosts, leadKey' \in {leadKey, h, "none"},
           \A g \in Hosts : g # h => /\ boot'[g] = boot[g] /\ asks'[g] = asks[g] /\ leads'[g] = leads[g]
                                     /\ kept'[g] = kept[g] /\ working'[g] = working[g]
                                     /\ erred'[g] = erred[g],
           BootTyped', HostInv(h)', KeyInv'
    PROVE  BootedInv'
<1>1. ASSUME NEW g \in Hosts PROVE HostInv(g)'
  <2>1. CASE g = h
    BY <2>1
  <2>2. CASE g # h
    BY <2>2, OtherHosts
  <2>3. QED
    BY <2>1, <2>2
<1>2. QED
  BY <1>1 DEF BootedInv

\* What Advance makes of a host.
LEMMA AdvanceFacts ==
    ASSUME BootTyped, NEW h \in Hosts, Advance(h), boot[h].phase \in {"register", "elect", "start", "stop"}
    PROVE  /\ boot' \in [Hosts -> [phase : BootPhases, at : 1..3]]
           /\ \A g \in Hosts : g # h => boot'[g] = boot[g]
           /\ boot[h].at < 3 => boot'[h].phase = boot[h].phase /\ boot'[h].at = boot[h].at + 1
           /\ boot[h].at = 3 => boot'[h].phase = PhaseAfter[boot[h].phase] /\ boot'[h].at = 1
<1>1. boot[h] \in [phase : BootPhases, at : 1..3] /\ boot[h].at \in 1..3
  BY DEF BootTyped
<1>2. PhaseAfter[boot[h].phase] \in BootPhases
  BY DEF PhaseAfter, BootPhases
<1>3. CASE boot[h].at < 3
  <2>1. boot' = [boot EXCEPT ![h].at = boot[h].at + 1]
    BY <1>1, <1>3, TypeFacts DEF Advance
  <2>2. boot[h].at + 1 \in 1..3
    BY <1>1, <1>3
  <2>3. QED
    BY <1>1, <1>3, <2>1, <2>2 DEF BootTyped
<1>4. CASE boot[h].at = 3
  <2>1. boot' = [boot EXCEPT ![h] = [phase |-> PhaseAfter[boot[h].phase], at |-> 1]]
    BY <1>4, TypeFacts DEF Advance, BootTyped
  <2>2. QED
    BY <1>2, <1>4, <2>1 DEF BootTyped
<1>5. QED
  BY <1>1, <1>3, <1>4

LEMMA EnterFacts ==
    ASSUME BootTyped, NEW h \in Hosts, NEW p \in BootPhases, EnterPhase(h, p)
    PROVE  /\ boot' \in [Hosts -> [phase : BootPhases, at : 1..3]]
           /\ \A g \in Hosts : g # h => boot'[g] = boot[g]
           /\ boot'[h].phase = p /\ boot'[h].at = boot[h].at
  BY DEF BootTyped, EnterPhase

LEMMA RegisterKeeps ==
    ASSUME BootedInv, NEW h \in Hosts, RegisterDaemon(h)
    PROVE  BootedInv'
<1>1. BootTyped /\ HostInv(h) /\ KeyInv
  BY DEF BootedInv
<1>2. /\ In(h, "register") /\ boot[h].at \in 1..3
      /\ kept' = [kept EXCEPT ![h] = @ \cup {Treated(h)}]
      /\ UNCHANGED <<leadKey, leads, working, erred>>
  BY <1>1 DEF RegisterDaemon, BootTyped
<1>3. Treated(h) = DaemonTypes[boot[h].at] /\ Treated(h) \in AllTypes
  BY <1>2, TypeFacts DEF Treated, AllTypes
<1>4. kept' \in [Hosts -> SUBSET AllTypes] /\ kept'[h] = kept[h] \cup {Treated(h)}
      /\ \A g \in Hosts : g # h => kept'[g] = kept[g]
  BY <1>1, <1>2, <1>3 DEF BootTyped
<1>5. asks[h] = "none" /\ ~leads[h] /\ working[h] = {} /\ TypesBefore(boot[h].at) \subseteq kept[h]
  BY <1>1, <1>2 DEF HostInv
<1>6. CASE boot[h].at < 3
  <2>1. ~IsDaemonSingleton(Treated(h))
    BY <1>2, <1>3, <1>6, TypeFacts DEF IsDaemonSingleton
  <2>2. Advance(h) /\ asks' = asks
    BY <2>1 DEF RegisterDaemon
  <2>3. /\ boot' \in [Hosts -> [phase : BootPhases, at : 1..3]]
        /\ \A g \in Hosts : g # h => boot'[g] = boot[g]
        /\ boot'[h].phase = "register" /\ boot'[h].at = boot[h].at + 1
    BY <1>1, <1>2, <1>6, <2>2, AdvanceFacts DEF In
  <2>4. TypesBefore(boot[h].at + 1) \subseteq kept'[h]
    <3>1. boot[h].at = 1 \/ boot[h].at = 2
      BY <1>2, <1>6
    <3>2. QED
      BY <1>3, <1>4, <1>5, <3>1, TypeFacts, TypeSets
  <2>5. HostInv(h)'
    BY <1>2, <1>5, <2>2, <2>3, <2>4 DEF HostInv, In, TypesBefore
  <2>6. KeyInv'
    BY <1>2, <2>2, <2>3, KeyStays DEF In
  <2>7. BootTyped'
    BY <1>1, <1>2, <1>4, <2>2, <2>3 DEF BootTyped, AllTypes, BootPhases
  <2>8. QED
    BY <1>2, <1>4, <2>2, <2>3, <2>5, <2>6, <2>7, OneHostMoves
<1>7. CASE boot[h].at = 3
  <2>1. IsDaemonSingleton(Treated(h))
    BY <1>3, <1>7, TypeFacts DEF IsDaemonSingleton
  <2>2. EnterPhase(h, "elect") /\ asks' = [asks EXCEPT ![h] = "SET"]
    BY <2>1 DEF RegisterDaemon
  <2>3. /\ boot' \in [Hosts -> [phase : BootPhases, at : 1..3]]
        /\ \A g \in Hosts : g # h => boot'[g] = boot[g]
        /\ boot'[h].phase = "elect" /\ boot'[h].at = 3
    BY <1>1, <1>7, <2>2, EnterFacts DEF BootPhases
  <2>4. /\ asks' \in [Hosts -> {"none", "SET", "GET"}] /\ asks'[h] = "SET"
        /\ \A g \in Hosts : g # h => asks'[g] = asks[g]
    BY <1>1, <2>2 DEF BootTyped
  <2>5. AllTypes \subseteq kept'[h]
    BY <1>3, <1>4, <1>5, <1>7, TypeFacts, TypeSets DEF AllTypes
  <2>6. HostInv(h)'
    BY <1>2, <1>5, <2>3, <2>4, <2>5 DEF HostInv, In, AllTypes
  <2>7. KeyInv'
    BY <1>2, <2>3, <2>4, KeyStays DEF In
  <2>8. BootTyped'
    BY <1>1, <1>2, <1>4, <2>3, <2>4 DEF BootTyped, AllTypes, BootPhases
  <2>9. QED
    BY <1>2, <1>4, <2>3, <2>4, <2>6, <2>7, <2>8, OneHostMoves
<1>8. QED
  BY <1>2, <1>6, <1>7

LEMMA AsksKeep ==
    ASSUME BootedInv, NEW h \in Hosts, AskSet(h) \/ AskGet(h) \/ AskAgain(h)
    PROVE  BootedInv'
<1>1. BootTyped /\ HostInv(h) /\ KeyInv
  BY DEF BootedInv
<1>2. UNCHANGED <<kept, working, erred>>
  BY DEF AskSet, AskGet, AskAgain
<1>3. /\ asks' \in [Hosts -> {"none", "SET", "GET"}]
      /\ \A g \in Hosts : g # h => asks'[g] = asks[g]
  BY <1>1 DEF BootTyped, AskSet, AskGet, AskAgain
<1>4. CASE AskSet(h)
  <2>1. asks[h] = "SET" /\ asks'[h] = "GET" /\ leadKey' = h /\ UNCHANGED <<boot, leads>>
    BY <1>1, <1>4 DEF AskSet, BootTyped
  <2>2. BootTyped'
    BY <1>1, <1>2, <1>3, <2>1 DEF BootTyped, AllTypes, BootPhases
  <2>3. HostInv(h)'
    BY <1>1, <1>2, <2>1 DEF HostInv, In, TypesBefore, TypesFrom, AllTypes, DaemonTypes
  <2>4. KeyInv'
    BY <2>1, DaemonsAssumption DEF KeyInv
  <2>5. QED
    BY <1>2, <1>3, <2>1, <2>2, <2>3, <2>4, OneHostMoves
<1>5. CASE AskGet(h)
  <2>1. /\ asks[h] = "GET" /\ asks'[h] = "none" /\ UNCHANGED leadKey
        /\ leads' = [leads EXCEPT ![h] = leadKey = h]
    BY <1>1, <1>5 DEF AskGet, BootTyped
  <2>2. /\ leads' \in [Hosts -> BOOLEAN] /\ (leads'[h] <=> leadKey = h)
        /\ \A g \in Hosts : g # h => leads'[g] = leads[g]
    BY <1>1, <2>1 DEF BootTyped
  <2>3. CASE In(h, "elect")
    <3>1. boot[h].at = 3 /\ boot[h].phase = "elect" /\ Advance(h)
      BY <1>1, <1>5, <2>3 DEF HostInv, In, AskGet
    <3>2. /\ boot' \in [Hosts -> [phase : BootPhases, at : 1..3]]
          /\ \A g \in Hosts : g # h => boot'[g] = boot[g]
          /\ boot'[h].phase = "start" /\ boot'[h].at = 1
      BY <1>1, <3>1, AdvanceFacts DEF PhaseAfter
    <3>3. BootTyped'
      BY <1>1, <1>2, <1>3, <2>1, <2>2, <3>2 DEF BootTyped, AllTypes, BootPhases
    <3>4. HostInv(h)'
      BY <1>1, <1>2, <2>1, <2>2, <2>3, <3>2 DEF HostInv, In, AllTypes
    <3>5. KeyInv'
      BY <1>2, <1>3, <2>1, <2>3, <3>2, KeyStays DEF In
    <3>6. QED
      BY <1>2, <1>3, <2>1, <2>2, <3>2, <3>3, <3>4, <3>5, OneHostMoves
  <2>4. CASE ~In(h, "elect")
    <3>1. boot' = boot
      BY <1>5, <2>4 DEF AskGet
    <3>2. BootTyped'
      BY <1>1, <1>2, <1>3, <2>1, <2>2, <3>1 DEF BootTyped, AllTypes, BootPhases
    <3>3. HostInv(h)'
      BY <1>1, <1>2, <2>1, <2>2, <2>4, <3>1 DEF HostInv, In, AllTypes, TypesBefore, TypesFrom,
                                                DaemonTypes
    <3>4. ~In(h, "register")
      BY <1>1, <2>1 DEF HostInv
    <3>5. KeyInv'
      BY <1>2, <1>3, <2>1, <2>4, <3>1, <3>4, KeyStays DEF In
    <3>6. QED
      BY <1>2, <1>3, <2>1, <2>2, <3>1, <3>2, <3>3, <3>5, OneHostMoves
  <2>5. QED
    BY <2>3, <2>4
<1>6. CASE AskAgain(h)
  <2>1. /\ leads[h] /\ asks[h] = "none" /\ asks'[h] = "SET"
        /\ UNCHANGED <<leadKey, boot, leads>>
    BY <1>1, <1>6 DEF AskAgain, BootTyped
  <2>2. BootTyped'
    BY <1>1, <1>2, <1>3, <2>1 DEF BootTyped, AllTypes, BootPhases
  <2>3. HostInv(h)'
    BY <1>1, <1>2, <2>1 DEF HostInv, In, TypesBefore, TypesFrom, AllTypes, DaemonTypes
  <2>4. KeyInv'
    <3>1. ~In(h, "register")
      BY <1>1, <2>1 DEF HostInv
    <3>2. QED
      BY <1>2, <1>3, <2>1, <3>1, KeyStays DEF In
  <2>5. QED
    BY <1>2, <1>3, <2>1, <2>2, <2>3, <2>4, OneHostMoves
<1>7. QED
  BY <1>4, <1>5, <1>6

LEMMA AskFailsKeeps ==
    ASSUME BootedInv, NEW h \in Hosts, AskFails(h)
    PROVE  BootedInv'
<1>1. BootTyped /\ HostInv(h) /\ KeyInv
  BY DEF BootedInv
<1>2. /\ asks[h] # "none" /\ leadKey' \in {leadKey, h} /\ UNCHANGED <<kept, working>>
      /\ asks' = [asks EXCEPT ![h] = "none"] /\ leads' = [leads EXCEPT ![h] = FALSE]
      /\ erred' = [erred EXCEPT ![h] = TRUE]
  BY DEF AskFails
<1>3. /\ asks' \in [Hosts -> {"none", "SET", "GET"}] /\ asks'[h] = "none"
      /\ leads' \in [Hosts -> BOOLEAN] /\ ~leads'[h]
      /\ erred' \in [Hosts -> BOOLEAN] /\ erred'[h]
      /\ \A g \in Hosts : g # h => asks'[g] = asks[g] /\ leads'[g] = leads[g] /\ erred'[g] = erred[g]
  BY <1>1, <1>2 DEF BootTyped
<1>4. ~In(h, "register")
  BY <1>1, <1>2 DEF HostInv
<1>5. /\ boot' \in [Hosts -> [phase : BootPhases, at : 1..3]]
      /\ \A g \in Hosts : g # h => boot'[g] = boot[g]
      /\ In(h, "elect") => boot'[h].phase = "start" /\ boot'[h].at = 1
      /\ ~In(h, "elect") => boot' = boot
  <2>1. CASE In(h, "elect")
    <3>1. boot[h].at = 3 /\ boot[h].phase = "elect" /\ Advance(h)
      BY <1>1, <2>1 DEF HostInv, In, AskFails
    <3>2. QED
      BY <1>1, <2>1, <3>1, AdvanceFacts DEF PhaseAfter
  <2>2. CASE ~In(h, "elect")
    BY <1>1, <2>2 DEF AskFails, BootTyped
  <2>3. QED
    BY <2>1, <2>2
<1>6. BootTyped'
  BY <1>1, <1>2, <1>3, <1>5 DEF BootTyped, AllTypes, BootPhases
<1>7. HostInv(h)'
  <2>1. CASE In(h, "elect")
    BY <1>1, <1>2, <1>3, <1>5, <2>1 DEF HostInv, In, AllTypes
  <2>2. CASE ~In(h, "elect")
    BY <1>1, <1>2, <1>3, <1>4, <1>5, <2>2 DEF HostInv, In, AllTypes, TypesBefore, TypesFrom, DaemonTypes
  <2>3. QED
    BY <2>1, <2>2
<1>8. KeyInv'
  <2>1. CASE leadKey' = h
    BY <2>1, DaemonsAssumption DEF KeyInv
  <2>2. CASE leadKey' = leadKey
    BY <1>3, <1>5, <2>2, KeyStays DEF In
  <2>3. QED
    BY <1>2, <2>1, <2>2
<1>9. QED
  BY <1>2, <1>3, <1>5, <1>6, <1>7, <1>8, OneHostMoves

LEMMA DaemonStarts ==
    ASSUME BootedInv, NEW h \in Hosts, StartDaemon(h)
    PROVE  BootedInv'
<1>1. BootTyped /\ HostInv(h) /\ KeyInv
  BY DEF BootedInv
<1>2. /\ boot[h].phase = "start" /\ boot[h].at \in 1..3 /\ Advance(h)
      /\ UNCHANGED <<leadKey, asks, leads, kept, erred>>
  BY <1>1 DEF StartDaemon, BootTyped, In
<1>3. Treated(h) = DaemonTypes[boot[h].at] /\ Treated(h) \in AllTypes
  BY <1>2, TypeFacts DEF Treated, AllTypes
<1>4. /\ working' \in [Hosts -> SUBSET AllTypes]
      /\ \A g \in Hosts : g # h => working'[g] = working[g]
      /\ boot[h].at = 3 /\ leads[h] => "RECOVERY" \in working'[h]
  <2>1. working' = [working EXCEPT ![h] = IF GetRole(h, Treated(h)) = "PRIMARY"
                                          THEN working[h] \cup {Treated(h)} ELSE working[h]]
    BY DEF StartDaemon
  <2>2. boot[h].at = 3 /\ leads[h] => GetRole(h, Treated(h)) = "PRIMARY" /\ Treated(h) = "RECOVERY"
    BY <1>3, TypeFacts DEF GetRole
  <2>3. QED
    BY <1>1, <1>3, <2>1, <2>2 DEF BootTyped
<1>5. /\ boot' \in [Hosts -> [phase : BootPhases, at : 1..3]]
      /\ \A g \in Hosts : g # h => boot'[g] = boot[g]
      /\ boot[h].at < 3 => boot'[h].phase = "start"
      /\ boot[h].at = 3 => boot'[h].phase = "up" /\ boot'[h].at = 1
  BY <1>1, <1>2, AdvanceFacts DEF PhaseAfter
<1>6. BootTyped'
  BY <1>1, <1>2, <1>4, <1>5 DEF BootTyped, AllTypes, BootPhases
<1>7. HostInv(h)'
  <2>1. CASE boot[h].at < 3
    BY <1>1, <1>2, <1>5, <2>1 DEF HostInv, In, AllTypes
  <2>2. CASE boot[h].at = 3
    BY <1>1, <1>2, <1>4, <1>5, <2>2 DEF HostInv, In, AllTypes
  <2>3. QED
    BY <1>2, <2>1, <2>2
<1>8. KeyInv'
  BY <1>2, <1>5, KeyStays DEF In
<1>9. QED
  BY <1>2, <1>4, <1>5, <1>6, <1>7, <1>8, OneHostMoves

LEMMA DaemonsStop ==
    ASSUME BootedInv, NEW h \in Hosts, ShutdownBegins(h) \/ DeregisterDaemon(h)
    PROVE  BootedInv'
<1>1. BootTyped /\ HostInv(h) /\ KeyInv
  BY DEF BootedInv
<1>2. CASE ShutdownBegins(h)
  <2>1. /\ boot[h].phase = "up" /\ EnterPhase(h, "stop")
        /\ UNCHANGED <<leadKey, asks, leads, kept, working, erred>>
    BY <1>2 DEF ShutdownBegins, In
  <2>2. /\ boot' \in [Hosts -> [phase : BootPhases, at : 1..3]]
        /\ \A g \in Hosts : g # h => boot'[g] = boot[g]
        /\ boot'[h].phase = "stop" /\ boot'[h].at = 1
    BY <1>1, <2>1, EnterFacts DEF BootPhases, HostInv, In
  <2>3. BootTyped'
    BY <1>1, <2>1, <2>2 DEF BootTyped, AllTypes, BootPhases
  <2>4. HostInv(h)'
    <3>1. working[h] \subseteq AllTypes /\ AllTypes \subseteq kept[h] /\ TypesFrom(boot'[h].at) = AllTypes
      BY <1>1, <2>1, <2>2, TypeSets DEF HostInv, In, BootTyped
    <3>2. QED
      BY <2>1, <2>2, <3>1 DEF HostInv, In, TypesFrom
  <2>5. KeyInv'
    BY <2>1, <2>2, KeyStays DEF In
  <2>6. QED
    BY <2>1, <2>2, <2>3, <2>4, <2>5, OneHostMoves
<1>3. CASE DeregisterDaemon(h)
  <2>1. /\ boot[h].phase = "stop" /\ boot[h].at \in 1..3
        /\ working' = [working EXCEPT ![h] = @ \ {Treated(h)}]
        /\ kept' = [kept EXCEPT ![h] = @ \ {Treated(h)}]
        /\ UNCHANGED <<leadKey, asks, leads, erred>>
        /\ Advance(h) \/ (IsDaemonSingleton(Treated(h)) /\ EnterPhase(h, "down"))
    BY <1>1, <1>3 DEF DeregisterDaemon, In, BootTyped
  <2>2. /\ working' \in [Hosts -> SUBSET AllTypes] /\ kept' \in [Hosts -> SUBSET AllTypes]
        /\ working'[h] = working[h] \ {Treated(h)} /\ kept'[h] = kept[h] \ {Treated(h)}
        /\ \A g \in Hosts : g # h => working'[g] = working[g] /\ kept'[g] = kept[g]
    BY <1>1, <2>1 DEF BootTyped
  <2>3. /\ Treated(h) = DaemonTypes[boot[h].at]
        /\ working[h] \subseteq TypesFrom(boot[h].at) /\ TypesFrom(boot[h].at) \subseteq kept[h]
    BY <1>1, <2>1 DEF Treated, HostInv, In
  <2>4. CASE boot[h].at < 3
    <3>1. Advance(h)
      BY <2>1, <2>3, <2>4, TypeFacts DEF IsDaemonSingleton
    <3>2. /\ boot' \in [Hosts -> [phase : BootPhases, at : 1..3]]
          /\ \A g \in Hosts : g # h => boot'[g] = boot[g]
          /\ boot'[h].phase = "stop" /\ boot'[h].at = boot[h].at + 1
      BY <1>1, <2>1, <2>4, <3>1, AdvanceFacts
    <3>3. BootTyped'
      BY <1>1, <2>1, <2>2, <3>2 DEF BootTyped, AllTypes, BootPhases
    <3>4. /\ working'[h] \subseteq TypesFrom(boot[h].at + 1)
          /\ TypesFrom(boot[h].at + 1) \subseteq kept'[h]
      <4>1. boot[h].at = 1 \/ boot[h].at = 2
        BY <2>1, <2>4
      <4>2. QED
        BY <2>2, <2>3, <4>1, TypeFacts, TypeSets DEF AllTypes
    <3>5. HostInv(h)'
      BY <3>2, <3>4 DEF HostInv, In, TypesFrom
    <3>6. KeyInv'
      BY <2>1, <3>2, KeyStays DEF In
    <3>7. QED
      BY <2>1, <2>2, <3>2, <3>3, <3>5, <3>6, OneHostMoves
  <2>5. CASE boot[h].at = 3
    <3>1. /\ boot' \in [Hosts -> [phase : BootPhases, at : 1..3]]
          /\ \A g \in Hosts : g # h => boot'[g] = boot[g]
          /\ boot'[h].phase \in {"resign", "down"}
      BY <1>1, <2>1, <2>5, AdvanceFacts, EnterFacts DEF PhaseAfter, BootPhases
    <3>2. working'[h] = {}
      BY <2>2, <2>3, <2>5, TypeFacts, TypeSets
    <3>3. BootTyped'
      BY <1>1, <2>1, <2>2, <3>1 DEF BootTyped, AllTypes, BootPhases
    <3>4. HostInv(h)'
      BY <3>1, <3>2 DEF HostInv, In
    <3>5. KeyInv'
      BY <2>1, <3>1, KeyStays DEF In
    <3>6. QED
      BY <2>1, <2>2, <3>1, <3>3, <3>4, <3>5, OneHostMoves
  <2>6. QED
    BY <2>1, <2>4, <2>5
<1>4. QED
  BY <1>2, <1>3

LEMMA LeaderResigns ==
    ASSUME BootedInv, NEW h \in Hosts, ResignGet(h) \/ ResignDelete(h) \/ ResignFails(h)
    PROVE  BootedInv'
<1>1. BootTyped /\ HostInv(h) /\ KeyInv
  BY DEF BootedInv
<1>2. /\ boot[h].phase \in {"resign", "delete"} /\ UNCHANGED <<asks, kept, working, erred>>
      /\ EnterPhase(h, "delete") \/ EnterPhase(h, "down")
      /\ leads' = leads \/ leads' = [leads EXCEPT ![h] = FALSE]
      /\ leadKey' = leadKey \/ (leadKey' = "none" /\ EnterPhase(h, "down"))
  BY DEF ResignGet, ResignDelete, ResignFails, In
<1>3. /\ boot' \in [Hosts -> [phase : BootPhases, at : 1..3]]
      /\ \A g \in Hosts : g # h => boot'[g] = boot[g]
      /\ boot'[h].phase \in {"delete", "down"}
      /\ EnterPhase(h, "down") => boot'[h].phase = "down"
  BY <1>1, <1>2, EnterFacts DEF BootPhases
<1>4. /\ leads' \in [Hosts -> BOOLEAN] /\ \A g \in Hosts : g # h => leads'[g] = leads[g]
  BY <1>1, <1>2 DEF BootTyped
<1>5. BootTyped'
  BY <1>1, <1>2, <1>3, <1>4 DEF BootTyped, AllTypes, BootPhases
<1>6. HostInv(h)'
  BY <1>1, <1>2, <1>3 DEF HostInv, In
<1>7. KeyInv'
  <2>1. CASE boot'[h].phase = "down"
    BY <2>1 DEF KeyInv, In
  <2>2. CASE boot'[h].phase # "down"
    BY <1>2, <1>3, <2>2, KeyStays DEF In
  <2>3. QED
    BY <2>1, <2>2
<1>8. QED
  BY <1>2, <1>3, <1>4, <1>5, <1>6, <1>7, OneHostMoves

LEMMA BootBegins ==
    ASSUME BootInit
    PROVE  BootedInv
<1>1. BootTyped
  BY DEF BootInit, BootTyped, BootPhases, AllTypes
<1>2. \A h \in Hosts : HostInv(h)
  BY TypeSets DEF BootInit, HostInv, In
<1>3. KeyInv
  BY DEF BootInit, KeyInv, In
<1>4. QED
  BY <1>1, <1>2, <1>3 DEF BootedInv

LEMMA HostsStayBooted ==
    ASSUME BootedInv, [BootNext]_bootVars
    PROVE  BootedInv'
<1>1. CASE UNCHANGED bootVars
  BY <1>1 DEF bootVars, BootedInv, BootTyped, HostInv, KeyInv, In, TypesBefore, TypesFrom, AllTypes,
              DaemonTypes, BootPhases
<1>2. CASE BootNext
  <2>1. PICK h \in Hosts :
            \/ RegisterDaemon(h) \/ StartDaemon(h) \/ DeregisterDaemon(h)
            \/ AskSet(h) \/ AskGet(h) \/ AskFails(h) \/ AskAgain(h)
            \/ ShutdownBegins(h) \/ ResignGet(h) \/ ResignDelete(h) \/ ResignFails(h)
    BY <1>2 DEF BootNext
  <2>2. QED
    BY <2>1, RegisterKeeps, DaemonStarts, DaemonsStop, AsksKeep, AskFailsKeeps, LeaderResigns
<1>3. QED
  BY <1>1, <1>2

LEMMA BootedHostsRecover ==
    ASSUME BootedInv
    PROVE  SomebodyRecovers /\ NoDaemonIsForgotten
<1>1. SomebodyRecovers
  <2>1. SUFFICES ASSUME \A h \in Hosts : In(h, "up")
                 PROVE  \/ \E h \in Hosts : "RECOVERY" \in working[h] \/ (erred[h] /\ leadKey = h)
                        \/ \A h \in Hosts : erred[h]
    BY DEF SomebodyRecovers
  <2>2. CASE leadKey = "none"
    BY <2>1, <2>2 DEF BootedInv, KeyInv, In
  <2>3. CASE leadKey # "none"
    <3>1. leadKey \in Hosts
      BY <2>3 DEF BootedInv, BootTyped
    <3>2. In(leadKey, "up") /\ HostInv(leadKey)
      BY <2>1, <3>1 DEF BootedInv
    <3>3. QED
      BY <3>1, <3>2 DEF HostInv
  <2>4. QED
    BY <2>2, <2>3
<1>2. ASSUME NEW h \in Hosts PROVE working[h] \subseteq kept[h] /\ (In(h, "down") => working[h] = {})
  <2>1. HostInv(h) /\ boot[h].phase \in BootPhases /\ working[h] \subseteq AllTypes
    BY DEF BootedInv, BootTyped
  <2>2. QED
    BY <2>1 DEF HostInv, In, BootPhases
<1>3. QED
  BY <1>1, <1>2 DEF NoDaemonIsForgotten

(***************************************************************************)
(* However the elections of the hosts interleave, when all of them are up  *)
(* one runs the recovery daemon, or a Redis command failed on the host     *)
(* whose name is in the key, or on every host; and no daemon runs that its *)
(* coordinator does not know (daemon.module.ts, daemon-coordinator.ts):    *)
(* for any number of hosts, one at least.                                  *)
(***************************************************************************)
THEOREM SomebodyAlwaysRecovers == BootSpec => [](SomebodyRecovers /\ NoDaemonIsForgotten)
<1>1. BootInit => BootedInv
  BY BootBegins
<1>2. BootedInv /\ [BootNext]_bootVars => BootedInv'
  BY HostsStayBooted
<1>3. BootedInv => SomebodyRecovers /\ NoDaemonIsForgotten
  BY BootedHostsRecover
<1>4. QED
  BY <1>1, <1>2, <1>3, PTL DEF BootSpec

-----------------------------------------------------------------------------
(* Daemons: the coordinator of setupDaemon *)

CoordSpec == CoordInit /\ [][CoordNext]_coordVars

SubsFrom(n) == {SubOrder[i] : i \in n..5}

(***************************************************************************)
(* A call of stop has emptied what is before it in the order, and nothing  *)
(* is started once the first of them is under way; a coordinator that is   *)
(* not running after its start has stopped everything.                     *)
(***************************************************************************)
CoordInv ==
    /\ starting \in 0..6 /\ coordOn \in BOOLEAN /\ stopping \in [Stoppers -> 0..7]
    /\ subs \subseteq SubsFrom(1)
    /\ starting # 6 => \A c \in Stoppers : stopping[c] = 0
    /\ starting \in 1..5 => coordOn
    /\ starting = 6 /\ ~coordOn => subs = {}
    /\ \A c \in Stoppers : stopping[c] \in 1..6 => subs \subseteq SubsFrom(stopping[c])
    /\ \A c \in Stoppers : stopping[c] = 7 => subs = {}

LEMMA SubFacts == SubsDone = 6 /\ StopReturned = 7 /\ Len(SubOrder) = 5 /\ SubsFrom(6) = {}
<1>1. Len(SubOrder) = 5
  BY DEF SubOrder
<1>2. 6..5 = {}
  OBVIOUS
<1>3. QED
  BY <1>1, <1>2 DEF SubsDone, StopReturned, SubsFrom

LEMMA StopsKeepInv ==
    ASSUME CoordInv, NEW c \in Stoppers, StopCalled(c) \/ StopsOne(c) \/ StopReturns(c)
    PROVE  CoordInv'
<1>1. CASE StopCalled(c)
  <2>1. /\ starting = 6 /\ stopping[c] = 0 /\ UNCHANGED <<coordOn, subs, starting>>
        /\ stopping' = [stopping EXCEPT ![c] = IF coordOn THEN 1 ELSE 7]
    BY <1>1, SubFacts DEF StopCalled
  <2>2. /\ stopping' \in [Stoppers -> 0..7]
        /\ stopping'[c] = 1 \/ (stopping'[c] = 7 /\ ~coordOn)
        /\ \A d \in Stoppers : d # c => stopping'[d] = stopping[d]
    BY <2>1 DEF CoordInv
  <2>3. QED
    BY <2>1, <2>2 DEF CoordInv, SubsFrom, SubOrder
<1>2. CASE StopsOne(c)
  <2>1. /\ stopping[c] \in 1..5 /\ UNCHANGED <<coordOn, starting>>
        /\ subs' = subs \ {SubOrder[stopping[c]]}
        /\ stopping' = [stopping EXCEPT ![c] = stopping[c] + 1]
    BY <1>2, SubFacts DEF StopsOne
  <2>2. /\ stopping' \in [Stoppers -> 0..7] /\ stopping'[c] = stopping[c] + 1
        /\ \A d \in Stoppers : d # c => stopping'[d] = stopping[d]
    BY <2>1 DEF CoordInv
  <2>3. starting = 6
    BY <2>1 DEF CoordInv
  <2>4. subs' \subseteq SubsFrom(stopping[c] + 1)
    <3>1. ASSUME NEW s \in subs, s # SubOrder[stopping[c]] PROVE s \in SubsFrom(stopping[c] + 1)
      <4>1. PICK i \in stopping[c]..5 : s = SubOrder[i]
        BY <2>1 DEF CoordInv, SubsFrom
      <4>2. i \in (stopping[c] + 1)..5
        BY <2>1, <3>1, <4>1
      <4>3. QED
        BY <4>1, <4>2 DEF SubsFrom
    <3>2. QED
      BY <2>1, <3>1
  <2>5. subs' \subseteq subs
    BY <2>1
  <2>6. QED
    BY <2>1, <2>2, <2>3, <2>4, <2>5 DEF CoordInv, SubsFrom, SubOrder
<1>3. CASE StopReturns(c)
  <2>1. /\ stopping[c] = 6 /\ coordOn' = FALSE /\ UNCHANGED <<subs, starting>>
        /\ stopping' = [stopping EXCEPT ![c] = 7]
    BY <1>3, SubFacts DEF StopReturns
  <2>2. /\ stopping' \in [Stoppers -> 0..7] /\ stopping'[c] = 7
        /\ \A d \in Stoppers : d # c => stopping'[d] = stopping[d]
    BY <2>1 DEF CoordInv
  <2>3. subs = {} /\ starting = 6
    BY <2>1, SubFacts DEF CoordInv
  <2>4. subs' = {} /\ starting' = 6 /\ coordOn' \in BOOLEAN
    BY <2>1, <2>3
  <2>5. (subs \subseteq SubsFrom(1))' /\ \A d \in Stoppers : (subs \subseteq SubsFrom(stopping[d]))'
    BY <2>4
  <2>6. QED
    BY <2>2, <2>4, <2>5 DEF CoordInv
<1>4. QED
  BY <1>1, <1>2, <1>3

LEMMA CoordKeepsInv ==
    ASSUME CoordInv, [CoordNext]_coordVars
    PROVE  CoordInv'
<1>1. CASE UNCHANGED coordVars
  BY <1>1 DEF coordVars, CoordInv, SubsFrom, SubOrder
<1>2. CASE StartCalled
  BY <1>2 DEF StartCalled, CoordInv, SubsFrom, SubOrder
<1>3. CASE StartsOne
  <2>1. /\ starting \in 1..5 /\ starting' = starting + 1 /\ UNCHANGED <<coordOn, stopping>>
        /\ subs' = subs \cup {SubOrder[starting]}
    BY <1>3, SubFacts DEF StartsOne
  <2>2. subs' \subseteq SubsFrom(1)
    BY <2>1 DEF CoordInv, SubsFrom
  <2>3. \A c \in Stoppers : stopping'[c] = 0
    BY <2>1 DEF CoordInv
  <2>4. QED
    BY <2>1, <2>2, <2>3 DEF CoordInv, SubsFrom, SubOrder
<1>4. ASSUME NEW c \in Stoppers, StopCalled(c) \/ StopsOne(c) \/ StopReturns(c) PROVE CoordInv'
  BY <1>4, StopsKeepInv
<1>5. QED
  BY <1>1, <1>2, <1>3, <1>4 DEF CoordNext

(***************************************************************************)
(* However many calls of the coordinator's stop overlap, one that has      *)
(* returned finds every daemon stopped (daemon-coordinator.ts).            *)
(***************************************************************************)
THEOREM StopsAreDone == CoordSpec => []ReturnedStopsAreDone
<1>1. CoordInit => CoordInv
  <2>1. SUFFICES ASSUME CoordInit PROVE CoordInv
    OBVIOUS
  <2>2. /\ stopping \in [Stoppers -> 0..7] /\ \A c \in Stoppers : stopping[c] = 0
        /\ subs = {} /\ starting = 0
    BY <2>1 DEF CoordInit
  <2>3. coordOn \in BOOLEAN
    BY <2>1 DEF CoordInit
  <2>4. subs \subseteq SubsFrom(1)
    BY <2>2
  <2>5. QED
    BY <2>2, <2>3, <2>4 DEF CoordInv
<1>2. CoordInv /\ [CoordNext]_coordVars => CoordInv'
  BY CoordKeepsInv
<1>3. CoordInv => ReturnedStopsAreDone
  BY SubFacts DEF CoordInv, ReturnedStopsAreDone
<1>4. QED
  BY <1>1, <1>2, <1>3, PTL DEF CoordSpec

-----------------------------------------------------------------------------
(* Daemons: the dead letter alarm of the recovery daemon *)

CycleSpec == CycleInit /\ [][CycleNext]_cycleVars

(***************************************************************************)
(* Between the list and the total of a cycle the dead letters stay below   *)
(* the peak that the cycle has seen, and so does the list.                 *)
(***************************************************************************)
CycleInv ==
    /\ dead \in Nat /\ told \in Nat /\ toldPeak \in Nat
    /\ cyc \in [RecoveryCycles -> [phase : {"idle", "detect", "reconstruct", "list", "count"}, listed : Nat]]
    /\ peak \in [RecoveryCycles -> Nat]
    /\ \A c \in RecoveryCycles : cyc[c].phase = "count" => cyc[c].listed <= peak[c] /\ dead <= peak[c]
    /\ built \in {"module", "bare", "container"}
    /\ \A c \in RecoveryCycles :
          /\ cyc[c].phase = "list" => built # "container"
          /\ cyc[c].phase = "count" => built = "module"
    /\ AlertsTellTheTruth

LEMMA MaxOfTwo ==
    ASSUME NEW a \in Nat, NEW b \in Nat
    PROVE  Max({a, b}) \in Nat /\ Max({a, b}) >= a /\ Max({a, b}) >= b
<1>1. \E x \in {a, b} : \A y \in {a, b} : x >= y
  <2>1. CASE a >= b
    BY <2>1
  <2>2. CASE b >= a
    BY <2>2
  <2>3. QED
    BY <2>1, <2>2
<1>2. QED
  BY <1>1 DEF Max

\* A cycle that changes its phase alone, and not to "count".
LEMMA PhaseKeeps ==
    ASSUME CycleInv, NEW c \in RecoveryCycles, NEW p \in {"idle", "detect", "reconstruct", "list"},
           Phase(c, p), p = "list" => built # "container", UNCHANGED <<built, dead, peak, told, toldPeak>>
    PROVE  CycleInv'
  BY DEF CycleInv, Phase, AlertsTellTheTruth

LEMMA LettersKeep ==
    ASSUME CycleInv, DeadLetter \/ LetterLeaves
    PROVE  CycleInv'
<1>1. CASE DeadLetter
  <2>1. /\ dead' = dead + 1 /\ UNCHANGED <<built, cyc, told, toldPeak>>
        /\ peak' = [c \in RecoveryCycles |-> Max({peak[c], dead + 1})]
    BY <1>1 DEF DeadLetter
  <2>2. ASSUME NEW c \in RecoveryCycles
        PROVE  peak'[c] \in Nat /\ peak'[c] >= peak[c] /\ peak'[c] >= dead + 1
    BY <2>1, MaxOfTwo DEF CycleInv
  <2>3. peak' \in [RecoveryCycles -> Nat]
    BY <2>1, <2>2
  <2>4. ASSUME NEW c \in RecoveryCycles, cyc[c].phase = "count"
        PROVE  cyc[c].listed <= peak'[c] /\ dead' <= peak'[c]
    BY <2>1, <2>2, <2>4 DEF CycleInv
  <2>5. QED
    BY <2>1, <2>3, <2>4 DEF CycleInv, AlertsTellTheTruth
<1>2. CASE LetterLeaves
  BY <1>2 DEF LetterLeaves, CycleInv, AlertsTellTheTruth
<1>3. QED
  BY <1>1, <1>2

LEMMA MonitorKeeps ==
    ASSUME CycleInv, NEW c \in RecoveryCycles, ListDead(c) \/ MonitorDLQ(c) \/ MonitorFails(c)
    PROVE  CycleInv'
<1>1. CASE ListDead(c)
  BY <1>1 DEF ListDead, RestingCycle, CycleInv, AlertsTellTheTruth
<1>2. CASE MonitorDLQ(c)
  <2>1. /\ cyc[c].phase = "count" /\ cyc' = [cyc EXCEPT ![c] = RestingCycle]
        /\ UNCHANGED <<built, dead, peak>>
    BY <1>2 DEF MonitorDLQ
  <2>2. DEFINE count == CountOf(cyc[c].listed, dead)
  <2>3. count \in Nat /\ count <= peak[c] /\ peak[c] \in Nat
    BY <2>1 DEF CycleInv, CountOf
  <2>4. \/ count >= Threshold /\ told' = count /\ toldPeak' = peak[c]
        \/ UNCHANGED <<told, toldPeak>>
    BY <1>2 DEF MonitorDLQ, Breached
  <2>5. told' \in Nat /\ toldPeak' \in Nat /\ AlertsTellTheTruth'
    <3>1. built' = "module"
      BY <2>1 DEF CycleInv
    <3>2. QED
      BY <2>3, <2>4, <3>1 DEF CycleInv, AlertsTellTheTruth
  <2>6. QED
    BY <2>1, <2>5 DEF CycleInv, RestingCycle
<1>3. CASE MonitorFails(c)
  BY <1>3 DEF MonitorFails, RestingCycle, CycleInv, AlertsTellTheTruth
<1>4. QED
  BY <1>1, <1>2, <1>3

LEMMA CyclesKeepInv ==
    ASSUME CycleInv, [CycleNext]_cycleVars
    PROVE  CycleInv'
<1>1. CASE UNCHANGED cycleVars
  BY <1>1 DEF cycleVars, CycleInv, AlertsTellTheTruth
<1>2. CASE DeadLetter \/ LetterLeaves
  BY <1>2, LettersKeep
<1>3. ASSUME NEW c \in RecoveryCycles, CycleBegins(c) \/ CycleGoesOn(c) \/ MonitorFails(c)
      PROVE  CycleInv'
  <2>1. CASE CycleBegins(c) \/ DetectStale(c) \/ Reconstruct(c)
    BY <2>1, PhaseKeeps DEF CycleBegins, DetectStale, Reconstruct
  <2>2. CASE ListDead(c) \/ MonitorDLQ(c) \/ MonitorFails(c)
    BY <2>2, MonitorKeeps
  <2>3. QED
    BY <1>3, <2>1, <2>2 DEF CycleGoesOn
<1>4. QED
  BY <1>1, <1>2, <1>3 DEF CycleNext

(***************************************************************************)
(* An alert of the dead letter queue names no more letters than there were *)
(* while its cycle looked, and at least the threshold (monitorDLQ).        *)
(***************************************************************************)
THEOREM DeadLetterAlertsAreTrue == CycleSpec => []AlertsTellTheTruth
<1>1. CycleInit => CycleInv
  BY DEF CycleInit, CycleInv, RestingCycle, AlertsTellTheTruth
<1>2. CycleInv /\ [CycleNext]_cycleVars => CycleInv'
  BY CyclesKeepInv
<1>3. CycleInv => AlertsTellTheTruth
  BY DEF CycleInv
<1>4. QED
  BY <1>1, <1>2, <1>3, PTL DEF CycleSpec

-----------------------------------------------------------------------------
(* The collection of the delivery metrics *)

CollectSpec == CollectInit /\ [][CollectNext]_collectVars

StatusNames == {"PENDING", "PROCESSING", "COMPLETED", "SCHEDULED_RETRY", "FAILED_DLQ"}

\* The deliveries that stand where the collection has counted.
CountedBefore(n) == {d \in Counted : \E i \in 1..5 : i < n /\ rowIn[d] = CollectedStatuses[i]}

\* What the collection has counted.
SumBefore(n) ==
    (IF n > 1 THEN gaugeOf[1] ELSE 0) + (IF n > 2 THEN gaugeOf[2] ELSE 0)
      + (IF n > 3 THEN gaugeOf[3] ELSE 0) + (IF n > 4 THEN gaugeOf[4] ELSE 0)
      + (IF n > 5 THEN gaugeOf[5] ELSE 0)

\* It is off by the moves since the collection began.
Within(sum, size) == sum <= size + moved /\ sum >= size - moved

CollectInv ==
    /\ at \in 0..5 /\ moved \in Nat /\ ended \in BOOLEAN
    /\ rowIn \in [Counted -> StatusNames]
    /\ gaugeOf \in [1..5 -> Nat]
    /\ at # 0 => ~ended /\ Within(SumBefore(at), Cardinality(CountedBefore(at)))
    /\ ended => Within(SumBefore(6), Cardinality(Counted))

LEMMA FiveStatuses ==
    /\ Len(CollectedStatuses) = 5 /\ DOMAIN CollectedStatuses = 1..5
    /\ CollectedStatuses[1] = "PENDING" /\ CollectedStatuses[2] = "PROCESSING"
    /\ CollectedStatuses[3] = "COMPLETED" /\ CollectedStatuses[4] = "SCHEDULED_RETRY"
    /\ CollectedStatuses[5] = "FAILED_DLQ"
  BY DEF CollectedStatuses

LEMMA CountsAreFinite ==
    /\ IsFiniteSet(Counted) /\ Cardinality(Counted) \in Nat
    /\ \A S \in SUBSET Counted : IsFiniteSet(S) /\ Cardinality(S) \in Nat
  BY DaemonsAssumption, FS_Subset, FS_CardinalityType

\* The next count is of the deliveries that come next.
LEMMA CountGoesOn ==
    ASSUME rowIn \in [Counted -> StatusNames], NEW n \in 1..5
    PROVE  /\ CountByStatus(n) \in Nat
           /\ Cardinality(CountedBefore(n + 1)) = Cardinality(CountedBefore(n)) + CountByStatus(n)
<1> DEFINE A == CountedBefore(n)
           B == {d \in Counted : rowIn[d] = CollectedStatuses[n]}
<1>1. A \in SUBSET Counted /\ B \in SUBSET Counted
  BY DEF CountedBefore
<1>2. CountedBefore(n + 1) = A \cup B
  <2>1. \A i \in 1..5 : i < n + 1 <=> (i < n \/ i = n)
    OBVIOUS
  <2>2. QED
    BY <2>1 DEF CountedBefore
<1>3. A \cap B = {}
  <2>1. \A i, j \in 1..5 : i < j => CollectedStatuses[i] # CollectedStatuses[j]
    BY FiveStatuses
  <2>2. QED
    BY <2>1 DEF CountedBefore
<1>4. IsFiniteSet(A) /\ IsFiniteSet(B) /\ Cardinality(A) \in Nat /\ Cardinality(B) \in Nat
  BY <1>1, CountsAreFinite
<1>5. Cardinality(A \cup B) = Cardinality(A) + Cardinality(B)
  <2> HIDE DEF A, B
  <2>1. Cardinality(A \cup B) = Cardinality(A) + Cardinality(B) - Cardinality(A \cap B)
    BY <1>4, FS_Union
  <2>2. Cardinality(A \cap B) = 0
    BY <1>3, FS_EmptySet
  <2>3. QED
    BY <1>4, <2>1, <2>2
<1>6. QED
  BY <1>2, <1>4, <1>5 DEF CountByStatus

LEMMA NothingBefore == CountedBefore(1) = {} /\ SumBefore(1) = 0
  BY DEF CountedBefore, SumBefore

LEMMA AllBefore ==
    ASSUME rowIn \in [Counted -> StatusNames]
    PROVE  CountedBefore(6) = Counted
<1>1. \A d \in Counted : \E i \in 1..5 : rowIn[d] = CollectedStatuses[i]
  BY FiveStatuses DEF StatusNames
<1>2. \A i \in 1..5 : i < 6
  OBVIOUS
<1>3. QED
  BY <1>1, <1>2 DEF CountedBefore

\* Two sets that differ in one element differ by one in size.
LEMMA OneMoved ==
    ASSUME NEW S, NEW T, NEW d, IsFiniteSet(S), IsFiniteSet(T),
           S \subseteq T \cup {d}, T \subseteq S \cup {d}
    PROVE  Cardinality(S) <= Cardinality(T) + 1 /\ Cardinality(T) <= Cardinality(S) + 1
<1>1. ASSUME NEW U, NEW V, IsFiniteSet(U), IsFiniteSet(V), U \subseteq V \cup {d}
      PROVE  Cardinality(U) <= Cardinality(V) + 1
  <2>1. IsFiniteSet(V \cup {d}) /\ Cardinality(V \cup {d}) <= Cardinality(V) + 1
    <3>1. Cardinality(V) \in Nat
      BY <1>1, FS_CardinalityType
    <3>2. /\ IsFiniteSet(V \cup {d})
          /\ Cardinality(V \cup {d}) = IF d \in V THEN Cardinality(V) ELSE Cardinality(V) + 1
      BY <1>1, FS_AddElement
    <3>3. QED
      BY <3>1, <3>2
  <2>2. Cardinality(U) <= Cardinality(V \cup {d})
    BY <1>1, <2>1, FS_Subset
  <2>3. Cardinality(U) \in Nat /\ Cardinality(V) \in Nat /\ Cardinality(V \cup {d}) \in Nat
    BY <1>1, <2>1, FS_CardinalityType
  <2>4. QED
    BY <2>1, <2>2, <2>3
<1>2. QED
  BY <1>1

LEMMA MovesStayNear ==
    ASSUME CollectInv, NEW d \in Counted, StatusMoves(d)
    PROVE  CollectInv'
<1>1. PICK to \in MoveTo[rowIn[d]] : rowIn' = [rowIn EXCEPT ![d] = to]
  BY DEF StatusMoves
<1>2. rowIn[d] \in StatusNames /\ MoveTo[rowIn[d]] \subseteq StatusNames
  BY DEF CollectInv, StatusNames, MoveTo
<1>3. rowIn' \in [Counted -> StatusNames]
  BY <1>1, <1>2 DEF CollectInv
<1>4. UNCHANGED <<at, gaugeOf, ended>> /\ moved' = IF at = 0 THEN moved ELSE moved + 1
  BY DEF StatusMoves
<1>5. CASE at = 0
  BY <1>3, <1>4, <1>5 DEF CollectInv, Within, SumBefore
<1>6. CASE at # 0
  <2> DEFINE S == CountedBefore(at)
             T == CountedBefore(at)'
  <2>1. S \in SUBSET Counted /\ T \in SUBSET Counted
    BY DEF CountedBefore
  <2>2. S \subseteq T \cup {d} /\ T \subseteq S \cup {d}
    BY <1>1, <1>4 DEF CountedBefore, CollectInv
  <2>3. IsFiniteSet(S) /\ IsFiniteSet(T) /\ Cardinality(S) \in Nat /\ Cardinality(T) \in Nat
    BY <2>1, CountsAreFinite
  <2>4. Cardinality(S) <= Cardinality(T) + 1 /\ Cardinality(T) <= Cardinality(S) + 1
    <3> HIDE DEF S, T
    <3>1. QED
      BY ONLY <2>2, <2>3, OneMoved
  <2>5. SumBefore(at)' = SumBefore(at) /\ SumBefore(at) \in Nat
    BY <1>4 DEF SumBefore, CollectInv
  <2>6. Within(SumBefore(at), Cardinality(S)) /\ ~ended /\ moved \in Nat /\ moved' = moved + 1
    BY <1>4, <1>6 DEF CollectInv
  <2>7. Within(SumBefore(at), Cardinality(S))'
    <3> DEFINE x == SumBefore(at)
               c == Cardinality(S)
               e == Cardinality(T)
    <3>1. x <= c + moved /\ x >= c - moved /\ x \in Nat /\ c \in Nat /\ e \in Nat /\ c <= e + 1 /\ e <= c + 1
      BY <2>3, <2>4, <2>5, <2>6 DEF Within
    <3> HIDE DEF x, c, e
    <3>2. x <= e + moved' /\ x >= e - moved'
      BY <2>6, <3>1
    <3>3. QED
      BY <2>5, <3>2 DEF Within, x, e
  <2>8. QED
    BY <1>3, <1>4, <2>6, <2>7 DEF CollectInv
<1>7. QED
  BY <1>5, <1>6

LEMMA CountsStayNear ==
    ASSUME CollectInv, CountStatus
    PROVE  CollectInv'
<1>1. at \in 1..5 /\ rowIn' = rowIn /\ moved' = moved /\ ~ended
  BY DEF CountStatus, CollectInv
<1>2. CASE replies = "record"
  BY <1>1, <1>2 DEF CountStatus, CollectInv
<1>3. CASE replies # "record"
  <2>1. /\ gaugeOf' = [gaugeOf EXCEPT ![at] = CountByStatus(at)]
        /\ at' = IF at = 5 THEN 0 ELSE at + 1
        /\ ended' = (at = 5)
    BY <1>1, <1>3, FiveStatuses DEF CountStatus
  <2>2. /\ CountByStatus(at) \in Nat
        /\ Cardinality(CountedBefore(at + 1)) = Cardinality(CountedBefore(at)) + CountByStatus(at)
    BY <1>1, CountGoesOn DEF CollectInv
  <2>3. gaugeOf' \in [1..5 -> Nat]
    BY <2>1, <2>2 DEF CollectInv
  <2>4. ASSUME NEW n \in 1..5, n = at
        PROVE  SumBefore(n + 1)' = SumBefore(n) + CountByStatus(n) /\ SumBefore(n) \in Nat
    <3> DEFINE c == CountByStatus(n)
    <3>1. gaugeOf' = [gaugeOf EXCEPT ![n] = c] /\ c \in Nat /\ gaugeOf \in [1..5 -> Nat]
      BY <2>1, <2>2, <2>4 DEF CollectInv
    <3>2. n \in {1, 2, 3, 4, 5}
      BY <2>4
    <3> HIDE DEF c
    <3>3. gaugeOf'[n] = c /\ \A i \in 1..5 : i # n => gaugeOf'[i] = gaugeOf[i]
      BY <3>1
    <3>4. \A i \in 1..5 : gaugeOf[i] \in Nat
      BY <3>1
    <3>5. QED
      BY <3>1, <3>2, <3>3, <3>4 DEF SumBefore, c
  <2>5. ASSUME NEW n \in 1..5, n = at
        PROVE  Within(SumBefore(n + 1), Cardinality(CountedBefore(n + 1)))'
    <3> DEFINE x == SumBefore(n)
               c == CountByStatus(n)
               z == Cardinality(CountedBefore(n))
    <3>1. Within(x, z) /\ moved \in Nat
      BY <1>1, <2>5 DEF CollectInv
    <3>2. SumBefore(n + 1)' = x + c /\ x \in Nat
      BY <2>4, <2>5
    <3>3. Cardinality(CountedBefore(n + 1))' = z + c /\ z \in Nat /\ c \in Nat
      <4>1. CountedBefore(n + 1)' = CountedBefore(n + 1) /\ CountedBefore(n) \in SUBSET Counted
        BY <1>1 DEF CountedBefore
      <4>2. QED
        BY <2>2, <2>5, <4>1, CountsAreFinite
    <3> HIDE DEF x, c, z
    <3>4. QED
      BY <1>1, <3>1, <3>2, <3>3 DEF Within
  <2>6. CASE at = 5
    <3>1. Within(SumBefore(6), Cardinality(CountedBefore(6)))'
      BY <2>5, <2>6
    <3>2. CountedBefore(6)' = Counted
      BY <1>1, AllBefore DEF CollectInv, CountedBefore
    <3>3. Within(SumBefore(6), Cardinality(Counted))'
      BY <3>1, <3>2 DEF Within
    <3>4. QED
      BY <1>1, <2>1, <2>3, <2>6, <3>3 DEF CollectInv
  <2>7. CASE at # 5
    <3>1. at' \in 0..5 /\ at' # 0 /\ ~ended' /\ ended' \in BOOLEAN
      <4>1. at' = at + 1 /\ ~ended' /\ ended' \in BOOLEAN
        BY <2>1, <2>7
      <4>2. QED
        BY <1>1, <2>7, <4>1
    <3>2. Within(SumBefore(at), Cardinality(CountedBefore(at)))'
      <4>1. PICK n \in 1..5 : n = at
        BY <1>1
      <4>2. at' = n + 1
        BY <2>1, <2>7, <4>1
      <4>3. Within(SumBefore(n + 1), Cardinality(CountedBefore(n + 1)))'
        BY <2>5, <4>1
      <4>4. QED
        BY <4>2, <4>3 DEF Within, SumBefore, CountedBefore
    <3>3. rowIn' \in [Counted -> StatusNames] /\ moved' \in Nat
      BY <1>1 DEF CollectInv
    <3>4. QED
      BY <2>3, <3>1, <3>2, <3>3 DEF CollectInv
  <2>8. QED
    BY <2>6, <2>7
<1>4. QED
  BY <1>2, <1>3

(***************************************************************************)
(* For any deliveries and however many of them move while it counts, the   *)
(* gauges of a collection add up to their number, up to one for each move; *)
(* with the record of the shipped repository they stay at zero.            *)
(***************************************************************************)
THEOREM CollectionsAreNear == CollectSpec => []CountsAreNear
<1> DEFINE Untouched == replies = "record" => ~ended /\ \A i \in DOMAIN gaugeOf : gaugeOf[i] = 0
<1>5. CollectInit => Untouched
  BY FiveStatuses DEF CollectInit
<1>6. Untouched /\ [CollectNext]_collectVars => Untouched'
  BY DEF CollectNext, Aggregate, CountStatus, StatusMoves, collectVars
<1>1. CollectInit => CollectInv
  <2>1. SUFFICES ASSUME CollectInit PROVE CollectInv
    OBVIOUS
  <2>2. gaugeOf \in [1..5 -> Nat]
    BY <2>1, FiveStatuses DEF CollectInit
  <2>3. rowIn \in [Counted -> StatusNames]
    BY <2>1 DEF CollectInit, StatusNames
  <2>4. at = 0 /\ moved = 0
    BY <2>1 DEF CollectInit
  <2>5. ended \in BOOLEAN /\ ~ended
    BY <2>1 DEF CollectInit
  <2>6. QED
    BY <2>2, <2>3, <2>4, <2>5 DEF CollectInv
<1>2. CollectInv /\ [CollectNext]_collectVars => CollectInv'
  <2>1. SUFFICES ASSUME CollectInv, [CollectNext]_collectVars PROVE CollectInv'
    OBVIOUS
  <2>2. CASE Aggregate
    <3>1. at' = 1 /\ moved' = 0 /\ ended' = FALSE /\ rowIn' = rowIn /\ gaugeOf' = gaugeOf
      BY <2>2 DEF Aggregate
    <3>2. CountedBefore(1)' = {} /\ SumBefore(1)' = 0
      BY <3>1, NothingBefore DEF CountedBefore, SumBefore
    <3>3. Within(SumBefore(at), Cardinality(CountedBefore(at)))'
      <4>1. Cardinality({}) = 0
        BY FS_EmptySet
      <4>2. Within(SumBefore(1), Cardinality(CountedBefore(1)))'
        BY <3>1, <3>2, <4>1 DEF Within
      <4>3. QED
        BY <3>1, <4>2 DEF Within, SumBefore, CountedBefore
    <3>4. at' \in 0..5 /\ moved' \in Nat
      BY <3>1
    <3>5. ended' \in BOOLEAN /\ ~ended'
      BY ONLY <3>1
    <3>6. rowIn' \in [Counted -> StatusNames] /\ gaugeOf' \in [1..5 -> Nat]
      BY <2>1, <3>1 DEF CollectInv
    <3>7. QED
      BY <3>3, <3>4, <3>5, <3>6 DEF CollectInv
  <2>3. CASE UNCHANGED collectVars
    BY <2>1, <2>3 DEF CollectInv, collectVars, Within, SumBefore, CountedBefore
  <2>4. QED
    BY <2>1, <2>2, <2>3, CountsStayNear, MovesStayNear DEF CollectNext
<1>3. CollectInv /\ Untouched => CountsAreNear
  <2>1. SUFFICES ASSUME CollectInv, ended
                 PROVE  LET total == gaugeOf[1] + gaugeOf[2] + gaugeOf[3] + gaugeOf[4] + gaugeOf[5] IN
                        /\ total <= Cardinality(Counted) + moved
                        /\ total >= Cardinality(Counted) - moved
    BY DEF CountsAreNear
  <2>2. Within(SumBefore(6), Cardinality(Counted))
    BY <2>1 DEF CollectInv
  <2>3. SumBefore(6) = gaugeOf[1] + gaugeOf[2] + gaugeOf[3] + gaugeOf[4] + gaugeOf[5]
    BY DEF SumBefore
  <2>4. QED
    BY <2>2, <2>3 DEF Within
<1>4. QED
  BY <1>1, <1>2, <1>3, <1>5, <1>6, PTL DEF CollectSpec

-----------------------------------------------------------------------------
(* Dashboard: the page on the screen *)

PageSpec == PageInit /\ [][PageNext]_pageVars

PageInv == mount \in Nat /\ OneTimerPolls

LEMMA PagesKeepInv ==
    ASSUME PageInv, [PageNext]_pageVars
    PROVE  PageInv'
<1>1. ASSUME NEW p \in Pages, Mount(p) PROVE PageInv'
  BY <1>1 DEF Mount, NextTimers, PageInv, OneTimerPolls, Polling
<1>2. CASE UNCHANGED <<page, mount, timers>>
  BY <1>2 DEF PageInv, OneTimerPolls
<1>3. CASE PageNext
  <2>2. CASE ChangePage
    BY <1>1, <2>2 DEF ChangePage
  <2>3. CASE RefreshPage
    BY <2>3 DEF RefreshPage, Mount, NextTimers, PageInv, OneTimerPolls, Polling
  <2>4. CASE PollTimer \/ BackendChanges \/ \E n \in 1..MaxPolls : PollSettles(n)
    BY <1>2, <2>4 DEF PollTimer, BackendChanges, PollSettles, BackendAnswers, PollArrives
  <2>5. QED
    BY <1>3, <2>2, <2>3, <2>4 DEF PageNext
<1>4. QED
  BY <1>2, <1>3 DEF pageVars

-----------------------------------------------------------------------------
(* Dashboard: the explorer *)

ExplorerSpec == ExplorerInit /\ [][ExplorerNext]_explorerVars

(***************************************************************************)
(* The rows on the screen, or those that every load under way will bring,  *)
(* are the ones the filters ask for.                                       *)
(***************************************************************************)
ExplorerInv ==
    /\ loads = {} => ~spinning
    /\ \/ typed \/ excused
       \/ IF loads = {} THEN rowsOf = filters ELSE \A q \in loads : q.filters = filters

\* The loads begun are for the filters asked, and at least one.
LEMMA LoadsAreFor ==
    ASSUME NEW asked, LoadDeliveries(asked), asked # {}
    PROVE  /\ loads' # {} /\ typed' = FALSE
           /\ \A q \in loads' : q \in loads \/ q.filters \in asked
<1>1. PICK f \in [asked -> Unused(loads, MaxLoads)] :
        loads' = loads \cup {[n |-> f[a], filters |-> a] : a \in asked}
  BY DEF LoadDeliveries
<1>2. PICK first \in asked : TRUE
  OBVIOUS
<1>3. [n |-> f[first], filters |-> first] \in loads'
  BY <1>1
<1>4. \A q \in loads' : q \in loads \/ q.filters \in asked
  BY <1>1
<1>5. typed' = FALSE
  BY DEF LoadDeliveries
<1>6. QED
  BY <1>3, <1>4, <1>5

LEMMA ExplorerKeepsInv ==
    ASSUME ExplorerInv, [ExplorerNext]_explorerVars
    PROVE  ExplorerInv'
<1>1. CASE UNCHANGED explorerVars
  BY <1>1 DEF explorerVars, ExplorerInv
<1>2. CASE TypeText
  BY <1>2 DEF TypeText, ExplorerInv
<1>3. CASE SearchDeliveries
  <2>1. LoadDeliveries({filters}) /\ {filters} # {}
    BY <1>3 DEF SearchDeliveries
  <2>2. /\ loads' # {}
        /\ \A q \in loads' : q \in loads \/ q.filters \in {filters}
    BY ONLY <2>1, LoadsAreFor
  <2>3. QED
    BY <1>3, <2>2 DEF SearchDeliveries, ExplorerInv
<1>4. CASE HandleResetFilters
  <2>1. PICK asked : LoadDeliveries(asked) /\ asked # {}
    BY <1>4 DEF HandleResetFilters
  <2>2. loads' # {}
    BY ONLY <2>1, LoadsAreFor
  <2>3. QED
    BY <1>4, <2>2 DEF HandleResetFilters, ExplorerInv
<1>5. ASSUME NEW status, ChooseStatus(status) PROVE ExplorerInv'
  <2>1. LoadDeliveries({filters'}) /\ {filters'} # {}
    BY <1>5 DEF ChooseStatus, AskedWith
  <2>2. /\ loads' # {}
        /\ \A q \in loads' : q \in loads \/ q.filters \in {filters'}
    BY ONLY <2>1, LoadsAreFor
  <2>3. QED
    BY <1>5, <2>2 DEF ChooseStatus, ExplorerInv
<1>6. ASSUME NEW q \in loads, LoadArrives(q) PROVE ExplorerInv'
  BY <1>6 DEF LoadArrives, ExplorerInv
<1>7. CASE ClickRetry
  BY <1>7 DEF ClickRetry, ExplorerInv
<1>8. CASE OnRetrySuccess
  <2>1. LoadDeliveries({retried}) /\ {retried} # {}
    BY <1>8 DEF OnRetrySuccess
  <2>2. /\ loads' # {}
        /\ \A q \in loads' : q \in loads \/ q.filters \in {retried}
    BY ONLY <2>1, LoadsAreFor
  <2>3. excused' = (loads # {} \/ retried # filters) /\ filters' = filters
    BY <1>8 DEF OnRetrySuccess
  <2>4. CASE loads = {} /\ retried = filters
    BY <2>2, <2>3, <2>4 DEF ExplorerInv
  <2>5. CASE loads # {} \/ retried # filters
    BY <2>2, <2>3, <2>5 DEF ExplorerInv
  <2>6. QED
    BY <2>4, <2>5
<1>9. QED
  BY <1>1, <1>2, <1>3, <1>4, <1>5, <1>6, <1>7, <1>8 DEF ExplorerNext

-----------------------------------------------------------------------------
(* Dashboard: retries of the dead letter queue *)

DlqSpec == DlqInit /\ [][DlqNext]_dlqVars

Posted(S, i) == {q \in S : q.item = i /\ q.at # "answered"}
RowPosts(S, i) == {q \in S : q.item = i /\ q.by = "row"}

DlqTypes ==
    /\ backlog \subseteq Failed /\ listed \subseteq Listable
    /\ modal.open \in Listable \cup {"none"}
    /\ modal = [open |-> modal.open, retrying |-> modal.retrying]
    /\ \A q \in fetches : q = [n |-> q.n, answer |-> q.answer] /\ q.answer \subseteq Listable
    /\ IsFiniteSet(posts)
    /\ \A q \in posts : /\ q = [item |-> q.item, by |-> q.by, n |-> q.n, at |-> q.at]
                       /\ q.item \in Listable
    /\ clicks \in [Listable -> Nat] /\ requeues \in [Listable -> Nat] /\ lost \in [Listable -> Nat]

(***************************************************************************)
(* Each retry under way may still take effect once; the button of a row    *)
(* that is retried stays disabled, unless the row was disturbed, and then  *)
(* only one retry is under way for it.                                     *)
(***************************************************************************)
RequeuesInv ==
    \A i \in Listable : requeues[i] + Cardinality(Posted(posts, i)) <= clicks[i] + lost[i]
ButtonsInv ==
    \A i \in Listable \ disturbed :
        /\ \A p, q \in RowPosts(posts, i) : p = q
        /\ RowPosts(posts, i) # {} => retryingId = i
DlqInv == DlqTypes /\ RequeuesInv /\ ButtonsInv

LEMMA PostedFinite ==
    ASSUME NEW S, IsFiniteSet(S), NEW i
    PROVE  IsFiniteSet(Posted(S, i)) /\ Cardinality(Posted(S, i)) \in Nat
  BY FS_Subset, FS_CardinalityType DEF Posted

\* A click posts at most one more request, for its item.
LEMMA OneMorePost ==
    ASSUME NEW S, IsFiniteSet(S), NEW q, NEW i
    PROVE  /\ IsFiniteSet(S \cup {q})
           /\ q.item # i => Posted(S \cup {q}, i) = Posted(S, i)
           /\ Cardinality(Posted(S \cup {q}, i)) <= Cardinality(Posted(S, i)) + 1
<1>1. IsFiniteSet(S \cup {q})
  BY FS_AddElement
<1>2. CASE q.item = i /\ q.at # "answered" /\ q \notin Posted(S, i)
  <2>1. Posted(S \cup {q}, i) = Posted(S, i) \cup {q}
    BY <1>2 DEF Posted
  <2>2. IsFiniteSet(Posted(S, i)) /\ Cardinality(Posted(S, i)) \in Nat
    BY PostedFinite
  <2>3. Cardinality(Posted(S, i) \cup {q}) = Cardinality(Posted(S, i)) + 1
    BY <1>2, <2>2, FS_AddElement
  <2>4. QED
    BY <1>1, <1>2, <2>1, <2>2, <2>3
<1>3. CASE ~(q.item = i /\ q.at # "answered" /\ q \notin Posted(S, i))
  <2>1. Posted(S \cup {q}, i) = Posted(S, i)
    BY <1>3 DEF Posted
  <2>2. QED
    BY <1>1, <2>1, PostedFinite
<1>4. QED
  BY <1>2, <1>3

\* A request that goes on leaves no more requests that may take effect, one
\* less when it is answered.
LEMMA PostGoesOn ==
    ASSUME NEW S, IsFiniteSet(S), NEW q \in S, q.at # "answered", NEW p, p.item = q.item,
           NEW T, T = (S \ {q}) \cup {p}
    PROVE  /\ IsFiniteSet(T)
           /\ \A i : i # q.item => Posted(T, i) = Posted(S, i)
           /\ Cardinality(Posted(T, q.item)) <= Cardinality(Posted(S, q.item))
           /\ p.at = "answered" =>
                Cardinality(Posted(T, q.item)) + 1 <= Cardinality(Posted(S, q.item))
<1> DEFINE rest == Posted(S, q.item) \ {q}
<1>1. IsFiniteSet(S \ {q}) /\ IsFiniteSet(T)
  BY FS_AddElement, FS_RemoveElement
<1>2. \A i : i # q.item => Posted(T, i) = Posted(S, i)
  BY DEF Posted
<1>3. IsFiniteSet(Posted(S, q.item)) /\ q \in Posted(S, q.item)
  BY PostedFinite DEF Posted
<1>4. /\ IsFiniteSet(rest) /\ Cardinality(rest) = Cardinality(Posted(S, q.item)) - 1
      /\ Cardinality(Posted(S, q.item)) \in Nat
  BY <1>3, FS_RemoveElement, FS_CardinalityType
<1>5. CASE p.at = "answered"
  <2>1. Posted(T, q.item) = rest
    BY <1>5 DEF Posted
  <2> HIDE DEF rest
  <2>2. /\ Cardinality(Posted(T, q.item)) <= Cardinality(Posted(S, q.item))
        /\ Cardinality(Posted(T, q.item)) + 1 <= Cardinality(Posted(S, q.item))
    BY <1>4, <2>1
  <2>3. QED
    BY <1>1, <1>2, <2>2
<1>6. CASE p.at # "answered"
  <2>1. Posted(T, q.item) = rest \cup {p}
    BY <1>6 DEF Posted
  <2> HIDE DEF rest
  <2>2. Cardinality(rest) \in Nat
    BY <1>4, FS_CardinalityType
  <2>3. \/ Cardinality(rest \cup {p}) = Cardinality(rest)
        \/ Cardinality(rest \cup {p}) = Cardinality(rest) + 1
    BY <1>4, FS_AddElement
  <2>4. Cardinality(Posted(T, q.item)) <= Cardinality(Posted(S, q.item))
    BY <1>4, <2>1, <2>2, <2>3
  <2>5. QED
    BY <1>1, <1>2, <1>6, <2>4
<1>7. QED
  BY <1>5, <1>6

\* A request that was answered and has gone leaves the others as they were.
LEMMA PostGoes ==
    ASSUME NEW S, IsFiniteSet(S), NEW q \in S, q.at = "answered"
    PROVE  IsFiniteSet(S \ {q}) /\ \A i : Posted(S \ {q}, i) = Posted(S, i)
  BY FS_RemoveElement DEF Posted

\* Steps that leave the retries alone.
LEMMA RetriesStay ==
    ASSUME DlqInv, UNCHANGED <<posts, requeues, clicks, lost, disturbed, retryingId>>
    PROVE  RequeuesInv' /\ ButtonsInv'
  BY DEF DlqInv, RequeuesInv, ButtonsInv, Posted, RowPosts

\* A click on item i.
LEMMA ClickKeeps ==
    ASSUME DlqInv, NEW i \in Listable, NEW by, Click(i, by), UNCHANGED <<requeues, lost>>
    PROVE  /\ RequeuesInv' /\ IsFiniteSet(posts') /\ clicks' \in [Listable -> Nat]
           /\ \A q \in posts' : /\ q = [item |-> q.item, by |-> q.by, n |-> q.n, at |-> q.at]
                               /\ q.item \in Listable
           /\ \E n : posts' = posts \cup {[item |-> i, by |-> by, n |-> n, at |-> "first"]}
<1> DEFINE q == [item |-> i, by |-> by, n |-> AllClicks + 1, at |-> "first"]
<1>1. posts' = posts \cup {q} /\ clicks' = [clicks EXCEPT ![i] = @ + 1]
  BY DEF Click
<1>2. q.item = i /\ q = [item |-> q.item, by |-> q.by, n |-> q.n, at |-> q.at]
  OBVIOUS
<1>3. clicks' \in [Listable -> Nat]
  BY <1>1 DEF DlqInv, DlqTypes
<1>4. \E n : posts' = posts \cup {[item |-> i, by |-> by, n |-> n, at |-> "first"]}
  BY <1>1
<1> HIDE DEF q
<1>5. IsFiniteSet(posts) /\ IsFiniteSet(posts')
  BY <1>1, OneMorePost DEF DlqInv, DlqTypes
<1>6. ASSUME NEW k \in Listable
      PROVE  requeues'[k] + Cardinality(Posted(posts', k)) <= clicks'[k] + lost'[k]
  <2>1. /\ requeues'[k] \in Nat /\ clicks[k] \in Nat /\ lost'[k] \in Nat
        /\ requeues'[k] + Cardinality(Posted(posts, k)) <= clicks[k] + lost'[k]
    BY DEF DlqInv, DlqTypes, RequeuesInv
  <2>2. Cardinality(Posted(posts, k)) \in Nat /\ Cardinality(Posted(posts', k)) \in Nat
    BY <1>5, PostedFinite
  <2>3. /\ k # i => Posted(posts', k) = Posted(posts, k)
        /\ Cardinality(Posted(posts', k)) <= Cardinality(Posted(posts, k)) + 1
    BY <1>1, <1>2, <1>5, OneMorePost
  <2>4. clicks'[k] = IF k = i THEN clicks[k] + 1 ELSE clicks[k]
    BY <1>1 DEF DlqInv, DlqTypes
  <2>5. QED
    BY <2>1, <2>2, <2>3, <2>4
<1>7. QED
  BY <1>1, <1>2, <1>3, <1>4, <1>5, <1>6 DEF DlqInv, DlqTypes, RequeuesInv

LEMMA RowRetryKeeps ==
    ASSUME DlqInv, NEW i \in Listable, HandleRetryItem(i)
    PROVE  DlqInv'
<1>1. /\ retryingId # i /\ retryingId' = i /\ disturbed' = disturbed \cup OtherRows(i)
      /\ Click(i, "row") /\ UNCHANGED <<backlog, listed, modal, fetches, reloads, requeues, lost>>
  BY DEF HandleRetryItem
<1>2. /\ RequeuesInv' /\ DlqTypes'
      /\ \E n : posts' = posts \cup {[item |-> i, by |-> "row", n |-> n, at |-> "first"]}
  <2>1. /\ RequeuesInv' /\ IsFiniteSet(posts') /\ clicks' \in [Listable -> Nat]
        /\ \A q \in posts' : /\ q = [item |-> q.item, by |-> q.by, n |-> q.n, at |-> q.at]
                            /\ q.item \in Listable
        /\ \E n : posts' = posts \cup {[item |-> i, by |-> "row", n |-> n, at |-> "first"]}
    BY <1>1, ClickKeeps
  <2>2. DlqTypes'
    BY <1>1, <2>1 DEF DlqInv, DlqTypes
  <2>3. QED
    BY <2>1, <2>2
<1>3. PICK n : posts' = posts \cup {[item |-> i, by |-> "row", n |-> n, at |-> "first"]}
  BY <1>2
<1>4. ASSUME NEW k \in Listable, k \notin disturbed'
      PROVE  /\ \A p, q \in RowPosts(posts', k) : p = q
             /\ RowPosts(posts', k) # {} => retryingId' = k
  <2>1. k \notin disturbed /\ k \notin OtherRows(i)
    BY <1>1, <1>4
  <2>2. CASE k = i
    <3>1. RowPosts(posts, k) = {}
      BY <1>1, <2>1, <2>2 DEF DlqInv, ButtonsInv
    <3>2. RowPosts(posts', k) \subseteq {[item |-> i, by |-> "row", n |-> n, at |-> "first"]}
      BY <1>3, <3>1 DEF RowPosts
    <3>3. QED
      BY <1>1, <2>2, <3>2
  <2>3. CASE k # i
    <3>1. RowPosts(posts, k) = {}
      BY <2>1, <2>3 DEF OtherRows, RetriedRows, RowPosts
    <3>2. RowPosts(posts', k) = {}
      BY <1>3, <2>3, <3>1 DEF RowPosts
    <3>3. QED
      BY <3>2
  <2>4. QED
    BY <2>2, <2>3
<1>5. QED
  BY <1>2, <1>4 DEF DlqInv, ButtonsInv

\* The modal: opened, closed, and its retry, which is no row's.
LEMMA ModalKeeps ==
    ASSUME DlqInv, (\E i \in Listable : OpenModal(i)) \/ CloseModal \/ HandleRetry
    PROVE  DlqInv'
<1>1. CASE (\E i \in Listable : OpenModal(i)) \/ CloseModal
  <2>1. UNCHANGED <<backlog, listed, retryingId, posts, fetches, reloads, clicks, requeues, lost, disturbed>>
    BY <1>1 DEF OpenModal, CloseModal
  <2>2. modal'.open \in Listable \cup {"none"} /\ modal' = [open |-> modal'.open, retrying |-> modal'.retrying]
    BY <1>1 DEF OpenModal, CloseModal, DlqInv, DlqTypes
  <2>3. QED
    BY <2>1, <2>2, RetriesStay DEF DlqInv, DlqTypes
<1>2. CASE HandleRetry
  <2>1. /\ modal.open \in Listable /\ modal' = [modal EXCEPT !.retrying = TRUE]
        /\ Click(modal.open, "modal")
        /\ UNCHANGED <<backlog, listed, retryingId, fetches, reloads, requeues, lost, disturbed>>
    BY <1>2 DEF HandleRetry, DlqInv, DlqTypes
  <2>2. modal'.open \in Listable \cup {"none"} /\ modal' = [open |-> modal'.open, retrying |-> modal'.retrying]
    BY <2>1 DEF DlqInv, DlqTypes
  <2>3. PICK i \in Listable : i = modal.open
    BY <2>1
  <2>4. Click(i, "modal") /\ UNCHANGED <<requeues, lost>>
    BY <2>1, <2>3
  <2>5. /\ RequeuesInv' /\ IsFiniteSet(posts') /\ clicks' \in [Listable -> Nat]
        /\ \A q \in posts' : /\ q = [item |-> q.item, by |-> q.by, n |-> q.n, at |-> q.at]
                            /\ q.item \in Listable
        /\ \E n : posts' = posts \cup {[item |-> i, by |-> "modal", n |-> n, at |-> "first"]}
    BY <2>4, ClickKeeps
  <2>6. \A k : RowPosts(posts', k) = RowPosts(posts, k)
    BY <2>5 DEF RowPosts
  <2>7. DlqTypes'
    BY <2>1, <2>2, <2>5 DEF DlqInv, DlqTypes
  <2>8. ButtonsInv'
    BY <2>1, <2>6 DEF DlqInv, ButtonsInv
  <2>9. QED
    BY <2>5, <2>7, <2>8 DEF DlqInv
<1>3. QED
  BY <1>1, <1>2

LEMMA PostKeeps ==
    ASSUME DlqInv, NEW q \in posts, PostRetry(q)
    PROVE  DlqInv'
<1>1. PICK heard \in BOOLEAN :
        /\ posts' = (posts \ {q}) \cup {[q EXCEPT !.at = NextPost(q, heard)]}
        /\ \/ TakesEffect(q.item) /\ lost' = [lost EXCEPT ![q.item] = IF heard THEN @ ELSE @ + 1]
           \/ ~heard /\ UNCHANGED <<backlog, requeues, lost>>
  BY DEF PostRetry
<1>2. /\ q.at # "answered"
      /\ UNCHANGED <<listed, retryingId, modal, fetches, reloads, clicks, disturbed>>
  BY DEF PostRetry
<1> DEFINE p == [q EXCEPT !.at = NextPost(q, heard)]
<1>3. /\ p = [item |-> p.item, by |-> p.by, n |-> p.n, at |-> p.at]
      /\ p.item = q.item /\ p.by = q.by /\ q.item \in Listable
      /\ heard => p.at = "answered"
  BY DEF DlqInv, DlqTypes, NextPost
<1>4. posts' = (posts \ {q}) \cup {p}
  BY <1>1
<1> HIDE DEF p
<1>5. /\ IsFiniteSet(posts) /\ IsFiniteSet(posts')
      /\ \A i : i # q.item => Posted(posts', i) = Posted(posts, i)
      /\ Cardinality(Posted(posts', q.item)) <= Cardinality(Posted(posts, q.item))
      /\ heard => Cardinality(Posted(posts', q.item)) + 1 <= Cardinality(Posted(posts, q.item))
  <2>1. IsFiniteSet(posts) /\ q \in posts /\ q.at # "answered" /\ p.item = q.item
    BY <1>2, <1>3 DEF DlqInv, DlqTypes
  <2>2. /\ IsFiniteSet(posts')
        /\ \A i : i # q.item => Posted(posts', i) = Posted(posts, i)
        /\ Cardinality(Posted(posts', q.item)) <= Cardinality(Posted(posts, q.item))
        /\ p.at = "answered" =>
             Cardinality(Posted(posts', q.item)) + 1 <= Cardinality(Posted(posts, q.item))
    BY ONLY <1>4, <2>1, PostGoesOn
  <2>3. QED
    BY <1>3, <2>1, <2>2
<1>6. /\ backlog' \subseteq Failed
      /\ requeues' = [requeues EXCEPT ![q.item] = requeues'[q.item]] /\ requeues' \in [Listable -> Nat]
      /\ lost' = [lost EXCEPT ![q.item] = lost'[q.item]] /\ lost' \in [Listable -> Nat]
      /\ requeues'[q.item] + lost[q.item] + (IF heard THEN 0 ELSE 1) <=
           requeues[q.item] + lost'[q.item] + 1
  <2>1. CASE TakesEffect(q.item) /\ lost' = [lost EXCEPT ![q.item] = IF heard THEN @ ELSE @ + 1]
    <3>1. /\ backlog' \subseteq Failed /\ requeues' = [requeues EXCEPT ![q.item] = @ + 1]
          /\ lost' = [lost EXCEPT ![q.item] = IF heard THEN @ ELSE @ + 1]
          /\ q.item \in Listable
      BY <1>3, <2>1 DEF TakesEffect, DlqInv, DlqTypes
    <3>2. /\ requeues \in [Listable -> Nat] /\ lost \in [Listable -> Nat]
          /\ requeues[q.item] \in Nat /\ lost[q.item] \in Nat
      BY <3>1 DEF DlqInv, DlqTypes
    <3>3. /\ requeues'[q.item] = requeues[q.item] + 1
          /\ lost'[q.item] = IF heard THEN lost[q.item] ELSE lost[q.item] + 1
      BY <3>1, <3>2
    <3>4. /\ requeues' = [requeues EXCEPT ![q.item] = requeues'[q.item]]
          /\ lost' = [lost EXCEPT ![q.item] = lost'[q.item]]
      BY <3>1, <3>2, <3>3
    <3>5. requeues' \in [Listable -> Nat] /\ lost' \in [Listable -> Nat]
      BY <3>2, <3>3, <3>4
    <3>6. requeues'[q.item] + lost[q.item] + (IF heard THEN 0 ELSE 1) <=
            requeues[q.item] + lost'[q.item] + 1
      BY <3>2, <3>3
    <3>7. QED
      BY <3>1, <3>4, <3>5, <3>6
  <2>2. CASE ~heard /\ UNCHANGED <<backlog, requeues, lost>>
    BY <1>3, <2>2 DEF DlqInv, DlqTypes
  <2>3. QED
    BY <1>1, <2>1, <2>2
<1>7. ASSUME NEW i \in Listable
      PROVE  requeues'[i] + Cardinality(Posted(posts', i)) <= clicks'[i] + lost'[i]
  <2>1. /\ requeues[i] \in Nat /\ clicks[i] \in Nat /\ lost[i] \in Nat
        /\ requeues[i] + Cardinality(Posted(posts, i)) <= clicks[i] + lost[i]
    BY DEF DlqInv, DlqTypes, RequeuesInv
  <2>2. Cardinality(Posted(posts, i)) \in Nat /\ Cardinality(Posted(posts', i)) \in Nat
    BY <1>5, PostedFinite
  <2>3. /\ clicks'[i] = clicks[i]
        /\ requeues'[i] \in Nat /\ lost'[i] \in Nat
        /\ i # q.item => requeues'[i] = requeues[i] /\ lost'[i] = lost[i]
    BY <1>2, <1>6 DEF DlqInv, DlqTypes
  <2>4. CASE i = q.item
    <3>1. /\ requeues'[i] + lost[i] + (IF heard THEN 0 ELSE 1) <= requeues[i] + lost'[i] + 1
          /\ Cardinality(Posted(posts', i)) <= Cardinality(Posted(posts, i))
          /\ heard => Cardinality(Posted(posts', i)) + 1 <= Cardinality(Posted(posts, i))
      BY <1>5, <1>6, <2>4
    <3>2. CASE heard
      BY <2>1, <2>2, <2>3, <3>1, <3>2
    <3>3. CASE ~heard
      BY <2>1, <2>2, <2>3, <3>1, <3>3
    <3>4. QED
      BY <3>2, <3>3
  <2>5. CASE i # q.item
    BY <1>5, <2>1, <2>3, <2>5
  <2>6. QED
    BY <2>4, <2>5
<1>8. DlqTypes'
  BY <1>2, <1>3, <1>4, <1>5, <1>6 DEF DlqInv, DlqTypes
<1>9. ASSUME NEW i \in Listable \ disturbed
      PROVE  /\ \A a, b \in RowPosts(posts', i) : a = b
             /\ RowPosts(posts', i) # {} => retryingId' = i
  <2>1. /\ \A a, b \in RowPosts(posts, i) : a = b
        /\ RowPosts(posts, i) # {} => retryingId' = i
    BY <1>2 DEF DlqInv, ButtonsInv
  <2>2. CASE p \in RowPosts(posts', i)
    <3>1. q \in RowPosts(posts, i)
      BY <1>3, <2>2 DEF RowPosts
    <3>2. RowPosts(posts', i) = {p}
      BY <1>4, <2>1, <2>2, <3>1 DEF RowPosts
    <3>3. QED
      BY <2>1, <3>1, <3>2
  <2>3. CASE p \notin RowPosts(posts', i)
    <3>1. RowPosts(posts', i) \subseteq RowPosts(posts, i)
      BY <1>4, <2>3 DEF RowPosts
    <3>2. QED
      BY <2>1, <3>1
  <2>4. QED
    BY <2>2, <2>3
<1>10. QED
  BY <1>2, <1>7, <1>8, <1>9 DEF DlqInv, RequeuesInv, ButtonsInv

LEMMA ReturnKeeps ==
    ASSUME DlqInv, NEW q \in posts, RetryReturns(q)
    PROVE  DlqInv'
<1>1. /\ q.at = "answered" /\ posts' = posts \ {q}
      /\ fetches' = fetches \cup {[n |-> q.n, answer |-> {}]}
      /\ UNCHANGED <<backlog, listed, reloads, clicks, requeues, lost>>
  BY DEF RetryReturns, FetchDLQ
<1>2. /\ IsFiniteSet(posts') /\ \A i : Posted(posts', i) = Posted(posts, i)
      /\ RequeuesInv'
  <2>1. IsFiniteSet(posts') /\ \A i : Posted(posts', i) = Posted(posts, i)
    BY <1>1, PostGoes DEF DlqInv, DlqTypes
  <2>2. QED
    BY <1>1, <2>1 DEF DlqInv, RequeuesInv
<1>3. CASE q.by = "row"
  <2>1. /\ retryingId' = "none" /\ UNCHANGED modal
        /\ disturbed' = (disturbed \cup OtherRows(q.item)) \ ({q.item} \ RetriedRows(posts \ {q}))
    BY <1>3 DEF RetryReturns
  <2>2. DlqTypes'
    BY <1>1, <1>2, <2>1 DEF DlqInv, DlqTypes
  <2>3. ASSUME NEW i \in Listable \ disturbed' PROVE RowPosts(posts', i) = {}
    <3>1. CASE i = q.item
      <4>1. i \notin disturbed \/ i \notin RetriedRows(posts \ {q})
        BY <2>1, <2>3
      <4>2. i \notin RetriedRows(posts \ {q}) => RowPosts(posts', i) = {}
        BY <1>1 DEF RetriedRows, RowPosts
      <4>3. i \notin disturbed => RowPosts(posts', i) = {}
        BY <1>1, <1>3, <3>1 DEF DlqInv, ButtonsInv, RowPosts
      <4>4. QED
        BY <4>1, <4>2, <4>3
    <3>2. CASE i # q.item
      <4>1. i \notin OtherRows(q.item)
        BY <2>1, <2>3, <3>2
      <4>2. QED
        BY <1>1, <3>2, <4>1 DEF OtherRows, RetriedRows, RowPosts
    <3>3. QED
      BY <3>1, <3>2
  <2>4. ButtonsInv'
    BY <2>3 DEF ButtonsInv
  <2>5. QED
    BY <1>2, <2>2, <2>4 DEF DlqInv
<1>4. CASE q.by # "row"
  <2>1. modal' = [modal EXCEPT !.retrying = FALSE] /\ UNCHANGED <<retryingId, disturbed>>
    BY <1>4 DEF RetryReturns
  <2>2. modal'.open = modal.open /\ modal' = [open |-> modal'.open, retrying |-> modal'.retrying]
    BY <2>1 DEF DlqInv, DlqTypes
  <2>3. DlqTypes'
    BY <1>1, <1>2, <2>2 DEF DlqInv, DlqTypes
  <2>4. \A i : RowPosts(posts', i) = RowPosts(posts, i)
    BY <1>1, <1>4 DEF RowPosts
  <2>5. ButtonsInv'
    BY <2>1, <2>4 DEF DlqInv, ButtonsInv
  <2>6. QED
    BY <1>2, <2>3, <2>5 DEF DlqInv
<1>5. QED
  BY <1>3, <1>4

\* Deletions and reloads change only what is listed and asked for.
LEMMA ListKeeps ==
    ASSUME DlqInv, \/ \E i \in Listable : HandleDeleteItem(i)
                   \/ ReloadDLQ
                   \/ \E q \in fetches : BacklogRead(q) \/ FetchArrives(q)
    PROVE  DlqInv'
<1>1. UNCHANGED <<backlog, retryingId, modal, posts, clicks, requeues, lost, disturbed>>
  BY DEF HandleDeleteItem, ReloadDLQ, BacklogRead, FetchArrives
<1>2. listed' \subseteq Listable
  BY DEF HandleDeleteItem, ReloadDLQ, BacklogRead, FetchArrives, DlqInv, DlqTypes
<1>3. \A q \in fetches' : q = [n |-> q.n, answer |-> q.answer] /\ q.answer \subseteq Listable
  <2>1. CASE (\E i \in Listable : HandleDeleteItem(i)) \/ ReloadDLQ
    BY <2>1 DEF HandleDeleteItem, ReloadDLQ, FetchDLQ, DlqInv, DlqTypes
  <2>2. ASSUME NEW q \in fetches, BacklogRead(q)
        PROVE  \A r \in fetches' : r = [n |-> r.n, answer |-> r.answer] /\ r.answer \subseteq Listable
    <3>1. PICK answer \in GetDLQJobs : fetches' = (fetches \ {q}) \cup {[q EXCEPT !.answer = answer]}
      BY <2>2 DEF BacklogRead
    <3>2. answer \subseteq Listable
      BY DEF GetDLQJobs, Listable, DlqInv, DlqTypes
    <3>3. QED
      BY <3>1, <3>2 DEF DlqInv, DlqTypes
  <2>3. ASSUME NEW q \in fetches, FetchArrives(q)
        PROVE  \A r \in fetches' : r = [n |-> r.n, answer |-> r.answer] /\ r.answer \subseteq Listable
    BY <2>3 DEF FetchArrives, DlqInv, DlqTypes
  <2>4. QED
    BY <2>1, <2>2, <2>3
<1>4. DlqTypes'
  BY <1>1, <1>2, <1>3 DEF DlqInv, DlqTypes
<1>5. QED
  BY <1>1, <1>4, RetriesStay DEF DlqInv

LEMMA DlqKeepsInv ==
    ASSUME DlqInv, [DlqNext]_dlqVars
    PROVE  DlqInv'
<1>1. CASE UNCHANGED dlqVars
  BY <1>1, RetriesStay DEF dlqVars, DlqInv, DlqTypes
<1>2. ASSUME NEW i \in Listable, HandleRetryItem(i) PROVE DlqInv'
  BY <1>2, RowRetryKeeps
<1>3. CASE (\E i \in Listable : OpenModal(i)) \/ CloseModal \/ HandleRetry
  BY <1>3, ModalKeeps
<1>4. ASSUME NEW q \in posts, PostRetry(q) \/ RetryReturns(q) PROVE DlqInv'
  BY <1>4, PostKeeps, ReturnKeeps
<1>5. CASE \/ \E i \in Listable : HandleDeleteItem(i)
           \/ ReloadDLQ
           \/ \E q \in fetches : BacklogRead(q) \/ FetchArrives(q)
  BY <1>5, ListKeeps
<1>6. QED
  BY <1>1, <1>2, <1>3, <1>4, <1>5 DEF DlqNext

LEMMA DlqBegins == DlqInit => DlqInv
<1> SUFFICES ASSUME DlqInit PROVE DlqInv
  OBVIOUS
<1>1. IsFiniteSet(posts) /\ \A i : Posted(posts, i) = {} /\ RowPosts(posts, i) = {}
  BY FS_EmptySet DEF DlqInit, Posted, RowPosts
<1>2. DlqTypes
  BY <1>1 DEF DlqInit, DlqTypes, Listable
<1>3. RequeuesInv
  BY <1>1, FS_EmptySet DEF DlqInit, RequeuesInv
<1>4. QED
  BY <1>1, <1>2, <1>3 DEF DlqInv, ButtonsInv

LEMMA RetriesAreSingle == DlqInv => OneRequeuePerClick /\ RowsRetryOneAtATime
<1> SUFFICES ASSUME DlqInv PROVE OneRequeuePerClick /\ RowsRetryOneAtATime
  OBVIOUS
<1>1. ASSUME NEW i \in Listable PROVE requeues[i] <= clicks[i] + lost[i]
  <2>1. /\ requeues[i] \in Nat /\ clicks[i] \in Nat /\ lost[i] \in Nat
        /\ requeues[i] + Cardinality(Posted(posts, i)) <= clicks[i] + lost[i]
    BY DEF DlqInv, DlqTypes, RequeuesInv
  <2>2. Cardinality(Posted(posts, i)) \in Nat
    BY PostedFinite DEF DlqInv, DlqTypes
  <2>3. QED
    BY <2>1, <2>2
<1>2. ASSUME NEW i \in Listable, i \notin disturbed
      PROVE  ~(Cardinality({q \in posts : q.item = i /\ q.by = "row"}) > 1)
  <2>1. \A p, q \in RowPosts(posts, i) : p = q
    BY <1>2 DEF DlqInv, ButtonsInv
  <2>2. RowPosts(posts, i) = {} \/ \E q : RowPosts(posts, i) = {q}
    BY <2>1
  <2>3. Cardinality(RowPosts(posts, i)) \in {0, 1}
    BY <2>2, FS_EmptySet, FS_Singleton
  <2>4. Cardinality({q \in posts : q.item = i /\ q.by = "row"}) \in {0, 1}
    BY <2>3 DEF RowPosts
  <2>5. QED
    BY <2>4
<1>3. QED
  BY <1>1, <1>2 DEF OneRequeuePerClick, RowsRetryOneAtATime

(***************************************************************************)
(* For any number of mounts, loads, clicks and failures: one timer polls,  *)
(* that of the page on the screen; when every load of the explorer has     *)
(* arrived its rows are the ones asked for; a click requeues a delivery at *)
(* most once and a row retries once at a time, but for the exceptions that *)
(* the properties name (App, DeliveryExplorer, DLQManager).                *)
(***************************************************************************)
THEOREM ScreensStayTrue ==
    /\ PageSpec => []OneTimerPolls
    /\ ExplorerSpec => []RowsMatchFilters
    /\ DlqSpec => [](OneRequeuePerClick /\ RowsRetryOneAtATime)
<1>1. PageInit => PageInv
  BY DEF PageInit, PageInv, OneTimerPolls, Polling
<1>2. PageInv /\ [PageNext]_pageVars => PageInv'
  BY PagesKeepInv
<1>3. PageInv => OneTimerPolls
  BY DEF PageInv
<1>4. ExplorerInit => ExplorerInv
  <2> SUFFICES ASSUME ExplorerInit PROVE ExplorerInv
    OBVIOUS
  <2>1. loads # {} /\ \A q \in loads : q.filters = filters
    BY DEF ExplorerInit
  <2>2. QED
    BY <2>1 DEF ExplorerInv
<1>5. ExplorerInv /\ [ExplorerNext]_explorerVars => ExplorerInv'
  BY ExplorerKeepsInv
<1>6. ExplorerInv => RowsMatchFilters
  BY DEF ExplorerInv, RowsMatchFilters
<1>7. DlqInit => DlqInv
  BY DlqBegins
<1>8. DlqInv /\ [DlqNext]_dlqVars => DlqInv'
  BY DlqKeepsInv
<1>9. DlqInv => OneRequeuePerClick /\ RowsRetryOneAtATime
  BY RetriesAreSingle
<1>10. PageSpec => []OneTimerPolls
  BY <1>1, <1>2, <1>3, PTL DEF PageSpec
<1>11. ExplorerSpec => []RowsMatchFilters
  BY <1>4, <1>5, <1>6, PTL DEF ExplorerSpec
<1>12. DlqSpec => [](OneRequeuePerClick /\ RowsRetryOneAtATime)
  BY <1>7, <1>8, <1>9, PTL DEF DlqSpec
<1>13. QED
  BY <1>10, <1>11, <1>12
=============================================================================
