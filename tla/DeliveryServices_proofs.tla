---------------------- MODULE DeliveryServices_proofs ----------------------
(***************************************************************************)
(* Proofs about DeliveryServices for any number of deliveries, callers,    *)
(* jobs and faults and whoever calls which service: rows are well formed,  *)
(* nothing is buried without a reason, and the services implement          *)
(* DeliveryContract.                                                       *)
(***************************************************************************)
EXTENDS DeliveryServices, SequenceTheorems, TLAPS

\* What a call of each service may still have to await.
Todos ==
    [process |-> {<<"save", "post">>, <<"post">>, <<"record", "save">>, <<"save">>},
     failure |-> {<<"save">>},
     retry   |-> {<<"save">>, <<"save", "enqueue">>, <<"enqueue">>},
     cancel  |-> {<<"save">>},
     recover |-> {<<"items">>, <<"save", "items">>, <<"enqueue", "save", "items">>},
     sync    |-> {<<"jobs">>, <<"checks">>, <<"enqueue", "checks">>, <<"remove", "checks">>},
     rebuild |-> {<<"pending", "scheduled">>, <<"items", "scheduled">>,
                  <<"enqueue", "items", "scheduled">>, <<"scheduled">>, <<"items">>,
                  <<"enqueue", "items">>}]

\* A delivery that waits for a retry has a time, a final one has none.
Timed(r) ==
    /\ r.status = "SCHEDULED_RETRY" => r.timed
    /\ r.status \in Final => ~r.timed

(***************************************************************************)
(* What a call carries from one await to the next: the copy it will save   *)
(* is well formed, says COMPLETED only of a payload in taken and           *)
(* FAILED_DLQ only of a delivery in lost or with a spent budget; until the *)
(* answer of the POST it says PROCESSING.                                  *)
(***************************************************************************)
Sound(k, taken, lost) ==
    k # Idle =>
        /\ k.todo \in Todos[k.svc]
        /\ Timed(k.copy)
        /\ k.copy.status = "COMPLETED" => k.delivery \in taken
        /\ k.copy.status = "FAILED_DLQ" => k.delivery \in lost \/ k.copy.count >= MaxRetries
        /\ k.todo \in {<<"save", "post">>, <<"post">>} => k.copy.status = "PROCESSING"
        /\ k.svc \in {"sync", "rebuild"} => k.copy = Created
        /\ k.svc = "recover" /\ k.todo # <<"items">> => k.copy.status # "PROCESSING"

SoundCalls == \A c \in Callers : Sound(call[c], accepted, condemned)

\* A job that will run has an attempt left.
SoundJob(b) == b.state \in {"waiting", "active", "posted"} => b.made < MaxAttempts

SoundJobs == \A j \in JobIds : SoundJob(job[j])

\* What rows report was taken.
SoundReports == \A d \in Deliveries : row[d].status = "COMPLETED" => d \in accepted

IInv == TypeOK /\ RetriesHaveATime /\ SoundCalls /\ SoundJobs /\ SoundReports

CallStates == {Idle} \cup Calls
JobStates == {NoJob} \cup Jobs

-----------------------------------------------------------------------------
(* The operators the model is built from *)

\* The methods of the entity return well-formed deliveries.
LEMMA EntityFacts ==
    ASSUME NEW r \in DeliveryRecords
    PROVE  /\ MarkAsProcessing(r) \in DeliveryRecords
           /\ MarkAsProcessing(r).status = "PROCESSING" /\ MarkAsProcessing(r).count = r.count
           /\ MarkAsCompleted(r) \in DeliveryRecords
           /\ MarkAsCompleted(r).status = "COMPLETED" /\ ~MarkAsCompleted(r).timed
           /\ MoveToDeadLetterQueue(r) \in DeliveryRecords
           /\ MoveToDeadLetterQueue(r).status = "FAILED_DLQ" /\ ~MoveToDeadLetterQueue(r).timed
           /\ MoveToDeadLetterQueue(r).count = r.count
           /\ ScheduleRetry(r) \in DeliveryRecords
           /\ ScheduleRetry(r).status = "SCHEDULED_RETRY" /\ ScheduleRetry(r).timed
  BY DEF DeliveryRecords, Statuses, MarkAsProcessing, MarkAsCompleted, MoveToDeadLetterQueue,
         ScheduleRetry

\* markFailed ends in SCHEDULED_RETRY, or in the DLQ for a failure that must
\* not be retried or a spent budget.
LEMMA MarkFailedFacts ==
    ASSUME NEW r \in DeliveryRecords, NEW again \in BOOLEAN
    PROVE  /\ MarkFailed(r, again) \in DeliveryRecords
           /\ MarkFailed(r, again).status \in {"SCHEDULED_RETRY", "FAILED_DLQ"}
           /\ again /\ MarkFailed(r, again).status = "FAILED_DLQ"
                => MarkFailed(r, again).count >= MaxRetries
<1> DEFINE counted == [r EXCEPT !.count = IF @ = 0 THEN 1 ELSE @]
           queued == [counted EXCEPT !.status = "SCHEDULED_RETRY"]
<1>1. counted \in DeliveryRecords
  BY EntityAssumption DEF DeliveryRecords
<1>2. queued \in DeliveryRecords /\ queued.status = "SCHEDULED_RETRY"
  BY <1>1 DEF DeliveryRecords, Statuses
<1>3. MarkFailed(r, again) =
        IF ~again \/ counted.count >= MaxRetries THEN MoveToDeadLetterQueue(counted) ELSE queued
  BY DEF MarkFailed
<1> HIDE DEF counted, queued
<1>4. QED
  BY <1>1, <1>2, <1>3, EntityFacts

\* The copies the services make of a row or of an item.
Buriable(copy, d, lost) == copy.status = "FAILED_DLQ" => d \in lost \/ copy.count >= MaxRetries

LEMMA FailureCopyFacts ==
    ASSUME NEW r \in DeliveryRecords, NEW again \in BOOLEAN
    PROVE  /\ FailureCopy(r, again) \in DeliveryRecords
           /\ Timed(FailureCopy(r, again))
           /\ FailureCopy(r, again).status \in {"SCHEDULED_RETRY", "FAILED_DLQ"}
           /\ again /\ FailureCopy(r, again).status = "FAILED_DLQ"
                => FailureCopy(r, again).count >= MaxRetries
<1> DEFINE base == IF CanMarkAsProcessing(r) THEN MarkAsProcessing(r) ELSE r
           failed == MarkFailed(base, again)
<1>1. base \in DeliveryRecords
  BY EntityFacts
<1>2. FailureCopy(r, again) = IF again /\ CanRetry(failed) THEN ScheduleRetry(failed)
                                                           ELSE MoveToDeadLetterQueue(failed)
  BY DEF FailureCopy
<1> HIDE DEF base
<1>3. /\ failed \in DeliveryRecords
      /\ failed.status \in {"SCHEDULED_RETRY", "FAILED_DLQ"}
      /\ again /\ failed.status = "FAILED_DLQ" => failed.count >= MaxRetries
  BY <1>1, MarkFailedFacts
<1> HIDE DEF failed
<1>4. failed.count \in Nat /\ MaxRetries \in Nat
  BY <1>3, EntityAssumption DEF DeliveryRecords
<1>5. again /\ ~CanRetry(failed) => failed.count >= MaxRetries
  BY <1>3, <1>4 DEF CanRetry, Final
<1>6. QED
  BY <1>2, <1>3, <1>5, EntityFacts DEF Timed, Final

LEMMA RecoveredCopyFacts ==
    ASSUME NEW r \in DeliveryRecords
    PROVE  /\ RecoveredCopy(r) \in DeliveryRecords
           /\ Timed(RecoveredCopy(r))
           /\ RecoveredCopy(r).status \in {"SCHEDULED_RETRY", "FAILED_DLQ"}
           /\ RecoveredCopy(r).status = "FAILED_DLQ" => RecoveredCopy(r).count >= MaxRetries
<1> DEFINE failed == MarkFailed(r, TRUE)
<1>1. RecoveredCopy(r) = IF failed.count <= MaxRetries THEN ScheduleRetry(failed)
                                                       ELSE MoveToDeadLetterQueue(failed)
  BY DEF RecoveredCopy
<1>2. failed \in DeliveryRecords
  BY MarkFailedFacts
<1> HIDE DEF failed
<1>3. failed.count \in Nat /\ MaxRetries \in Nat
  BY <1>2, EntityAssumption DEF DeliveryRecords
<1>4. QED
  BY <1>1, <1>2, <1>3, EntityFacts DEF Timed, Final

\* Heads and tails of short sequences.
LEMMA TupleFacts ==
    ASSUME NEW S, NEW a \in S, NEW b \in S, NEW c \in S
    PROVE  /\ <<a>> \in Seq(S) /\ Head(<<a>>) = a /\ Tail(<<a>>) = <<>> /\ Len(<<a>>) = 1
           /\ <<a, b>> \in Seq(S) /\ Head(<<a, b>>) = a /\ Tail(<<a, b>>) = <<b>> /\ Len(<<a, b>>) = 2
           /\ <<a, b, c>> \in Seq(S) /\ Head(<<a, b, c>>) = a /\ Tail(<<a, b, c>>) = <<b, c>>
           /\ Len(<<a, b, c>>) = 3
  OBVIOUS

\* What is left of a call after its next await.
LEMMA TodoFacts ==
    ASSUME NEW svc \in ServiceNames, NEW todo \in Todos[svc]
    PROVE  /\ todo \in Seq(Awaits) /\ Len(todo) > 0
           /\ Tail(todo) = <<>> \/ Tail(todo) \in Todos[svc]
           /\ Tail(todo) \in {<<"save", "post">>, <<"post">>} => todo = <<"save", "post">>
           /\ Head(todo) = "post" => svc = "process" /\ todo = <<"post">>
           /\ Head(todo) \in {"jobs", "checks", "remove"} => svc = "sync"
           /\ Head(todo) \in {"pending", "scheduled"} => svc = "rebuild"
           /\ svc = "recover" => Head(todo) # "record" /\ (Head(todo) = "items" => todo = <<"items">>)
           /\ svc = "recover" => (Head(todo) = "save" => Tail(todo) = <<"items">>)
           /\ svc = "recover" => todo # <<"items">> \/ Tail(todo) = <<>>
<1>1. CASE svc = "process"
  <2>1. Todos[svc] = {<<"save", "post">>, <<"post">>, <<"record", "save">>, <<"save">>}
    BY <1>1 DEF Todos
  <2>2. {"save", "post", "record"} \subseteq Awaits
    BY DEF Awaits
  <2>3. CASE todo = <<"save", "post">>
    BY <1>1, <2>1, <2>2, <2>3, TupleFacts
  <2>4. CASE todo = <<"post">>
    BY <1>1, <2>1, <2>2, <2>4, TupleFacts
  <2>5. CASE todo = <<"record", "save">>
    BY <1>1, <2>1, <2>2, <2>5, TupleFacts
  <2>6. CASE todo = <<"save">>
    BY <1>1, <2>1, <2>2, <2>6, TupleFacts
  <2>7. QED
    BY <2>1, <2>3, <2>4, <2>5, <2>6
<1>2. CASE svc = "failure"
  <2>1. Todos[svc] = {<<"save">>}
    BY <1>2 DEF Todos
  <2>2. {"save"} \subseteq Awaits
    BY DEF Awaits
  <2>3. todo = <<"save">>
    BY <2>1
  <2>4. QED
    BY <1>2, <2>1, <2>2, <2>3, TupleFacts
<1>3. CASE svc = "retry"
  <2>1. Todos[svc] = {<<"save">>, <<"save", "enqueue">>, <<"enqueue">>}
    BY <1>3 DEF Todos
  <2>2. {"save", "enqueue"} \subseteq Awaits
    BY DEF Awaits
  <2>3. CASE todo = <<"save">>
    BY <1>3, <2>1, <2>2, <2>3, TupleFacts
  <2>4. CASE todo = <<"save", "enqueue">>
    BY <1>3, <2>1, <2>2, <2>4, TupleFacts
  <2>5. CASE todo = <<"enqueue">>
    BY <1>3, <2>1, <2>2, <2>5, TupleFacts
  <2>6. QED
    BY <2>1, <2>3, <2>4, <2>5
<1>4. CASE svc = "cancel"
  <2>1. Todos[svc] = {<<"save">>}
    BY <1>4 DEF Todos
  <2>2. {"save"} \subseteq Awaits
    BY DEF Awaits
  <2>3. todo = <<"save">>
    BY <2>1
  <2>4. QED
    BY <1>4, <2>1, <2>2, <2>3, TupleFacts
<1>5. CASE svc = "recover"
  <2>1. Todos[svc] = {<<"items">>, <<"save", "items">>, <<"enqueue", "save", "items">>}
    BY <1>5 DEF Todos
  <2>2. {"items", "save", "enqueue"} \subseteq Awaits
    BY DEF Awaits
  <2>3. CASE todo = <<"items">>
    BY <1>5, <2>1, <2>2, <2>3, TupleFacts
  <2>4. CASE todo = <<"save", "items">>
    BY <1>5, <2>1, <2>2, <2>4, TupleFacts
  <2>5. CASE todo = <<"enqueue", "save", "items">>
    BY <1>5, <2>1, <2>2, <2>5, TupleFacts
  <2>6. QED
    BY <2>1, <2>3, <2>4, <2>5
<1>6. CASE svc = "sync"
  <2>1. Todos[svc] = {<<"jobs">>, <<"checks">>, <<"enqueue", "checks">>,
                    <<"remove", "checks">>}
    BY <1>6 DEF Todos
  <2>2. {"jobs", "checks", "enqueue", "remove"} \subseteq Awaits
    BY DEF Awaits
  <2>3. CASE todo = <<"jobs">>
    BY <1>6, <2>1, <2>2, <2>3, TupleFacts
  <2>4. CASE todo = <<"checks">>
    BY <1>6, <2>1, <2>2, <2>4, TupleFacts
  <2>5. CASE todo = <<"enqueue", "checks">>
    BY <1>6, <2>1, <2>2, <2>5, TupleFacts
  <2>6. CASE todo = <<"remove", "checks">>
    BY <1>6, <2>1, <2>2, <2>6, TupleFacts
  <2>7. QED
    BY <2>1, <2>3, <2>4, <2>5, <2>6
<1>7. CASE svc = "rebuild"
  <2>1. Todos[svc] = {<<"pending", "scheduled">>, <<"items", "scheduled">>,
                    <<"enqueue", "items", "scheduled">>, <<"scheduled">>, <<"items">>,
                    <<"enqueue", "items">>}
    BY <1>7 DEF Todos
  <2>2. {"pending", "scheduled", "items", "enqueue"} \subseteq Awaits
    BY DEF Awaits
  <2>3. CASE todo = <<"pending", "scheduled">>
    BY <1>7, <2>1, <2>2, <2>3, TupleFacts
  <2>4. CASE todo = <<"items", "scheduled">>
    BY <1>7, <2>1, <2>2, <2>4, TupleFacts
  <2>5. CASE todo = <<"enqueue", "items", "scheduled">>
    BY <1>7, <2>1, <2>2, <2>5, TupleFacts
  <2>6. CASE todo = <<"scheduled">>
    BY <1>7, <2>1, <2>2, <2>6, TupleFacts
  <2>7. CASE todo = <<"items">>
    BY <1>7, <2>1, <2>2, <2>7, TupleFacts
  <2>8. CASE todo = <<"enqueue", "items">>
    BY <1>7, <2>1, <2>2, <2>8, TupleFacts
  <2>9. QED
    BY <2>1, <2>3, <2>4, <2>5, <2>6, <2>7, <2>8
<1>8. QED
  BY <1>1, <1>2, <1>3, <1>4, <1>5, <1>6, <1>7 DEF ServiceNames

\* The two loops of rebuildQueue put their awaits in front.
LEMMA RebuildTodo ==
    ASSUME NEW todo \in Todos["rebuild"]
    PROVE  /\ Head(todo) \in {"pending", "scheduled"} => <<"items">> \o Tail(todo) \in Todos["rebuild"]
           /\ Head(todo) = "items" => <<"enqueue">> \o todo \in Todos["rebuild"]
<1>1. ASSUME NEW S, NEW a \in S, NEW b \in S
      PROVE  <<a>> \o <<>> = <<a>> /\ <<a>> \o <<b>> = <<a, b>>
  <2>1. <<a>> \in Seq(S) /\ <<b>> \in Seq(S) /\ <<a, b>> \in Seq(S)
    OBVIOUS
  <2>2. <<a>> \o <<b>> \in Seq(S) /\ Len(<<a>> \o <<b>>) = Len(<<a, b>>)
    BY <2>1
  <2>3. \A i \in 1..Len(<<a, b>>) : (<<a>> \o <<b>>)[i] = <<a, b>>[i]
    BY <2>1
  <2>4. QED
    BY <2>1, <2>2, <2>3, SeqEqual, ConcatEmptySeq
<1>2. ASSUME NEW S, NEW a \in S, NEW b \in S, NEW c \in S
      PROVE  <<a>> \o <<b, c>> = <<a, b, c>>
  <2>1. <<a>> \in Seq(S) /\ <<b, c>> \in Seq(S) /\ <<a, b, c>> \in Seq(S)
    OBVIOUS
  <2>2. <<a>> \o <<b, c>> \in Seq(S) /\ Len(<<a>> \o <<b, c>>) = Len(<<a, b, c>>)
    BY <2>1
  <2>3. \A i \in 1..Len(<<a, b, c>>) : (<<a>> \o <<b, c>>)[i] = <<a, b, c>>[i]
    BY <2>1
  <2>4. QED
    BY <2>1, <2>2, <2>3, SeqEqual
<1>3. Todos["rebuild"] = {<<"pending", "scheduled">>, <<"items", "scheduled">>,
                          <<"enqueue", "items", "scheduled">>, <<"scheduled">>, <<"items">>,
                          <<"enqueue", "items">>}
  BY DEF Todos
<1> DEFINE S == {"pending", "scheduled", "items", "enqueue"}
<1>4. /\ <<"items">> \o <<"scheduled">> = <<"items", "scheduled">>
      /\ <<"items">> \o <<>> = <<"items">>
      /\ <<"enqueue">> \o <<"items">> = <<"enqueue", "items">>
  <2>1. "items" \in S /\ "scheduled" \in S /\ "enqueue" \in S
    OBVIOUS
  <2> HIDE DEF S
  <2>2. QED
    BY <2>1, <1>1
<1>5. <<"enqueue">> \o <<"items", "scheduled">> = <<"enqueue", "items", "scheduled">>
  <2>1. "items" \in S /\ "scheduled" \in S /\ "enqueue" \in S
    OBVIOUS
  <2> HIDE DEF S
  <2>2. QED
    BY <2>1, <1>2
<1>6. CASE todo = <<"pending", "scheduled">>
  <2>1. Head(todo) = "pending" /\ Tail(todo) = <<"scheduled">>
    BY <1>6, TupleFacts
  <2>2. QED
    BY <1>3, <1>4, <2>1
<1>7. CASE todo = <<"items", "scheduled">>
  <2>1. Head(todo) = "items"
    BY <1>7, TupleFacts
  <2>2. QED
    BY <1>3, <1>5, <1>7, <2>1
<1>8. CASE todo = <<"scheduled">>
  <2>1. Head(todo) = "scheduled" /\ Tail(todo) = <<>>
    BY <1>8, TupleFacts
  <2>2. QED
    BY <1>3, <1>4, <2>1
<1>9. CASE todo = <<"items">>
  <2>1. Head(todo) = "items"
    BY <1>9, TupleFacts
  <2>2. QED
    BY <1>3, <1>4, <1>9, <2>1
<1>10. CASE todo \in {<<"enqueue", "items", "scheduled">>, <<"enqueue", "items">>}
  <2>1. Head(todo) = "enqueue"
    BY <1>10, TupleFacts
  <2>2. QED
    BY <2>1
<1>11. QED
  BY <1>3, <1>6, <1>7, <1>8, <1>9, <1>10

-----------------------------------------------------------------------------
(* What a step that changes one part of the state has to show *)

\* The fields of a call that is under way.
LEMMA CallFacts ==
    ASSUME TypeOK, SoundCalls, NEW c \in Callers, call[c] # Idle
    PROVE  /\ call[c] \in Calls /\ call[c].svc \in ServiceNames
           /\ call[c].todo \in Todos[call[c].svc]
           /\ call[c].delivery \in Deliveries /\ call[c].copy \in DeliveryRecords
           /\ call[c].batch \in SUBSET (Deliveries \X DeliveryRecords)
           /\ call[c].seen \in SUBSET (JobIds \X Deliveries)
           /\ Sound(call[c], accepted, condemned)
<1>1. call[c] \in Calls
  BY DEF TypeOK
<1>2. Sound(call[c], accepted, condemned)
  BY DEF SoundCalls
<1>3. QED
  BY <1>1, <1>2 DEF Calls, Sound

LEMMA CallPart ==
    ASSUME TypeOK, SoundCalls, NEW c \in Callers, NEW k \in CallStates,
           call' = [call EXCEPT ![c] = k], Sound(k, accepted', condemned'),
           accepted \subseteq accepted', condemned \subseteq condemned'
    PROVE  call' \in [Callers -> CallStates] /\ SoundCalls'
<1>1. call \in [Callers -> CallStates]
  BY DEF TypeOK, CallStates
<1>2. call' \in [Callers -> CallStates]
  BY <1>1
<1>3. ASSUME NEW b \in Callers
      PROVE  Sound(call'[b], accepted', condemned')
  <2>1. CASE b = c
    BY <1>1, <2>1
  <2>2. CASE b # c
    <3>1. call'[b] = call[b] /\ Sound(call[b], accepted, condemned)
      BY <1>1, <2>2 DEF SoundCalls
    <3>2. QED
      BY <3>1 DEF Sound
  <2>3. QED
    BY <2>1, <2>2
<1>4. QED
  BY <1>2, <1>3 DEF SoundCalls

LEMMA JobPart ==
    ASSUME TypeOK, SoundJobs, NEW j \in JobIds, NEW b \in JobStates,
           job' = [job EXCEPT ![j] = b], SoundJob(b)
    PROVE  job' \in [JobIds -> JobStates] /\ SoundJobs'
<1>1. job \in [JobIds -> JobStates]
  BY DEF TypeOK, JobStates
<1>2. QED
  BY <1>1 DEF SoundJobs, SoundJob

LEMMA RowPart ==
    ASSUME TypeOK, RetriesHaveATime, SoundReports, NEW d \in Deliveries, NEW r \in DeliveryRecords,
           row' = [row EXCEPT ![d] = r], aged' = aged \ {d}, UNCHANGED accepted,
           Timed(r), r.status = "COMPLETED" => d \in accepted
    PROVE  row' \in [Deliveries -> DeliveryRecords] /\ aged' \subseteq Deliveries
           /\ RetriesHaveATime' /\ SoundReports'
<1>1. row \in [Deliveries -> DeliveryRecords] /\ aged \subseteq Deliveries
  BY DEF TypeOK
<1>2. row' \in [Deliveries -> DeliveryRecords] /\ aged' \subseteq Deliveries
  BY <1>1
<1>3. ASSUME NEW e \in Deliveries
      PROVE  row'[e] = IF e = d THEN r ELSE row[e]
  BY <1>1
<1>4. RetriesHaveATime'
  BY <1>3 DEF RetriesHaveATime, Timed
<1>5. SoundReports'
  BY <1>3 DEF SoundReports
<1>6. QED
  BY <1>2, <1>4, <1>5

\* A step that changes one call, and with it at most the histories.
LEMMA CallStep ==
    ASSUME IInv, NEW c \in Callers, NEW k \in CallStates,
           call' = [call EXCEPT ![c] = k], Sound(k, accepted', condemned'),
           UNCHANGED <<row, aged, job>>, spoiled' \subseteq Deliveries,
           accepted \subseteq accepted', accepted' \subseteq Deliveries,
           condemned \subseteq condemned', condemned' \subseteq Deliveries,
           faults' \in 0..MaxFaults
    PROVE  IInv'
<1>1. call' \in [Callers -> CallStates] /\ SoundCalls'
  BY CallPart DEF IInv
<1>2. TypeOK'
  BY <1>1 DEF IInv, TypeOK, CallStates
<1>3. RetriesHaveATime'
  BY DEF IInv, RetriesHaveATime
<1>4. SoundJobs' /\ SoundReports'
  BY DEF IInv, SoundJobs, SoundJob, SoundReports
<1>5. QED
  BY <1>1, <1>2, <1>3, <1>4 DEF IInv

\* A call that begins.
LEMMA NewCall ==
    ASSUME NEW svc \in ServiceNames, NEW todo \in Todos[svc], NEW d \in Deliveries,
           NEW copy \in DeliveryRecords, NEW batch \in SUBSET (Deliveries \X DeliveryRecords),
           NEW seen \in SUBSET (JobIds \X Deliveries), NEW taken, NEW lost,
           Timed(copy), copy.status = "COMPLETED" => d \in taken, Buriable(copy, d, lost),
           todo \in {<<"save", "post">>, <<"post">>} => copy.status = "PROCESSING",
           svc \in {"sync", "rebuild"} => copy = Created,
           svc = "recover" => todo = <<"items">>,
           NEW k, k = [svc |-> svc, todo |-> todo, delivery |-> d, copy |-> copy,
                       batch |-> batch, seen |-> seen]
    PROVE  k \in CallStates /\ Sound(k, taken, lost)
<1>1. todo \in Seq(Awaits)
  BY TodoFacts
<1>2. k \in Calls
  BY <1>1 DEF Calls
<1>3. QED
  BY <1>2 DEF Sound, CallStates, Buriable

\* A recovery is at its next row, at an await for one, or over.
GoesOn(c, todo) ==
    call[c].svc = "recover" => todo \in {<<>>, <<"items">>} \/ call[c].todo # <<"items">>

\* A call that goes on or ends.
LEMMA NextCall ==
    ASSUME TypeOK, SoundCalls, NEW c \in Callers, call[c] # Idle,
           NEW todo, todo = <<>> \/ todo \in Todos[call[c].svc],
           todo \in {<<"save", "post">>, <<"post">>} => call[c].copy.status = "PROCESSING",
           GoesOn(c, todo),
           Continues(c, todo)
    PROVE  \E k \in CallStates :
              /\ call' = [call EXCEPT ![c] = k]
              /\ Sound(k, accepted, condemned)
<1> DEFINE k == IF todo = <<>> THEN Idle ELSE [call[c] EXCEPT !.todo = todo]
<1>1. call' = [call EXCEPT ![c] = k]
  BY DEF Continues
<1>2. CASE todo = <<>>
  BY <1>1, <1>2 DEF Sound, CallStates
<1>3. CASE todo # <<>>
  <2>1. /\ call[c] \in Calls /\ call[c].svc \in ServiceNames
        /\ Sound(call[c], accepted, condemned)
    BY CallFacts
  <2>2. todo \in Todos[call[c].svc] /\ todo \in Seq(Awaits)
    BY <1>3, <2>1, TodoFacts
  <2> DEFINE n == [call[c] EXCEPT !.todo = todo]
  <2>3. /\ n \in Calls /\ n.todo = todo /\ n.svc = call[c].svc
        /\ n.copy = call[c].copy /\ n.delivery = call[c].delivery
    BY <2>1, <2>2 DEF Calls
  <2>4. k = n
    BY <1>3
  <2> HIDE DEF n, k
  <2>5. Sound(n, accepted, condemned)
    BY <1>3, <2>1, <2>2, <2>3 DEF Sound, GoesOn
  <2>6. QED
    BY <1>1, <2>3, <2>4, <2>5 DEF CallStates
<1>4. QED
  BY <1>2, <1>3

-----------------------------------------------------------------------------
(* One lemma per action *)

LEMMA SaveKeeps ==
    ASSUME IInv, NEW c \in Callers, Save(c)
    PROVE  IInv'
<1> DEFINE d == call[c].delivery
           copy == call[c].copy
<1>1. call[c] # Idle /\ Head(call[c].todo) = "save" /\ UNCHANGED <<job, spoiled, accepted, condemned, faults>>
  BY DEF Save, At
<1>2. /\ call[c].svc \in ServiceNames /\ call[c].todo \in Todos[call[c].svc]
      /\ d \in Deliveries /\ copy \in DeliveryRecords /\ Sound(call[c], accepted, condemned)
  BY <1>1, CallFacts DEF IInv
<1>3. /\ Tail(call[c].todo) = <<>> \/ Tail(call[c].todo) \in Todos[call[c].svc]
      /\ Tail(call[c].todo) \in {<<"save", "post">>, <<"post">>} => copy.status = "PROCESSING"
  BY <1>1, <1>2, TodoFacts DEF Sound
<1>0. GoesOn(c, Tail(call[c].todo))
  BY <1>2, TodoFacts DEF GoesOn
<1>4. PICK k \in CallStates : call' = [call EXCEPT ![c] = k] /\ Sound(k, accepted, condemned)
  BY <1>0, <1>1, <1>3, NextCall DEF IInv, Save
<1>5. call' \in [Callers -> CallStates] /\ SoundCalls'
  BY <1>1, <1>4, CallPart DEF IInv
<1>6. Timed(copy) /\ (copy.status = "COMPLETED" => d \in accepted)
  BY <1>1, <1>2 DEF Sound
<1>7. row' \in [Deliveries -> DeliveryRecords] /\ aged' \subseteq Deliveries
      /\ RetriesHaveATime' /\ SoundReports'
  BY <1>1, <1>2, <1>6, RowPart DEF IInv, Save, SaveCopy
<1>8. TypeOK'
  BY <1>1, <1>5, <1>7 DEF IInv, TypeOK, CallStates
<1>9. SoundJobs'
  BY <1>1 DEF IInv, SoundJobs, SoundJob
<1>10. QED
  BY <1>5, <1>7, <1>8, <1>9 DEF IInv

LEMMA RecordKeeps ==
    ASSUME IInv, NEW c \in Callers, RecordAttempt(c)
    PROVE  IInv'
<1> DEFINE d == call[c].delivery
           r == [row[d] EXCEPT !.count = Bounded(call[c].copy.count + 1)]
<1>1. call[c] # Idle /\ Head(call[c].todo) = "record" /\ UNCHANGED <<job, spoiled, accepted, condemned, faults>>
  BY DEF RecordAttempt, At
<1>2. /\ call[c].svc \in ServiceNames /\ call[c].todo \in Todos[call[c].svc]
      /\ d \in Deliveries /\ call[c].copy \in DeliveryRecords /\ Sound(call[c], accepted, condemned)
  BY <1>1, CallFacts DEF IInv
<1>3. /\ Tail(call[c].todo) = <<>> \/ Tail(call[c].todo) \in Todos[call[c].svc]
      /\ Tail(call[c].todo) \in {<<"save", "post">>, <<"post">>} => call[c].copy.status = "PROCESSING"
  BY <1>1, <1>2, TodoFacts DEF Sound
<1>0. GoesOn(c, Tail(call[c].todo))
  BY <1>2, TodoFacts DEF GoesOn
<1>4. PICK k \in CallStates : call' = [call EXCEPT ![c] = k] /\ Sound(k, accepted, condemned)
  BY <1>0, <1>1, <1>3, NextCall DEF IInv, RecordAttempt
<1>5. call' \in [Callers -> CallStates] /\ SoundCalls'
  BY <1>1, <1>4, CallPart DEF IInv
<1>6. row[d] \in DeliveryRecords
  BY <1>2 DEF IInv, TypeOK
<1>7. Bounded(call[c].copy.count + 1) \in 0..MaxCount
  BY <1>2, EntityAssumption DEF DeliveryRecords, Bounded
<1>8. r \in DeliveryRecords /\ r.status = row[d].status /\ r.timed = row[d].timed
  BY <1>6, <1>7 DEF DeliveryRecords
<1>9. Timed(r) /\ (r.status = "COMPLETED" => d \in accepted)
  BY <1>2, <1>8 DEF IInv, RetriesHaveATime, SoundReports, Timed
<1>10. row' = [row EXCEPT ![d] = r] /\ aged' = aged \ {d}
  BY DEF RecordAttempt
<1> HIDE DEF r
<1>11. row' \in [Deliveries -> DeliveryRecords] /\ aged' \subseteq Deliveries
       /\ RetriesHaveATime' /\ SoundReports'
  BY <1>1, <1>2, <1>8, <1>9, <1>10, RowPart DEF IInv
<1>12. TypeOK'
  BY <1>1, <1>5, <1>11 DEF IInv, TypeOK, CallStates
<1>13. SoundJobs'
  BY <1>1 DEF IInv, SoundJobs, SoundJob
<1>14. QED
  BY <1>5, <1>11, <1>12, <1>13 DEF IInv

LEMMA EnqueueKeeps ==
    ASSUME IInv, NEW c \in Callers, Enqueue(c)
    PROVE  IInv'
<1> DEFINE d == call[c].delivery
           fresh == {j \in JobIds \ Remembered : job[j] = NoJob}
           new == CHOOSE j \in fresh : TRUE
           b == [state |-> "waiting", delivery |-> d, made |-> 0]
<1>1. call[c] # Idle /\ UNCHANGED <<row, aged, spoiled, accepted, condemned, faults>>
  BY DEF Enqueue, At
<1>2. /\ call[c].svc \in ServiceNames /\ call[c].todo \in Todos[call[c].svc]
      /\ d \in Deliveries /\ Sound(call[c], accepted, condemned)
  BY <1>1, CallFacts DEF IInv
<1>3. /\ Tail(call[c].todo) = <<>> \/ Tail(call[c].todo) \in Todos[call[c].svc]
      /\ Tail(call[c].todo) \in {<<"save", "post">>, <<"post">>} => call[c].copy.status = "PROCESSING"
  BY <1>1, <1>2, TodoFacts DEF Sound
<1>0. GoesOn(c, Tail(call[c].todo))
  BY <1>2, TodoFacts DEF GoesOn
<1>4. PICK k \in CallStates : call' = [call EXCEPT ![c] = k] /\ Sound(k, accepted, condemned)
  BY <1>0, <1>1, <1>3, NextCall DEF IInv, Enqueue
<1>5. call' \in [Callers -> CallStates] /\ SoundCalls'
  BY <1>1, <1>4, CallPart DEF IInv
<1>6. IF fresh = {} THEN UNCHANGED job ELSE job' = [job EXCEPT ![new] = b]
  BY DEF Enqueue, AddJob
<1>7. fresh # {} => new \in JobIds
  OBVIOUS
<1>8. b \in JobStates /\ SoundJob(b)
  BY <1>2, ServicesAssumption DEF JobStates, Jobs, SoundJob
<1> HIDE DEF b, new, fresh
<1>9. job' \in [JobIds -> JobStates] /\ SoundJobs'
  <2>1. CASE fresh = {}
    BY <1>6, <2>1 DEF IInv, TypeOK, JobStates, SoundJobs
  <2>2. CASE fresh # {}
    BY <1>6, <1>7, <1>8, <2>2, JobPart DEF IInv
  <2>3. QED
    BY <2>1, <2>2
<1>10. TypeOK'
  BY <1>1, <1>5, <1>9 DEF IInv, TypeOK, CallStates, JobStates
<1>11. RetriesHaveATime' /\ SoundReports'
  BY <1>1 DEF IInv, RetriesHaveATime, SoundReports
<1>12. QED
  BY <1>5, <1>9, <1>10, <1>11 DEF IInv

LEMMA RejectsKeeps ==
    ASSUME IInv, NEW c \in Callers, Rejects(c)
    PROVE  IInv'
<1>1. call[c] # Idle /\ UNCHANGED <<row, aged, job, accepted, condemned>>
  BY DEF Rejects, At
<1>2. faults' \in 0..MaxFaults
  BY ServicesAssumption DEF Rejects, IInv, TypeOK
<1>3. /\ call[c].svc \in ServiceNames /\ call[c].todo \in Todos[call[c].svc]
      /\ Sound(call[c], accepted, condemned)
  BY <1>1, CallFacts DEF IInv
<1>4. /\ Tail(call[c].todo) = <<>> \/ Tail(call[c].todo) \in Todos[call[c].svc]
      /\ Tail(call[c].todo) \in {<<"save", "post">>, <<"post">>} => call[c].copy.status = "PROCESSING"
  BY <1>1, <1>3, TodoFacts DEF Sound
<1> DEFINE left == AfterReject(c)
<1>5. /\ left = <<>> \/ left \in Todos[call[c].svc]
      /\ left \in {<<"save", "post">>, <<"post">>} => call[c].copy.status = "PROCESSING"
  <2>1. CASE call[c].svc = "recover"
    <3>1. left = <<"items">> /\ Head(<<"items">>) = "items"
          /\ Head(<<"save", "post">>) = "save" /\ Head(<<"post">>) = "post"
      BY <2>1, TupleFacts DEF AfterReject
    <3>2. <<"items">> \in Todos["recover"]
      BY DEF Todos
    <3>3. QED
      BY <2>1, <3>1, <3>2
  <2>2. CASE left = Tail(call[c].todo)
    BY <1>4, <2>2
  <2>3. CASE left = <<>>
    <3>1. Len(<<>>) = 0 /\ Len(<<"save", "post">>) = 2 /\ Len(<<"post">>) = 1
      OBVIOUS
    <3>2. QED
      BY <2>3, <3>1
  <2>4. QED
    BY <2>1, <2>2, <2>3 DEF AfterReject
<1>0. GoesOn(c, left)
  BY DEF GoesOn, AfterReject
<1> HIDE DEF left
<1>6. Continues(c, left)
  BY DEF left, Rejects
<1>7. PICK k \in CallStates : call' = [call EXCEPT ![c] = k] /\ Sound(k, accepted, condemned)
  BY <1>0, <1>1, <1>5, <1>6, NextCall DEF IInv
<1>8. /\ accepted \subseteq Deliveries /\ condemned \subseteq Deliveries
      /\ spoiled' \subseteq Deliveries
  <2>1. call[c].delivery \in Deliveries
    BY <1>1, CallFacts DEF IInv
  <2>2. QED
    BY <2>1 DEF IInv, TypeOK, Rejects
<1>9. QED
  BY <1>1, <1>2, <1>7, <1>8, CallStep

\* The rows at hand of a recovery are rows.
LEMMA AtHandFacts ==
    ASSUME IInv, NEW c \in Callers
    PROVE  AtHand(c) \subseteq Deliveries
<1>1. CASE call[c] = Idle
  BY <1>1 DEF AtHand
<1>2. CASE call[c] # Idle
  <2>1. call[c].delivery \in Deliveries
        /\ call[c].batch \in SUBSET (Deliveries \X DeliveryRecords)
    BY <1>2, CallFacts DEF IInv
  <2>2. QED
    BY <2>1 DEF AtHand
<1>3. QED
  BY <1>1, <1>2

\* Calls that end at once: the process dies, or the POST has no answer.
LEMMA CrashKeeps ==
    ASSUME IInv, NEW c \in Callers, Crash(c) \/ PostUnanswered(c)
    PROVE  IInv'
<1>1. call' = [call EXCEPT ![c] = Idle] /\ UNCHANGED <<row, aged, job, condemned>>
  BY DEF Crash, PostUnanswered
<1>2. faults' \in 0..MaxFaults
  BY ServicesAssumption DEF Crash, PostUnanswered, IInv, TypeOK
<1>3. accepted \subseteq accepted' /\ accepted' \subseteq Deliveries
  <2>1. CASE Crash(c)
    BY <2>1 DEF Crash, IInv, TypeOK
  <2>2. CASE PostUnanswered(c)
    <3>1. call[c].delivery \in Deliveries
      BY <2>2, CallFacts DEF PostUnanswered, At, IInv
    <3>2. QED
      BY <2>2, <3>1 DEF PostUnanswered, IInv, TypeOK
  <2>3. QED
    BY <2>1, <2>2
<1>4. Idle \in CallStates /\ Sound(Idle, accepted', condemned')
  BY DEF CallStates, Sound
<1>5. condemned \subseteq Deliveries /\ spoiled' \subseteq Deliveries
  BY AtHandFacts DEF IInv, TypeOK, Crash, PostUnanswered
<1>6. QED
  BY <1>1, <1>2, <1>3, <1>4, <1>5, CallStep

\* The services that load one delivery and change the copy.
LEMMA LoadKeeps ==
    ASSUME IInv, NEW c \in Callers, NEW d \in Deliveries, NEW svc \in ServiceNames,
           NEW copy \in DeliveryRecords, NEW todo \in Todos[svc], Starts(c, svc, d, copy, todo),
           svc \notin {"sync", "rebuild", "recover"}, Timed(copy), copy.status # "COMPLETED",
           Buriable(copy, d, condemned'), condemned' \in {condemned, condemned \cup {d}},
           todo \in {<<"save", "post">>, <<"post">>} => copy.status = "PROCESSING",
           UNCHANGED <<row, aged, job, spoiled, accepted, faults>>
    PROVE  IInv'
<1> DEFINE k == [svc |-> svc, todo |-> todo, delivery |-> d, copy |-> copy,
                 batch |-> {}, seen |-> {}]
<1>1. call' = [call EXCEPT ![c] = k]
  BY DEF Starts
<1>2. k \in CallStates /\ Sound(k, accepted', condemned')
  BY NewCall
<1> HIDE DEF k
<1>3. /\ accepted \subseteq Deliveries /\ faults' \in 0..MaxFaults
      /\ condemned \subseteq condemned' /\ condemned' \subseteq Deliveries
      /\ spoiled' \subseteq Deliveries
  BY DEF IInv, TypeOK
<1>4. QED
  BY <1>1, <1>2, <1>3, CallStep

\* Two short lists of awaits that do not lead to a POST.
LEMMA NoPostAhead ==
    /\ <<"save">> \notin {<<"save", "post">>, <<"post">>}
    /\ <<"save", "enqueue">> \notin {<<"save", "post">>, <<"post">>}
    /\ <<"record", "save">> \notin {<<"save", "post">>, <<"post">>}
<1>1. /\ Head(<<"save">>) = "save" /\ Len(<<"save">>) = 1
      /\ Head(<<"post">>) = "post" /\ Len(<<"post">>) = 1
      /\ Len(<<"save", "post">>) = 2 /\ Head(<<"save", "post">>) = "save"
      /\ Tail(<<"save", "post">>) = <<"post">>
      /\ Tail(<<"save", "enqueue">>) = <<"enqueue">> /\ Len(<<"save", "enqueue">>) = 2
      /\ Head(<<"enqueue">>) = "enqueue" /\ Head(<<"record", "save">>) = "record"
  BY TupleFacts
<1>2. QED
  BY <1>1

LEMMA BeginKeeps ==
    ASSUME IInv, NEW c \in Callers, NEW d \in Deliveries,
           \/ ProcessDelivery(c, d) \/ ScheduleRetryCall(c, d) \/ RescheduleJob(c, d)
           \/ CancelRetry(c, d) \/ \E retryable \in BOOLEAN : HandleFailure(c, d, retryable)
    PROVE  IInv'
<1>1. row[d] \in DeliveryRecords /\ MaxRetries \in Nat
  BY EntityAssumption DEF IInv, TypeOK
<1>2. /\ {"process", "failure", "retry", "cancel"} \subseteq ServiceNames
      /\ <<"save", "post">> \in Todos["process"] /\ <<"save">> \in Todos["failure"]
      /\ <<"save">> \in Todos["retry"] /\ <<"save", "enqueue">> \in Todos["retry"]
      /\ <<"save">> \in Todos["cancel"]
  BY DEF ServiceNames, Todos
<1>3. CASE ProcessDelivery(c, d)
  <2> DEFINE copy == IF row[d].status = "PROCESSING" THEN row[d] ELSE MarkAsProcessing(row[d])
  <2>1. copy \in DeliveryRecords /\ copy.status = "PROCESSING"
    BY <1>1, EntityFacts
  <2>2. Starts(c, "process", d, copy, <<"save", "post">>)
        /\ UNCHANGED <<row, aged, job, spoiled, accepted, condemned, faults>>
    BY <1>3 DEF ProcessDelivery
  <2> HIDE DEF copy
  <2>3. Timed(copy) /\ Buriable(copy, d, condemned')
    BY <2>1 DEF Timed, Buriable, Final
  <2>4. QED
    BY <1>2, <2>1, <2>2, <2>3, LoadKeeps
<1>4. CASE ScheduleRetryCall(c, d)
  <2>1. UNCHANGED <<row, aged, job, spoiled, accepted, condemned, faults>>
    BY <1>4 DEF ScheduleRetryCall
  <2>2. CASE row[d].count >= MaxRetries
    <3> DEFINE copy == MoveToDeadLetterQueue(row[d])
    <3>1. copy \in DeliveryRecords /\ copy.status = "FAILED_DLQ" /\ ~copy.timed
          /\ copy.count >= MaxRetries
      BY <1>1, <2>2, EntityFacts
    <3>2. Starts(c, "retry", d, copy, <<"save">>)
      BY <1>4, <2>2 DEF ScheduleRetryCall
    <3> HIDE DEF copy
    <3>3. Timed(copy) /\ Buriable(copy, d, condemned')
      BY <3>1 DEF Timed, Buriable
    <3>4. QED
      BY <1>2, <2>1, <3>1, <3>2, <3>3, LoadKeeps, NoPostAhead
  <2>3. CASE ~(row[d].count >= MaxRetries)
    <3> DEFINE copy == ScheduleRetry(row[d])
    <3>1. copy \in DeliveryRecords /\ copy.status = "SCHEDULED_RETRY" /\ copy.timed
      BY <1>1, EntityFacts
    <3>2. Starts(c, "retry", d, copy, <<"save", "enqueue">>)
      BY <1>4, <2>3 DEF ScheduleRetryCall
    <3> HIDE DEF copy
    <3>3. Timed(copy) /\ Buriable(copy, d, condemned')
      BY <3>1 DEF Timed, Buriable, Final
    <3>4. QED
      BY <1>2, <2>1, <3>1, <3>2, <3>3, LoadKeeps, NoPostAhead
  <2>4. QED
    BY <2>2, <2>3
<1>5. CASE RescheduleJob(c, d)
  <2> DEFINE copy == ScheduleRetry(row[d])
  <2>1. copy \in DeliveryRecords /\ copy.status = "SCHEDULED_RETRY" /\ copy.timed
    BY <1>1, EntityFacts
  <2>2. Starts(c, "retry", d, copy, <<"save", "enqueue">>)
        /\ UNCHANGED <<row, aged, job, spoiled, accepted, condemned, faults>>
    BY <1>5 DEF RescheduleJob
  <2> HIDE DEF copy
  <2>3. Timed(copy) /\ Buriable(copy, d, condemned')
    BY <2>1 DEF Timed, Buriable, Final
  <2>4. QED
    BY <1>2, <2>1, <2>2, <2>3, LoadKeeps, NoPostAhead
<1>6. CASE CancelRetry(c, d)
  <2> DEFINE copy == MoveToDeadLetterQueue(row[d])
  <2>1. copy \in DeliveryRecords /\ copy.status = "FAILED_DLQ" /\ ~copy.timed
    BY <1>1, EntityFacts
  <2>2. Starts(c, "cancel", d, copy, <<"save">>) /\ condemned' = condemned \cup {d}
        /\ UNCHANGED <<row, aged, job, spoiled, accepted, faults>>
    BY <1>6 DEF CancelRetry
  <2> HIDE DEF copy
  <2>3. Timed(copy) /\ Buriable(copy, d, condemned')
    BY <2>1, <2>2 DEF Timed, Buriable
  <2>4. QED
    BY <1>2, <2>1, <2>2, <2>3, LoadKeeps, NoPostAhead
<1>7. ASSUME NEW retryable \in BOOLEAN, HandleFailure(c, d, retryable)
      PROVE  IInv'
  <2> DEFINE copy == FailureCopy(row[d], retryable)
  <2>1. /\ copy \in DeliveryRecords /\ Timed(copy)
        /\ copy.status \in {"SCHEDULED_RETRY", "FAILED_DLQ"}
        /\ retryable /\ copy.status = "FAILED_DLQ" => copy.count >= MaxRetries
    BY <1>1, FailureCopyFacts
  <2>2. Starts(c, "failure", d, copy, <<"save">>)
        /\ UNCHANGED <<row, aged, job, spoiled, accepted, faults>>
    BY <1>7 DEF HandleFailure
  <2>3. condemned' = IF retryable THEN condemned ELSE condemned \cup {d}
    BY <1>7 DEF HandleFailure
  <2> HIDE DEF copy
  <2>4. Buriable(copy, d, condemned')
    BY <2>1, <2>3 DEF Buriable
  <2>5. QED
    BY <1>2, <2>1, <2>2, <2>3, <2>4, LoadKeeps, NoPostAhead
<1>8. QED
  BY <1>3, <1>4, <1>5, <1>6, <1>7

\* The answer of the POST; until then the copy says PROCESSING.
LEMMA PostKeeps ==
    ASSUME IInv, NEW c \in Callers, NEW answer \in {"ok", "retryable", "permanent"},
           PostAnswered(c, answer)
    PROVE  IInv'
<1> DEFINE d == call[c].delivery
           copy == Settled(call[c].copy, answer)
           k == [call[c] EXCEPT !.copy = copy, !.todo = <<"record", "save">>]
<1>1. call[c] # Idle /\ Head(call[c].todo) = "post" /\ UNCHANGED <<row, aged, job, spoiled, faults>>
  BY DEF PostAnswered, At
<1>2. /\ call[c] \in Calls /\ call[c].svc \in ServiceNames /\ call[c].todo \in Todos[call[c].svc]
      /\ d \in Deliveries /\ call[c].copy \in DeliveryRecords
      /\ Sound(call[c], accepted, condemned)
  BY <1>1, CallFacts DEF IInv
<1>3. call[c].svc = "process" /\ call[c].todo = <<"post">>
  BY <1>1, <1>2, TodoFacts
<1>4. call[c].copy.status = "PROCESSING"
  BY <1>1, <1>2, <1>3 DEF Sound
<1>5. call[c].copy.count \in Nat /\ MaxRetries \in Nat
  BY <1>2, EntityAssumption DEF DeliveryRecords
<1>6. /\ accepted' = IF answer = "ok" THEN accepted \cup {d} ELSE accepted
      /\ condemned' = IF answer = "permanent" THEN condemned \cup {d} ELSE condemned
  BY DEF PostAnswered
<1>7. /\ copy \in DeliveryRecords /\ Timed(copy)
      /\ copy.status = "COMPLETED" => answer = "ok"
      /\ copy.status = "FAILED_DLQ" => answer = "permanent" \/ copy.count >= MaxRetries
  BY <1>2, <1>4, <1>5, EntityFacts DEF Settled, CanRetry, Timed, Final
<1>8. call' = [call EXCEPT ![c] = k]
  BY DEF PostAnswered
<1> HIDE DEF copy
<1>9. <<"record", "save">> \in Todos["process"] /\ "process" \in ServiceNames
  BY DEF Todos, ServiceNames
<1>10. <<"record", "save">> \in Seq(Awaits)
  BY <1>9, TodoFacts
<1>11. /\ k \in Calls /\ k.copy = copy /\ k.todo = <<"record", "save">>
       /\ k.delivery = d /\ k.svc = "process"
  BY <1>2, <1>3, <1>7, <1>10 DEF Calls
<1> HIDE DEF k
<1>12. Sound(k, accepted', condemned')
  BY <1>6, <1>7, <1>9, <1>11, NoPostAhead DEF Sound
<1>13. /\ accepted \subseteq accepted' /\ accepted' \subseteq Deliveries
       /\ condemned \subseteq condemned' /\ condemned' \subseteq Deliveries
       /\ spoiled' \subseteq Deliveries /\ faults' \in 0..MaxFaults
  BY <1>1, <1>2, <1>6 DEF IInv, TypeOK
<1>14. QED
  BY <1>1, <1>8, <1>11, <1>12, <1>13, CallStep DEF CallStates

\* A call that begins with a batch of rows.
LEMMA BatchFacts ==
    ASSUME TypeOK, NEW c \in Callers, NEW svc \in ServiceNames, NEW todo \in Todos[svc],
           NEW rows \in SUBSET (Deliveries \X DeliveryRecords), Batch(c, svc, rows, todo),
           todo \notin {<<"save", "post">>, <<"post">>}, svc = "recover" => todo = <<"items">>
    PROVE  \E k \in CallStates :
              /\ call' = [call EXCEPT ![c] = k]
              /\ Sound(k, accepted, condemned)
<1> DEFINE d == CHOOSE e \in Deliveries : TRUE
           k == [svc |-> svc, todo |-> todo, delivery |-> d, copy |-> Created,
                 batch |-> rows, seen |-> {}]
<1>1. d \in Deliveries
  BY ServicesAssumption
<1>2. call' = [call EXCEPT ![c] = k]
  BY DEF Batch
<1>3. Created \in DeliveryRecords /\ Created.status = "PENDING"
  BY EntityAssumption DEF Created, DeliveryRecords, Statuses
<1>4. Timed(Created) /\ Buriable(Created, d, condemned)
  BY <1>3 DEF Timed, Buriable, Final
<1> HIDE DEF d
<1>5. k \in CallStates /\ Sound(k, accepted, condemned)
  BY <1>1, <1>3, <1>4, NewCall
<1>6. QED
  BY <1>2, <1>5

\* What a batch or a list of rows is made of.
LEMMA RowPairs ==
    ASSUME TypeOK, NEW D \in SUBSET Deliveries
    PROVE  {<<d, row[d]>> : d \in D} \in SUBSET (Deliveries \X DeliveryRecords)
  BY DEF TypeOK

LEMMA RecoverKeeps ==
    ASSUME IInv, NEW c \in Callers, RecoverStale(c) \/ SyncState(c)
    PROVE  IInv'
<1>1. UNCHANGED <<row, aged, job, accepted, condemned, faults>>
  BY DEF RecoverStale, SyncState
<1>2. /\ {"recover", "sync"} \subseteq ServiceNames
      /\ <<"items">> \in Todos["recover"] /\ <<"jobs">> \in Todos["sync"]
  BY DEF ServiceNames, Todos
<1>3. /\ <<"items">> \notin {<<"save", "post">>, <<"post">>}
      /\ <<"jobs">> \notin {<<"save", "post">>, <<"post">>}
  <2>1. /\ Head(<<"items">>) = "items" /\ Head(<<"jobs">>) = "jobs"
        /\ Head(<<"post">>) = "post" /\ Head(<<"save", "post">>) = "save"
    BY TupleFacts
  <2>2. QED
    BY <2>1
<1>4. \E k \in CallStates : call' = [call EXCEPT ![c] = k] /\ Sound(k, accepted, condemned)
  <2>1. CASE RecoverStale(c)
    <3> DEFINE stale == {d \in aged : row[d].status = "PROCESSING"}
               rows == {<<d, row[d]>> : d \in stale}
    <3>1. stale \in SUBSET Deliveries
      BY DEF IInv, TypeOK
    <3>2. Batch(c, "recover", rows, <<"items">>)
      BY <2>1 DEF RecoverStale
    <3> HIDE DEF stale
    <3>3. rows \in SUBSET (Deliveries \X DeliveryRecords)
      BY <3>1, RowPairs DEF IInv
    <3> HIDE DEF rows
    <3>4. QED
      BY <1>2, <1>3, <3>2, <3>3, BatchFacts DEF IInv
  <2>2. CASE SyncState(c)
    <3> DEFINE waiting == {e \in Deliveries : row[e].status = "PENDING"}
               rows == {<<d, row[d]>> : d \in waiting}
    <3>1. Batch(c, "sync", rows, <<"jobs">>)
      BY <2>2 DEF SyncState, RowsWith
    <3>2. waiting \in SUBSET Deliveries
      OBVIOUS
    <3> HIDE DEF waiting
    <3>3. rows \in SUBSET (Deliveries \X DeliveryRecords)
      BY <3>2, RowPairs DEF IInv
    <3> HIDE DEF rows
    <3>4. QED
      BY <1>2, <1>3, <3>1, <3>3, BatchFacts DEF IInv
  <2>3. QED
    BY <2>1, <2>2
<1>5. /\ accepted \subseteq Deliveries /\ condemned \subseteq Deliveries
      /\ spoiled' \subseteq Deliveries /\ faults \in 0..MaxFaults
  BY DEF IInv, TypeOK, RecoverStale, SyncState
<1>6. QED
  BY <1>1, <1>4, <1>5, CallStep

LEMMA RecoverItemKeeps ==
    ASSUME IInv, NEW c \in Callers, RecoverItem(c)
    PROVE  IInv'
<1>1. /\ call[c] # Idle /\ call[c].svc = "recover"
      /\ UNCHANGED <<row, aged, job, spoiled, accepted, condemned, faults>>
  BY DEF RecoverItem, At
<1>2. /\ call[c] \in Calls /\ call[c].batch \in SUBSET (Deliveries \X DeliveryRecords)
      /\ Sound(call[c], accepted, condemned)
  BY <1>1, CallFacts DEF IInv
<1>3. \E k \in CallStates : call' = [call EXCEPT ![c] = k] /\ Sound(k, accepted, condemned)
  <2>1. CASE call[c].batch = {}
    <3>1. Idle \in CallStates /\ Sound(Idle, accepted, condemned)
      BY DEF CallStates, Sound
    <3>2. call' = [call EXCEPT ![c] = Idle]
      BY <2>1 DEF RecoverItem
    <3>3. QED
      BY <3>1, <3>2
  <2>2. CASE call[c].batch # {}
    <3>1. PICK item \in call[c].batch :
            call' = [call EXCEPT ![c] =
              [call[c] EXCEPT !.batch = @ \ {item}, !.delivery = item[1],
                              !.copy = RecoveredCopy(item[2]),
                              !.todo = IF RecoveredCopy(item[2]).status = "FAILED_DLQ"
                                       THEN <<"save", "items">>
                                       ELSE <<"enqueue", "save", "items">>]]
      BY <2>2 DEF RecoverItem
    <3> DEFINE copy == RecoveredCopy(item[2])
               todo == IF copy.status = "FAILED_DLQ"
                       THEN <<"save", "items">> ELSE <<"enqueue", "save", "items">>
               k == [call[c] EXCEPT !.batch = @ \ {item}, !.delivery = item[1],
                                    !.copy = copy, !.todo = todo]
    <3>2. item[1] \in Deliveries /\ item[2] \in DeliveryRecords
      BY <1>2, <3>1
    <3>3. /\ copy \in DeliveryRecords /\ Timed(copy)
          /\ copy.status \in {"SCHEDULED_RETRY", "FAILED_DLQ"}
          /\ copy.status = "FAILED_DLQ" => copy.count >= MaxRetries
      BY <3>2, RecoveredCopyFacts
    <3>4. todo \in Todos["recover"] /\ "recover" \in ServiceNames
      BY DEF Todos, ServiceNames
    <3>5. todo \notin {<<"save", "post">>, <<"post">>}
      <4>1. /\ Tail(<<"save", "items">>) = <<"items">> /\ Head(<<"save", "items">>) = "save"
            /\ Head(<<"items">>) = "items" /\ Head(<<"enqueue", "save", "items">>) = "enqueue"
            /\ Tail(<<"save", "post">>) = <<"post">> /\ Head(<<"save", "post">>) = "save"
            /\ Head(<<"post">>) = "post"
        BY TupleFacts
      <4>2. QED
        BY <4>1
    <3>0. call' = [call EXCEPT ![c] = k]
      BY <3>1
    <3> HIDE DEF copy, todo
    <3>6. todo \in Seq(Awaits)
      BY <3>4, TodoFacts
    <3>7. /\ k \in Calls /\ k.copy = copy /\ k.todo = todo
          /\ k.delivery = item[1] /\ k.svc = "recover"
      BY <1>1, <1>2, <3>2, <3>3, <3>6 DEF Calls
    <3> HIDE DEF k
    <3>8. Sound(k, accepted, condemned)
      BY <3>3, <3>4, <3>5, <3>7 DEF Sound
    <3>9. QED
      BY <3>0, <3>7, <3>8 DEF CallStates
  <2>3. QED
    BY <2>1, <2>2
<1>4. /\ accepted \subseteq Deliveries /\ condemned \subseteq Deliveries
      /\ spoiled \subseteq Deliveries /\ faults \in 0..MaxFaults
  BY DEF IInv, TypeOK
<1>5. QED
  BY <1>1, <1>3, <1>4, CallStep

\* Calls of sync and rebuild never touch their copy.
LEMMA PassiveFacts ==
    ASSUME TypeOK, SoundCalls, NEW c \in Callers, call[c] # Idle,
           call[c].svc \in {"sync", "rebuild"}, NEW k \in Calls,
           k.svc = call[c].svc, k.copy = call[c].copy, k.todo \in Todos[call[c].svc]
    PROVE  k \in CallStates /\ Sound(k, accepted, condemned)
<1>1. call[c].copy = Created
  BY CallFacts DEF Sound
<1>2. Created.status = "PENDING"
  BY DEF Created
<1>3. k.todo \notin {<<"save", "post">>, <<"post">>}
  <2>1. Todos["sync"] = {<<"jobs">>, <<"checks">>, <<"enqueue", "checks">>, <<"remove", "checks">>}
    BY DEF Todos
  <2>2. Todos["rebuild"] = {<<"pending", "scheduled">>, <<"items", "scheduled">>,
                            <<"enqueue", "items", "scheduled">>, <<"scheduled">>, <<"items">>,
                            <<"enqueue", "items">>}
    BY DEF Todos
  <2>3. Head(<<"save", "post">>) = "save" /\ Head(<<"post">>) = "post"
    BY TupleFacts
  <2>4. /\ Head(<<"jobs">>) = "jobs" /\ Head(<<"checks">>) = "checks"
        /\ Head(<<"enqueue", "checks">>) = "enqueue" /\ Head(<<"remove", "checks">>) = "remove"
    BY TupleFacts
  <2>5. /\ Head(<<"pending", "scheduled">>) = "pending" /\ Head(<<"items", "scheduled">>) = "items"
        /\ Head(<<"enqueue", "items", "scheduled">>) = "enqueue"
        /\ Head(<<"scheduled">>) = "scheduled" /\ Head(<<"items">>) = "items"
        /\ Head(<<"enqueue", "items">>) = "enqueue"
    BY TupleFacts
  <2>6. CASE call[c].svc = "sync"
    BY <2>1, <2>3, <2>4, <2>6
  <2>7. CASE call[c].svc = "rebuild"
    BY <2>2, <2>3, <2>5, <2>7
  <2>8. QED
    BY <2>6, <2>7
<1>4. QED
  BY <1>1, <1>2, <1>3 DEF Sound, CallStates, Timed, Final

\* The heads of the awaits of sync and rebuild tell the service.
LEMMA AwaitTells ==
    ASSUME TypeOK, SoundCalls, NEW c \in Callers, NEW await, At(c, await)
    PROVE  /\ call[c] # Idle /\ call[c] \in Calls /\ call[c].todo \in Todos[call[c].svc]
           /\ call[c].svc \in ServiceNames
           /\ await \in {"jobs", "checks", "remove"} => call[c].svc = "sync"
           /\ await \in {"pending", "scheduled"} => call[c].svc = "rebuild"
<1>1. call[c] # Idle /\ Head(call[c].todo) = await
  BY DEF At
<1>2. call[c] \in Calls /\ call[c].svc \in ServiceNames /\ call[c].todo \in Todos[call[c].svc]
  BY <1>1, CallFacts
<1>3. QED
  BY <1>1, <1>2, TodoFacts

\* The steps of sync and rebuild that change only their call.
LEMMA PassiveStep ==
    ASSUME IInv, NEW c \in Callers, NEW k \in CallStates,
           call' = [call EXCEPT ![c] = k], Sound(k, accepted, condemned),
           UNCHANGED <<row, aged, job, spoiled, accepted, condemned, faults>>
    PROVE  IInv'
<1>1. /\ accepted \subseteq Deliveries /\ condemned \subseteq Deliveries
      /\ spoiled \subseteq Deliveries /\ faults \in 0..MaxFaults
  BY DEF IInv, TypeOK
<1>2. QED
  BY <1>1, CallStep

LEMMA SyncKeeps ==
    ASSUME IInv, NEW c \in Callers, SyncJobs(c) \/ SyncEnqueue(c) \/ SyncCheck(c)
    PROVE  IInv'
<1>1. UNCHANGED <<row, aged, job, spoiled, accepted, condemned, faults>>
  BY DEF SyncJobs, SyncEnqueue, SyncCheck
<1>2. At(c, "jobs") \/ At(c, "checks")
  BY DEF SyncJobs, SyncEnqueue, SyncCheck
<1>3. /\ call[c] # Idle /\ call[c] \in Calls /\ call[c].svc = "sync"
      /\ call[c].todo \in Todos["sync"]
  <2>1. TypeOK /\ SoundCalls
    BY DEF IInv
  <2>2. QED
    BY <1>2, <2>1, AwaitTells
<1>4. /\ <<"checks">> \in Todos["sync"] /\ <<"enqueue", "checks">> \in Todos["sync"]
      /\ <<"remove", "checks">> \in Todos["sync"] /\ "sync" \in ServiceNames
  BY DEF Todos, ServiceNames
<1>5. /\ <<"checks">> \in Seq(Awaits) /\ <<"enqueue", "checks">> \in Seq(Awaits)
      /\ <<"remove", "checks">> \in Seq(Awaits)
  BY <1>4, TodoFacts
<1>6. CASE SyncJobs(c)
  <2> DEFINE seen == {<<j, job[j].delivery>> : j \in QueuedJobs}
             batch == {item \in call[c].batch : \A j \in QueuedJobs : job[j].delivery # item[1]}
             k == [call[c] EXCEPT !.todo = <<"checks">>, !.seen = seen, !.batch = batch]
  <2>1. call' = [call EXCEPT ![c] = k]
    BY <1>6 DEF SyncJobs
  <2>2. seen \in SUBSET (JobIds \X Deliveries)
    <3>1. ASSUME NEW j \in QueuedJobs
          PROVE  j \in JobIds /\ job[j].delivery \in Deliveries
      <4>1. job[j] \in {NoJob} \cup Jobs /\ job[j].state # "none"
        BY DEF QueuedJobs, IInv, TypeOK
      <4>2. QED
        BY <4>1 DEF NoJob, Jobs, QueuedJobs
    <3>2. QED
      BY <3>1
  <2>3. batch \in SUBSET (Deliveries \X DeliveryRecords)
    BY <1>3 DEF Calls
  <2> HIDE DEF seen, batch
  <2>4. k \in Calls /\ k.svc = call[c].svc /\ k.copy = call[c].copy /\ k.todo = <<"checks">>
    BY <1>3, <1>5, <2>2, <2>3 DEF Calls
  <2> HIDE DEF k
  <2>5. k \in CallStates /\ Sound(k, accepted, condemned)
    BY <1>3, <1>4, <2>4, PassiveFacts DEF IInv
  <2>6. QED
    BY <1>1, <2>1, <2>5, PassiveStep
<1>7. CASE SyncEnqueue(c)
  <2>1. PICK item \in call[c].batch :
          call' = [call EXCEPT ![c] = [call[c] EXCEPT !.batch = @ \ {item}, !.delivery = item[1],
                                                      !.todo = <<"enqueue", "checks">>]]
    BY <1>7 DEF SyncEnqueue
  <2> DEFINE k == [call[c] EXCEPT !.batch = @ \ {item}, !.delivery = item[1],
                                  !.todo = <<"enqueue", "checks">>]
  <2>2. call' = [call EXCEPT ![c] = k]
    BY <2>1
  <2>3. call[c].batch \in SUBSET (Deliveries \X DeliveryRecords)
    BY <1>3 DEF Calls
  <2>4. item[1] \in Deliveries
    BY <2>1, <2>3
  <2>5. k \in Calls /\ k.svc = call[c].svc /\ k.copy = call[c].copy
        /\ k.todo = <<"enqueue", "checks">>
    BY <1>3, <1>5, <2>4 DEF Calls
  <2> HIDE DEF k
  <2>6. k \in CallStates /\ Sound(k, accepted, condemned)
    BY <1>3, <1>4, <2>5, PassiveFacts DEF IInv
  <2>7. QED
    BY <1>1, <2>2, <2>6, PassiveStep
<1>8. CASE SyncCheck(c)
  <2>1. CASE call' = [call EXCEPT ![c] = Idle]
    <3>1. Idle \in CallStates /\ Sound(Idle, accepted, condemned)
      BY DEF CallStates, Sound
    <3>2. QED
      BY <1>1, <2>1, <3>1, PassiveStep
  <2>2. CASE Continues(c, <<"remove", "checks">>)
    <3>1. Head(<<"remove", "checks">>) = "remove" /\ Head(<<"save", "post">>) = "save"
          /\ Head(<<"post">>) = "post"
      BY TupleFacts
    <3>2. GoesOn(c, <<"remove", "checks">>)
      BY <1>3 DEF GoesOn
    <3>3. \E k \in CallStates : call' = [call EXCEPT ![c] = k] /\ Sound(k, accepted, condemned)
      BY <1>3, <1>4, <2>2, <3>1, <3>2, NextCall DEF IInv
    <3>4. QED
      BY <1>1, <3>3, PassiveStep
  <2>3. ASSUME NEW pair, call' = [call EXCEPT ![c].seen = @ \ {pair}]
        PROVE  IInv'
    <3> DEFINE k == [call[c] EXCEPT !.seen = @ \ {pair}]
    <3>1. call' = [call EXCEPT ![c] = k]
      BY <2>3
    <3>2. k \in Calls /\ k.svc = call[c].svc /\ k.copy = call[c].copy /\ k.todo = call[c].todo
      BY <1>3 DEF Calls
    <3> HIDE DEF k
    <3>3. k \in CallStates /\ Sound(k, accepted, condemned)
      BY <1>3, <3>2, PassiveFacts DEF IInv
    <3>4. QED
      BY <1>1, <3>1, <3>3, PassiveStep
  <2>4. QED
    BY <1>8, <2>1, <2>2, <2>3 DEF SyncCheck
<1>9. QED
  BY <1>6, <1>7, <1>8

LEMMA SyncRemoveKeeps ==
    ASSUME IInv, NEW c \in Callers, SyncRemove(c)
    PROVE  IInv'
<1> DEFINE pair == CHOOSE p \in call[c].seen : TRUE
           k == [call[c] EXCEPT !.seen = @ \ {pair}, !.todo = Tail(call[c].todo)]
<1>1. At(c, "remove") /\ UNCHANGED <<row, aged, spoiled, accepted, condemned, faults>>
  BY DEF SyncRemove
<1>2. /\ call[c] # Idle /\ call[c] \in Calls /\ call[c].svc = "sync"
      /\ call[c].todo \in Todos["sync"] /\ Head(call[c].todo) = "remove"
  BY <1>1, AwaitTells DEF IInv, At
<1>3. Tail(call[c].todo) = <<"checks">>
  <2>1. Todos["sync"] = {<<"jobs">>, <<"checks">>, <<"enqueue", "checks">>, <<"remove", "checks">>}
    BY DEF Todos
  <2>2. /\ Head(<<"jobs">>) = "jobs" /\ Head(<<"checks">>) = "checks"
        /\ Head(<<"enqueue", "checks">>) = "enqueue" /\ Tail(<<"remove", "checks">>) = <<"checks">>
    BY TupleFacts
  <2>3. QED
    BY <1>2, <2>1, <2>2
<1>4. call' = [call EXCEPT ![c].seen = @ \ {pair}, ![c].todo = Tail(@)]
  BY DEF SyncRemove
<1>5. call \in [Callers -> CallStates]
  BY DEF IInv, TypeOK, CallStates
<1>6. call' = [call EXCEPT ![c] = k]
  BY <1>4, <1>5
<1>7. <<"checks">> \in Todos["sync"] /\ <<"checks">> \in Seq(Awaits)
  <2>1. <<"checks">> \in Todos["sync"] /\ "sync" \in ServiceNames
    BY DEF Todos, ServiceNames
  <2>2. QED
    BY <2>1, TodoFacts
<1>8. k \in Calls /\ k.svc = call[c].svc /\ k.copy = call[c].copy /\ k.todo = <<"checks">>
  BY <1>2, <1>3, <1>7 DEF Calls
<1>9. job' \in [JobIds -> JobStates] /\ SoundJobs'
  <2>1. job \in [JobIds -> JobStates]
    BY DEF IInv, TypeOK, JobStates
  <2>2. job' = job \/ job' = [job EXCEPT ![pair[1]] = NoJob]
    BY DEF SyncRemove
  <2>3. job' \in [JobIds -> JobStates] /\ \A j \in JobIds : job'[j] = job[j] \/ job'[j] = NoJob
    BY <2>1, <2>2 DEF JobStates
  <2>4. SoundJob(NoJob)
    BY DEF SoundJob, NoJob
  <2>5. QED
    BY <1>1, <2>3, <2>4 DEF IInv, SoundJobs, SoundJob
<1> HIDE DEF k
<1>10. k \in CallStates /\ Sound(k, accepted, condemned)
  BY <1>2, <1>7, <1>8, PassiveFacts DEF IInv
<1>11. call' \in [Callers -> CallStates] /\ SoundCalls'
  BY <1>1, <1>6, <1>10, CallPart DEF IInv
<1>12. TypeOK'
  BY <1>1, <1>9, <1>11 DEF IInv, TypeOK, CallStates, JobStates
<1>13. RetriesHaveATime' /\ SoundReports'
  BY <1>1 DEF IInv, RetriesHaveATime, SoundReports
<1>14. QED
  BY <1>9, <1>11, <1>12, <1>13 DEF IInv

LEMMA RebuildKeeps ==
    ASSUME IInv, NEW c \in Callers, RebuildQueue(c)
    PROVE  IInv'
<1>1. Batch(c, "rebuild", {}, <<"pending", "scheduled">>)
      /\ UNCHANGED <<row, aged, spoiled, accepted, condemned, faults>>
  BY DEF RebuildQueue
<1>2. <<"pending", "scheduled">> \in Todos["rebuild"] /\ "rebuild" \in ServiceNames
  BY DEF Todos, ServiceNames
<1>3. <<"pending", "scheduled">> \notin {<<"save", "post">>, <<"post">>}
  <2>1. /\ Head(<<"pending", "scheduled">>) = "pending"
        /\ Head(<<"post">>) = "post" /\ Head(<<"save", "post">>) = "save"
    BY TupleFacts
  <2>2. QED
    BY <2>1
<1>4. PICK k \in CallStates : call' = [call EXCEPT ![c] = k] /\ Sound(k, accepted, condemned)
  <2>1. {} \in SUBSET (Deliveries \X DeliveryRecords)
    OBVIOUS
  <2>2. QED
    BY <1>1, <1>2, <1>3, <2>1, BatchFacts DEF IInv
<1>5. call' \in [Callers -> CallStates] /\ SoundCalls'
  BY <1>1, <1>4, CallPart DEF IInv
<1>6. job' \in [JobIds -> JobStates] /\ SoundJobs'
  <2>1. job \in [JobIds -> JobStates]
    BY DEF IInv, TypeOK, JobStates
  <2>2. job' \in [JobIds -> JobStates] /\ \A j \in JobIds : job'[j] = job[j] \/ job'[j] = NoJob
    BY <2>1 DEF RebuildQueue, JobStates
  <2>3. SoundJob(NoJob)
    BY DEF SoundJob, NoJob
  <2>4. QED
    BY <1>1, <2>2, <2>3 DEF IInv, SoundJobs, SoundJob
<1>7. TypeOK'
  BY <1>1, <1>5, <1>6 DEF IInv, TypeOK, CallStates, JobStates
<1>8. RetriesHaveATime' /\ SoundReports'
  BY <1>1 DEF IInv, RetriesHaveATime, SoundReports
<1>9. QED
  BY <1>5, <1>6, <1>7, <1>8 DEF IInv

LEMMA RebuildLoopKeeps ==
    ASSUME IInv, NEW c \in Callers, RebuildQuery(c) \/ RebuildItem(c)
    PROVE  IInv'
<1>1. UNCHANGED <<row, aged, job, spoiled, accepted, condemned, faults>>
  BY DEF RebuildQuery, RebuildItem
<1>2. /\ call[c] # Idle /\ call[c] \in Calls /\ call[c].svc = "rebuild"
      /\ call[c].todo \in Todos["rebuild"] /\ "rebuild" \in ServiceNames
  <2>1. TypeOK /\ SoundCalls
    BY DEF IInv
  <2>2. CASE RebuildQuery(c)
    <3>1. PICK await \in {"pending", "scheduled"} : At(c, await)
      BY <2>2 DEF RebuildQuery
    <3>2. QED
      BY <2>1, <3>1, AwaitTells
  <2>3. CASE RebuildItem(c)
    BY <2>1, <2>3, AwaitTells DEF RebuildItem
  <2>4. QED
    BY <2>2, <2>3
<1>3. CASE RebuildQuery(c)
  <2>1. PICK await \in {"pending", "scheduled"} :
          /\ At(c, await)
          /\ call' = [call EXCEPT ![c] =
               [call[c] EXCEPT !.batch = RowsWith(IF await = "pending" THEN "PENDING"
                                                                       ELSE "SCHEDULED_RETRY"),
                               !.todo = <<"items">> \o Tail(@)]]
    BY <1>3 DEF RebuildQuery
  <2> DEFINE status == IF await = "pending" THEN "PENDING" ELSE "SCHEDULED_RETRY"
             todo == <<"items">> \o Tail(call[c].todo)
             k == [call[c] EXCEPT !.batch = RowsWith(status), !.todo = todo]
  <2>2. call' = [call EXCEPT ![c] = k]
    BY <2>1
  <2>3. RowsWith(status) \in SUBSET (Deliveries \X DeliveryRecords)
    <3> DEFINE D == {e \in Deliveries : row[e].status = status}
    <3>1. D \in SUBSET Deliveries
      OBVIOUS
    <3>2. RowsWith(status) = {<<d, row[d]>> : d \in D}
      BY DEF RowsWith
    <3> HIDE DEF D
    <3>3. QED
      BY <3>1, <3>2, RowPairs DEF IInv
  <2>4. todo \in Todos["rebuild"]
    BY <1>2, <2>1, RebuildTodo DEF At
  <2> HIDE DEF todo
  <2>5. todo \in Seq(Awaits)
    BY <1>2, <2>4, TodoFacts
  <2>6. k \in Calls /\ k.svc = call[c].svc /\ k.copy = call[c].copy /\ k.todo = todo
    BY <1>2, <2>3, <2>5 DEF Calls
  <2> HIDE DEF k
  <2>7. k \in CallStates /\ Sound(k, accepted, condemned)
    BY <1>2, <2>4, <2>6, PassiveFacts DEF IInv
  <2>8. QED
    BY <1>1, <2>2, <2>7, PassiveStep
<1>4. CASE RebuildItem(c)
  <2>0. Head(call[c].todo) = "items"
    BY <1>4 DEF RebuildItem, At
  <2>1. CASE Continues(c, Tail(call[c].todo))
    <3>1. Tail(call[c].todo) = <<>> \/ Tail(call[c].todo) \in Todos["rebuild"]
      BY <1>2, TodoFacts
    <3>2. Tail(call[c].todo) \notin {<<"save", "post">>, <<"post">>}
      <4>1. Head(<<"save", "post">>) = "save"
        BY TupleFacts
      <4>2. QED
        BY <1>2, <2>0, <4>1, TodoFacts
    <3>3. GoesOn(c, Tail(call[c].todo))
      BY <1>2 DEF GoesOn
    <3>4. \E k \in CallStates : call' = [call EXCEPT ![c] = k] /\ Sound(k, accepted, condemned)
      BY <1>2, <2>1, <3>1, <3>2, <3>3, NextCall DEF IInv
    <3>5. QED
      BY <1>1, <3>4, PassiveStep
  <2>2. ASSUME NEW item \in call[c].batch,
               call' = [call EXCEPT ![c] = [call[c] EXCEPT !.batch = @ \ {item},
                                       !.delivery = item[1], !.todo = <<"enqueue">> \o @]]
        PROVE  IInv'
    <3> DEFINE todo == <<"enqueue">> \o call[c].todo
               k == [call[c] EXCEPT !.batch = @ \ {item}, !.delivery = item[1], !.todo = todo]
    <3>1. call' = [call EXCEPT ![c] = k]
      BY <2>2
    <3>2. item[1] \in Deliveries
      BY <1>2, <2>2 DEF Calls
    <3>3. todo \in Todos["rebuild"]
      BY <1>2, <2>0, RebuildTodo
    <3> HIDE DEF todo
    <3>4. todo \in Seq(Awaits)
      BY <1>2, <3>3, TodoFacts
    <3>5. k \in Calls /\ k.svc = call[c].svc /\ k.copy = call[c].copy /\ k.todo = todo
      BY <1>2, <3>2, <3>4 DEF Calls
    <3> HIDE DEF k
    <3>6. k \in CallStates /\ Sound(k, accepted, condemned)
      BY <1>2, <3>3, <3>5, PassiveFacts DEF IInv
    <3>7. QED
      BY <1>1, <3>1, <3>6, PassiveStep
  <2>3. QED
    BY <1>4, <2>1, <2>2 DEF RebuildItem
<1>5. QED
  BY <1>3, <1>4

\* A step of the worker or of BullMQ changes one job, and with it at most
\* what the destination took.
LEMMA JobStepKeeps ==
    ASSUME IInv, NEW j \in JobIds, NEW b \in JobStates,
           job' = [job EXCEPT ![j] = b], SoundJob(b),
           UNCHANGED <<row, aged, call, spoiled, condemned>>,
           accepted \subseteq accepted', accepted' \subseteq Deliveries,
           faults' \in 0..MaxFaults
    PROVE  IInv'
<1>1. job' \in [JobIds -> JobStates] /\ SoundJobs'
  BY JobPart DEF IInv
<1>2. TypeOK'
  BY <1>1 DEF IInv, TypeOK, JobStates
<1>3. RetriesHaveATime' /\ SoundReports'
  BY DEF IInv, RetriesHaveATime, SoundReports
<1>4. SoundCalls'
  BY DEF IInv, SoundCalls, Sound
<1>5. QED
  BY <1>1, <1>2, <1>3, <1>4 DEF IInv

LEMMA WorkerKeeps ==
    ASSUME IInv, NEW j \in JobIds, JobStep(j) \/ StallJob(j)
    PROVE  IInv'
<1>1. job[j] \in JobStates /\ SoundJob(job[j])
  BY DEF IInv, TypeOK, JobStates, SoundJobs
<1>2. job[j].state # "none"
  BY DEF JobStep, StallJob, StartJob, SkipJob, PostJob, SaveAttempt, DropFailedJob, JobAt
<1>3. job[j] \in Jobs /\ job[j].delivery \in Deliveries
  BY <1>1, <1>2 DEF JobStates, NoJob, Jobs
<1>4. NoJob \in JobStates /\ SoundJob(NoJob)
  BY DEF JobStates, NoJob, SoundJob
<1>5. accepted \subseteq Deliveries /\ faults \in 0..MaxFaults
  BY DEF IInv, TypeOK
<1>6. CASE StartJob(j)
  <2> DEFINE b == [job[j] EXCEPT !.state = "active"]
  <2>1. b \in JobStates /\ SoundJob(b)
    BY <1>1, <1>3, <1>6 DEF StartJob, JobAt, JobStates, Jobs, SoundJob
  <2>2. job' = [job EXCEPT ![j] = b] /\ UNCHANGED <<row, aged, call, spoiled, accepted, condemned, faults>>
    BY <1>6 DEF StartJob
  <2> HIDE DEF b
  <2>3. QED
    BY <1>5, <2>1, <2>2, JobStepKeeps
<1>7. CASE SkipJob(j) \/ DropFailedJob(j)
  <2>1. job' = [job EXCEPT ![j] = NoJob] /\ UNCHANGED <<row, aged, call, spoiled, accepted, condemned, faults>>
    BY <1>7 DEF SkipJob, DropFailedJob
  <2>2. QED
    BY <1>4, <1>5, <2>1, JobStepKeeps
<1>8. ASSUME NEW taken \in BOOLEAN, PostJob(j, taken)
      PROVE  IInv'
  <2> DEFINE b == [job[j] EXCEPT !.state = "posted"]
  <2>1. job' = [job EXCEPT ![j] = b]
    BY <1>8 DEF PostJob
  <2>2. /\ accepted' = IF taken THEN accepted \cup {job[j].delivery} ELSE accepted
        /\ UNCHANGED <<row, aged, call, spoiled, condemned, faults>>
    BY <1>8 DEF PostJob
  <2>3. b \in JobStates /\ SoundJob(b)
    BY <1>1, <1>3, <1>8 DEF PostJob, JobAt, JobStates, Jobs, SoundJob
  <2> HIDE DEF b
  <2>4. accepted \subseteq accepted' /\ accepted' \subseteq Deliveries
    BY <1>3, <1>5, <2>2
  <2>5. QED
    BY <1>5, <2>1, <2>2, <2>3, <2>4, JobStepKeeps
<1>9. CASE SaveAttempt(j)
  <2> DEFINE made == job[j].made + 1
             last == IF LastAttempt(j) THEN "failed" ELSE "waiting"
             b == [job[j] EXCEPT !.made = made, !.state = last]
  <2>1. job \in [JobIds -> JobStates]
    BY DEF IInv, TypeOK, JobStates
  <2>2. /\ job' = [job EXCEPT ![j] = b]
        /\ UNCHANGED <<row, aged, call, spoiled, accepted, condemned, faults>>
    BY <1>9, <2>1 DEF SaveAttempt
  <2>3. job[j].made \in 0..MaxAttempts /\ job[j].made < MaxAttempts
    BY <1>1, <1>3, <1>9 DEF SaveAttempt, JobAt, SoundJob, Jobs
  <2>4. made \in 0..MaxAttempts /\ (last = "waiting" => made < MaxAttempts)
    BY <2>3, ServicesAssumption DEF LastAttempt
  <2>5. last \in {"failed", "waiting"}
    OBVIOUS
  <2> HIDE DEF last, made
  <2>6. b \in Jobs /\ b.made = made /\ b.state = last
    BY <1>3, <2>4, <2>5 DEF Jobs
  <2> HIDE DEF b
  <2>7. b \in JobStates /\ SoundJob(b)
    BY <2>4, <2>5, <2>6 DEF JobStates, SoundJob
  <2>8. QED
    BY <1>5, <2>2, <2>7, JobStepKeeps
<1>10. CASE StallJob(j)
  <2> DEFINE b == [job[j] EXCEPT !.state = "waiting"]
  <2>1. b \in JobStates /\ SoundJob(b)
    BY <1>1, <1>3, <1>10 DEF StallJob, JobStates, Jobs, SoundJob
  <2>2. job' = [job EXCEPT ![j] = b] /\ UNCHANGED <<row, aged, call, spoiled, accepted, condemned>>
    BY <1>10 DEF StallJob
  <2>3. faults' \in 0..MaxFaults
    BY <1>5, <1>10, ServicesAssumption DEF StallJob
  <2> HIDE DEF b
  <2>4. QED
    BY <1>5, <2>1, <2>2, <2>3, JobStepKeeps
<1>11. QED
  BY <1>6, <1>7, <1>8, <1>9, <1>10 DEF JobStep

\* Steps that touch neither a row nor a call nor a job.
LEMMA QuietKeeps ==
    ASSUME IInv, aged' \subseteq Deliveries,
           UNCHANGED <<row, job, call, spoiled, accepted, condemned, faults>>
    PROVE  IInv'
<1>1. TypeOK' /\ RetriesHaveATime'
  BY DEF IInv, TypeOK, RetriesHaveATime
<1>2. SoundCalls'
  BY DEF IInv, SoundCalls, Sound
<1>3. SoundJobs' /\ SoundReports'
  BY DEF IInv, SoundJobs, SoundJob, SoundReports
<1>4. QED
  BY <1>1, <1>2, <1>3 DEF IInv

-----------------------------------------------------------------------------
(* The inductive invariant *)

LEMMA IInvInit == Init => IInv
<1> SUFFICES ASSUME Init PROVE IInv
  OBVIOUS
<1>1. Created \in DeliveryRecords /\ Created.status = "PENDING"
  BY EntityAssumption DEF Created, DeliveryRecords, Statuses
<1>2. TypeOK
  BY <1>1, ServicesAssumption DEF Init, TypeOK
<1>3. RetriesHaveATime /\ SoundReports
  BY <1>1 DEF Init, RetriesHaveATime, SoundReports, Final
<1>4. SoundCalls
  BY DEF Init, SoundCalls, Sound
<1>5. SoundJobs
  BY DEF Init, SoundJobs, SoundJob, NoJob
<1>6. QED
  BY <1>2, <1>3, <1>4, <1>5 DEF IInv

\* A step of Next is a step of one of the lemmas above.
LEMMA IInvInductive == IInv /\ [Next]_vars => IInv'
<1> SUFFICES ASSUME IInv, [Next]_vars PROVE IInv'
  OBVIOUS
<1>1. CASE UNCHANGED vars
  BY <1>1, QuietKeeps DEF vars, IInv, TypeOK
<1>2. ASSUME NEW d \in Deliveries, Aging(d) PROVE IInv'
  BY <1>2, QuietKeeps DEF Aging, IInv, TypeOK
<1>3. ASSUME NEW c \in Callers, NEW d \in Deliveries,
             \/ ProcessDelivery(c, d) \/ ScheduleRetryCall(c, d) \/ RescheduleJob(c, d)
             \/ CancelRetry(c, d) \/ \E retryable \in BOOLEAN : HandleFailure(c, d, retryable)
      PROVE  IInv'
  BY <1>3, BeginKeeps
<1>4. ASSUME NEW c \in Callers, RecoverStale(c) \/ SyncState(c) \/ RebuildQueue(c) PROVE IInv'
  BY <1>4, RecoverKeeps, RebuildKeeps
<1>5. ASSUME NEW c \in Callers, ServiceStep(c) PROVE IInv'
  BY <1>5, SaveKeeps, EnqueueKeeps, RecordKeeps, PostKeeps, RecoverItemKeeps, SyncKeeps,
     SyncRemoveKeeps, RebuildLoopKeeps DEF ServiceStep
<1>6. ASSUME NEW c \in Callers, PostUnanswered(c) \/ Rejects(c) \/ Crash(c) PROVE IInv'
  BY <1>6, CrashKeeps, RejectsKeeps
<1>7. ASSUME NEW j \in JobIds, JobStep(j) \/ StallJob(j) PROVE IInv'
  BY <1>7, WorkerKeeps
<1>8. QED
  BY <1>1, <1>2, <1>3, <1>4, <1>5, <1>6, <1>7 DEF Next

\* The inductive invariant holds throughout.
LEMMA IInvHolds == Spec => []IInv
  BY IInvInit, IInvInductive, PTL DEF Spec

(***************************************************************************)
(* Whatever services, workers, crashes and rejected awaits interleave, a   *)
(* row waiting for a retry has the time DelayedQueueProcessor looks for    *)
(* and a final row has none, and rows, jobs and calls keep their types.    *)
(***************************************************************************)
THEOREM RowsStaySound == Spec => []RowsAreSound
<1>1. IInv => RowsAreSound
  BY DEF IInv, RowsAreSound
<1>2. QED
  BY <1>1, IInvHolds, PTL

-----------------------------------------------------------------------------
(* What a step shows to the outside *)

(***************************************************************************)
(* A step writes at most one row: a save writes a copy whose COMPLETED and *)
(* FAILED_DLQ are justified, every other step keeps all statuses.          *)
(***************************************************************************)
KeepsStatuses == \A d \in Deliveries : row'[d].status = row[d].status

Saves(d, copy) ==
    /\ row' = [row EXCEPT ![d] = copy]
    /\ copy.status = "COMPLETED" => d \in accepted
    /\ Buriable(copy, d, condemned)
    /\ UNCHANGED <<accepted, condemned>>

LEMMA SaveShows ==
    ASSUME IInv, NEW c \in Callers, Save(c)
    PROVE  \E d \in Deliveries, copy \in DeliveryRecords : Saves(d, copy)
<1>1. call[c] # Idle
  BY DEF Save, At
<1>2. /\ call[c].delivery \in Deliveries /\ call[c].copy \in DeliveryRecords
      /\ Sound(call[c], accepted, condemned)
  BY <1>1, CallFacts DEF IInv
<1>3. Saves(call[c].delivery, call[c].copy)
  BY <1>1, <1>2 DEF Save, SaveCopy, Saves, Sound, Buriable
<1>4. QED
  BY <1>2, <1>3

\* What the destination took grows by one delivery at most.
Accepts(d) ==
    /\ KeepsStatuses
    /\ accepted' = accepted \cup {d}

LEMMA StepShows ==
    ASSUME IInv, [Next]_vars
    PROVE  \/ \E d \in Deliveries, copy \in DeliveryRecords : Saves(d, copy)
           \/ KeepsStatuses /\ UNCHANGED accepted
           \/ \E d \in Deliveries : Accepts(d)
<1>0. UNCHANGED row => KeepsStatuses
  BY DEF KeepsStatuses
<1>1. CASE UNCHANGED vars
  BY <1>0, <1>1 DEF vars
<1>2. ASSUME NEW d \in Deliveries, Aging(d)
      PROVE  UNCHANGED <<row, accepted>>
  BY <1>2 DEF Aging
<1>3. ASSUME NEW c \in Callers, NEW d \in Deliveries,
             \/ ProcessDelivery(c, d) \/ ScheduleRetryCall(c, d) \/ RescheduleJob(c, d)
             \/ CancelRetry(c, d) \/ \E retryable \in BOOLEAN : HandleFailure(c, d, retryable)
      PROVE  UNCHANGED <<row, accepted>>
  BY <1>3 DEF ProcessDelivery, ScheduleRetryCall, RescheduleJob, CancelRetry, HandleFailure
<1>4. ASSUME NEW c \in Callers,
             RecoverStale(c) \/ SyncState(c) \/ RebuildQueue(c) \/ Rejects(c) \/ Crash(c)
      PROVE  UNCHANGED <<row, accepted>>
  BY <1>4 DEF RecoverStale, SyncState, RebuildQueue, Rejects, Crash
<1>5. ASSUME NEW c \in Callers,
             \/ Enqueue(c) \/ RecoverItem(c) \/ SyncJobs(c) \/ SyncEnqueue(c) \/ SyncCheck(c)
             \/ SyncRemove(c) \/ RebuildQuery(c) \/ RebuildItem(c)
      PROVE  UNCHANGED <<row, accepted>>
  BY <1>5 DEF Enqueue, RecoverItem, SyncJobs, SyncEnqueue, SyncCheck, SyncRemove, RebuildQuery,
              RebuildItem
<1>6. ASSUME NEW c \in Callers, RecordAttempt(c)
      PROVE  KeepsStatuses /\ UNCHANGED accepted
  <2>1. row \in [Deliveries -> DeliveryRecords]
    BY DEF IInv, TypeOK
  <2>2. row' = [row EXCEPT ![call[c].delivery].count = Bounded(call[c].copy.count + 1)]
    BY <1>6 DEF RecordAttempt
  <2>3. ASSUME NEW d \in Deliveries
        PROVE  row'[d].status = row[d].status
    <3>1. row[d] \in DeliveryRecords
      BY <2>1
    <3>2. CASE d = call[c].delivery
      <4>1. row'[d] = [row[d] EXCEPT !.count = Bounded(call[c].copy.count + 1)]
        BY <2>1, <2>2, <3>2
      <4>2. QED
        BY <3>1, <4>1 DEF DeliveryRecords
    <3>3. CASE d # call[c].delivery
      BY <2>1, <2>2, <3>3
    <3>4. QED
      BY <3>2, <3>3
  <2>4. QED
    BY <1>6, <2>3 DEF RecordAttempt, KeepsStatuses
<1>7. ASSUME NEW c \in Callers,
             PostUnanswered(c) \/ \E answer \in {"ok", "retryable", "permanent"} : PostAnswered(c, answer)
      PROVE  \/ KeepsStatuses /\ UNCHANGED accepted
             \/ \E d \in Deliveries : Accepts(d)
  <2>1. call[c] # Idle /\ UNCHANGED row
    BY <1>7 DEF PostUnanswered, PostAnswered, At
  <2>2. call[c].delivery \in Deliveries
    BY <2>1, CallFacts DEF IInv
  <2>3. accepted' \in {accepted, accepted \cup {call[c].delivery}}
    BY <1>7 DEF PostUnanswered, PostAnswered
  <2>4. QED
    BY <1>0, <2>1, <2>2, <2>3 DEF Accepts
<1>8. ASSUME NEW j \in JobIds, StartJob(j) \/ SkipJob(j) \/ SaveAttempt(j) \/ DropFailedJob(j) \/ StallJob(j)
      PROVE  UNCHANGED <<row, accepted>>
  BY <1>8 DEF StartJob, SkipJob, SaveAttempt, DropFailedJob, StallJob
<1>9. ASSUME NEW j \in JobIds, JobAt(j, "active")
      PROVE  job[j].delivery \in Deliveries
  <2>1. job[j] \in {NoJob} \cup Jobs /\ job[j].state # "none"
    BY <1>9 DEF IInv, TypeOK, JobAt
  <2>2. QED
    BY <2>1 DEF NoJob, Jobs
<1>10. ASSUME NEW j \in JobIds, NEW taken \in BOOLEAN, PostJob(j, taken)
       PROVE  \/ KeepsStatuses /\ UNCHANGED accepted
              \/ \E d \in Deliveries : Accepts(d)
  <2>1. job[j].delivery \in Deliveries
    BY <1>9, <1>10 DEF PostJob
  <2>2. UNCHANGED row /\ accepted' \in {accepted, accepted \cup {job[j].delivery}}
    BY <1>10 DEF PostJob
  <2>3. QED
    BY <1>0, <2>1, <2>2 DEF Accepts
<1>11. ASSUME NEW c \in Callers, Save(c)
       PROVE  \E d \in Deliveries, copy \in DeliveryRecords : Saves(d, copy)
  BY <1>11, SaveShows
<1>12. QED
  BY <1>0, <1>1, <1>2, <1>3, <1>4, <1>5, <1>6, <1>7, <1>8, <1>10, <1>11
     DEF Next, ServiceStep, JobStep

(***************************************************************************)
(* Only a save buries a delivery, and the copy it writes was given up for  *)
(* a reason when it was made: a failure that must not be retried, an       *)
(* operator's cancel, or a spent budget, however long ago it was loaded.   *)
(***************************************************************************)
THEOREM NothingIsBuriedWithoutAReason == Spec => BuriedForAReason
<1> DEFINE Reason == \A d \in Deliveries :
                        row[d].status # "FAILED_DLQ" /\ row'[d].status = "FAILED_DLQ"
                          => d \in condemned \/ row'[d].count >= MaxRetries
<1>1. ASSUME IInv, [Next]_vars
      PROVE  Reason
  <2>1. row \in [Deliveries -> DeliveryRecords]
    BY <1>1 DEF IInv, TypeOK
  <2>2. ASSUME NEW d \in Deliveries, NEW copy \in DeliveryRecords, Saves(d, copy)
        PROVE  Reason
    BY <2>1, <2>2 DEF Saves, Buriable
  <2>3. CASE KeepsStatuses
    BY <2>3 DEF KeepsStatuses
  <2>4. QED
    BY <1>1, <2>2, <2>3, StepShows DEF Accepts
<1>2. IInv /\ [Next]_vars => [Reason]_vars
  BY <1>1
<1>3. QED
  BY <1>2, IInvHolds, PTL DEF Spec, BuriedForAReason

ReportOf(status) ==
    IF status = "COMPLETED" THEN "delivered"
    ELSE IF status = "FAILED_DLQ" THEN "dead" ELSE "open"

LEMMA ContractStep ==
    ASSUME IInv, [Next]_vars
    PROVE  [Contract!ContractNext]_(Contract!cvars)
<1>1. row \in [Deliveries -> DeliveryRecords]
  BY DEF IInv, TypeOK
<1>2. /\ Report = [d \in Deliveries |-> ReportOf(row[d].status)]
      /\ Report' = [d \in Deliveries |-> ReportOf(row'[d].status)]
  BY DEF Report, ReportOf
<1>3. KeepsStatuses => Report' = Report
  BY <1>2 DEF KeepsStatuses
<1>4. ASSUME NEW d \in Deliveries, NEW copy \in DeliveryRecords, Saves(d, copy)
      PROVE  Contract!ContractNext
  <2>1. /\ row' = [row EXCEPT ![d] = copy] /\ UNCHANGED accepted
        /\ copy.status = "COMPLETED" => d \in accepted
    BY <1>4 DEF Saves
  <2>2. \A e \in Deliveries : row'[e] = IF e = d THEN copy ELSE row[e]
    BY <1>1, <2>1
  <2>3. Report' = [Report EXCEPT ![d] = ReportOf(copy.status)]
    BY <1>2, <2>1, <2>2
  <2>4. \/ ReportOf(copy.status) = "delivered" /\ d \in accepted
        \/ ReportOf(copy.status) \in {"dead", "open"}
    BY <2>1 DEF ReportOf
  <2>5. QED
    BY <2>1, <2>3, <2>4
       DEF Contract!ContractNext, Contract!ReportDelivered, Contract!GiveUp, Contract!Reopen
<1>5. ASSUME NEW d \in Deliveries, Accepts(d)
      PROVE  Contract!ContractNext
  BY <1>3, <1>5 DEF Accepts, Contract!ContractNext, Contract!DestinationAccepts
<1>6. CASE KeepsStatuses /\ UNCHANGED accepted
  BY <1>3, <1>6 DEF Contract!cvars
<1>7. QED
  BY <1>4, <1>5, <1>6, StepShows

(***************************************************************************)
(* The services and the use case implement the delivery contract: every    *)
(* step maps to a step of DeliveryContract or leaves its variables alone,  *)
(* so no row reports as delivered what the destination did not take.       *)
(***************************************************************************)
THEOREM ServicesImplementContract == Spec => ImplementsContract
<1>1. Init => Contract!ContractInit
  BY DEF Init, Contract!ContractInit, Report, Created
<1>2. IInv /\ [Next]_vars => [Contract!ContractNext]_(Contract!cvars)
  BY ContractStep
<1>3. QED
  BY <1>1, <1>2, IInvHolds, PTL DEF Spec, ImplementsContract, Contract!ContractSpec

-----------------------------------------------------------------------------
(* What recoverStale does with the rows it has found *)

\* A step of a recovery that goes on: what becomes of the row it is at.
LEMMA RecoveryStep ==
    ASSUME IInv, [Next]_vars, NEW c \in Callers, call[c] # Idle, call[c].svc = "recover"
    PROVE  UNCHANGED call[c] \/ Save(c) \/ Enqueue(c) \/ Rejects(c) \/ Crash(c) \/ RecoverItem(c)
<1>1. call \in [Callers -> CallStates]
  BY DEF IInv, TypeOK, CallStates
<1>2. /\ call[c].todo \in Todos["recover"] /\ "recover" \in ServiceNames
      /\ Head(call[c].todo) \notin {"post", "record", "jobs", "checks", "remove", "pending", "scheduled"}
  <2>1. call[c].svc \in ServiceNames /\ call[c].todo \in Todos[call[c].svc]
    BY CallFacts DEF IInv
  <2>2. QED
    BY <2>1, TodoFacts
<1>3. ASSUME NEW b \in Callers, b # c, NEW k, call' = [call EXCEPT ![b] = k]
      PROVE  UNCHANGED call[c]
  BY <1>1, <1>3
<1>4. CASE UNCHANGED vars
  BY <1>4 DEF vars
<1>5. ASSUME NEW d \in Deliveries, Aging(d)
      PROVE  UNCHANGED call[c]
  BY <1>5 DEF Aging
<1>6. ASSUME NEW b \in Callers, NEW d \in Deliveries,
             \/ ProcessDelivery(b, d) \/ ScheduleRetryCall(b, d) \/ RescheduleJob(b, d)
             \/ CancelRetry(b, d) \/ \E retryable \in BOOLEAN : HandleFailure(b, d, retryable)
      PROVE  UNCHANGED call[c]
  <2>1. call[b] = Idle /\ \E k : call' = [call EXCEPT ![b] = k]
    BY <1>6 DEF ProcessDelivery, ScheduleRetryCall, RescheduleJob, CancelRetry, HandleFailure, Free,
                Starts
  <2>2. QED
    BY <1>3, <2>1
<1>7. ASSUME NEW b \in Callers, RecoverStale(b) \/ SyncState(b) \/ RebuildQueue(b)
      PROVE  UNCHANGED call[c]
  <2>1. call[b] = Idle /\ \E k : call' = [call EXCEPT ![b] = k]
    BY <1>7 DEF RecoverStale, SyncState, RebuildQueue, Free, Batch
  <2>2. QED
    BY <1>3, <2>1
<1>8. ASSUME NEW b \in Callers,
             Save(b) \/ Enqueue(b) \/ Rejects(b) \/ Crash(b) \/ RecoverItem(b)
      PROVE  UNCHANGED call[c] \/ b = c
  <2>1. \E k : call' = [call EXCEPT ![b] = k]
    BY <1>8 DEF Save, Enqueue, Rejects, Crash, RecoverItem, Continues
  <2>2. QED
    BY <1>3, <2>1
<1>9. ASSUME NEW b \in Callers,
             \/ RecordAttempt(b) \/ PostUnanswered(b)
             \/ \E answer \in {"ok", "retryable", "permanent"} : PostAnswered(b, answer)
      PROVE  UNCHANGED call[c]
  <2>1. b # c
    BY <1>2, <1>9 DEF RecordAttempt, PostUnanswered, PostAnswered, At
  <2>2. CASE RecordAttempt(b) \/ PostUnanswered(b)
    <3>1. \E k : call' = [call EXCEPT ![b] = k]
      BY <2>2 DEF RecordAttempt, PostUnanswered, Continues
    <3>2. QED
      BY <1>3, <2>1, <3>1
  <2>3. ASSUME NEW answer \in {"ok", "retryable", "permanent"}, PostAnswered(b, answer)
        PROVE  UNCHANGED call[c]
    BY <1>1, <2>1, <2>3 DEF PostAnswered
  <2>4. QED
    BY <1>9, <2>2, <2>3
<1>10. ASSUME NEW b \in Callers, SyncJobs(b) \/ SyncEnqueue(b) \/ SyncCheck(b) \/ SyncRemove(b)
       PROVE  UNCHANGED call[c]
  <2>1. b # c
    BY <1>2, <1>10 DEF SyncJobs, SyncEnqueue, SyncCheck, SyncRemove, At
  <2>2. QED
    BY <1>1, <1>10, <2>1 DEF SyncJobs, SyncEnqueue, SyncCheck, SyncRemove, Continues
<1>11. ASSUME NEW b \in Callers, RebuildQuery(b) \/ RebuildItem(b)
       PROVE  UNCHANGED call[c]
  <2>1. b # c
    BY <1>2, <1>11 DEF RebuildQuery, RebuildItem, At
  <2>2. QED
    BY <1>1, <1>11, <2>1 DEF RebuildQuery, RebuildItem, Continues
<1>12. ASSUME NEW j \in JobIds, JobStep(j) \/ StallJob(j)
       PROVE  UNCHANGED call[c]
  BY <1>12 DEF JobStep, StallJob, StartJob, SkipJob, PostJob, SaveAttempt, DropFailedJob
<1>13. QED
  BY <1>4, <1>5, <1>6, <1>7, <1>8, <1>9, <1>10, <1>11, <1>12 DEF Next, ServiceStep

(***************************************************************************)
(* However many rows recoverStale has found, it drops none: a row leaves   *)
(* its batch only with a save that takes it out of PROCESSING, with a      *)
(* rejected await of its own, or with the death of the process.            *)
(***************************************************************************)
THEOREM RecoveryDropsNoRow == Spec => FoundRowsMoveOn
<1> DEFINE Kept == \A c \in Callers, d \in Deliveries :
                      d \in AtHand(c) /\ d \notin AtHand(c)'
                        => row'[d].status # "PROCESSING" \/ d \in spoiled'
<1>1. ASSUME IInv, [Next]_vars
      PROVE  Kept
  <2> SUFFICES ASSUME NEW c \in Callers, NEW d \in Deliveries, d \in AtHand(c), d \notin AtHand(c)'
               PROVE  row'[d].status # "PROCESSING" \/ d \in spoiled'
    OBVIOUS
  <2>1. /\ call[c] # Idle /\ call[c].svc = "recover"
        /\ AtHand(c) = {item[1] : item \in call[c].batch}
                        \cup (IF Head(call[c].todo) = "items" THEN {} ELSE {call[c].delivery})
    BY DEF AtHand
  <2>2. /\ call[c] \in Calls /\ call[c].todo \in Todos["recover"] /\ "recover" \in ServiceNames
        /\ Sound(call[c], accepted, condemned)
    BY <1>1, <2>1, CallFacts DEF IInv
  <2>3. call \in [Callers -> CallStates] /\ row \in [Deliveries -> DeliveryRecords]
    BY <1>1 DEF IInv, TypeOK, CallStates
  <2>4. ASSUME NEW todo, todo # <<>>, call' = [call EXCEPT ![c] = [@ EXCEPT !.todo = todo]]
        PROVE  AtHand(c)' = {item[1] : item \in call[c].batch}
                            \cup (IF Head(todo) = "items" THEN {} ELSE {call[c].delivery})
    <3> DEFINE k == [call[c] EXCEPT !.todo = todo]
    <3>1. /\ call'[c] = k /\ k.svc = "recover" /\ k.todo = todo
          /\ k.batch = call[c].batch /\ k.delivery = call[c].delivery
      BY <2>1, <2>2, <2>3, <2>4 DEF Calls
    <3>2. k # Idle
      BY <3>1 DEF Idle
    <3> HIDE DEF k
    <3>3. QED
      BY <3>1, <3>2 DEF AtHand
  <2>5. CASE UNCHANGED call[c]
    BY <2>5 DEF AtHand
  <2>6. CASE Save(c)
    <3>1. Head(call[c].todo) = "save"
      BY <2>6 DEF Save, At
    <3>2. call[c].todo = <<"save", "items">>
      <4>1. Todos["recover"] = {<<"items">>, <<"save", "items">>, <<"enqueue", "save", "items">>}
        BY DEF Todos
      <4>2. Head(<<"items">>) = "items" /\ Head(<<"enqueue", "save", "items">>) = "enqueue"
        BY TupleFacts
      <4>3. QED
        BY <2>2, <3>1, <4>1, <4>2
    <3>3. call' = [call EXCEPT ![c] = [@ EXCEPT !.todo = <<"items">>]]
      <4>1. Tail(<<"save", "items">>) = <<"items">> /\ <<"items">> # <<>>
        BY TupleFacts
      <4>2. QED
        BY <2>6, <3>2, <4>1 DEF Save, Continues
    <3>4. d = call[c].delivery
      BY <2>1, <2>4, <3>3
    <3>5. row' = [row EXCEPT ![d] = call[c].copy]
      BY <2>6, <3>4 DEF Save, SaveCopy
    <3>6. call[c].copy.status # "PROCESSING"
      <4>1. <<"save", "items">> # <<"items">>
        OBVIOUS
      <4>2. call[c].todo # <<"items">>
        BY <3>2, <4>1
      <4>3. QED
        BY <2>1, <2>2, <4>2 DEF Sound
    <3>7. QED
      BY <2>3, <3>5, <3>6
  <2>7. CASE Enqueue(c)
    <3>1. Head(call[c].todo) = "enqueue"
      BY <2>7 DEF Enqueue, At
    <3>2. Tail(call[c].todo) = <<"save", "items">>
      <4>1. Todos["recover"] = {<<"items">>, <<"save", "items">>, <<"enqueue", "save", "items">>}
        BY DEF Todos
      <4>2. /\ Head(<<"items">>) = "items" /\ Head(<<"save", "items">>) = "save"
            /\ Tail(<<"enqueue", "save", "items">>) = <<"save", "items">>
        BY TupleFacts
      <4>3. QED
        BY <2>2, <3>1, <4>1, <4>2
    <3>3. Head(<<"save", "items">>) = "save" /\ <<"save", "items">> # <<>>
      OBVIOUS
    <3>4. call' = [call EXCEPT ![c] = [@ EXCEPT !.todo = <<"save", "items">>]]
      BY <2>7, <3>2, <3>3 DEF Enqueue, Continues
    <3>5. QED
      BY <2>1, <2>4, <3>1, <3>3, <3>4
  <2>8. CASE Rejects(c)
    <3>1. call' = [call EXCEPT ![c] = [@ EXCEPT !.todo = <<"items">>]]
      BY <2>1, <2>8 DEF Rejects, AfterReject, Continues
    <3>2. d = call[c].delivery
      BY <2>1, <2>4, <3>1
    <3>3. QED
      BY <2>1, <2>8, <3>2 DEF Rejects
  <2>9. CASE Crash(c)
    BY <2>9 DEF Crash
  <2>10. CASE RecoverItem(c)
    <3>1. call[c].batch # {}
      BY <2>1, <2>10 DEF RecoverItem, At
    <3>2. PICK item \in call[c].batch :
            call' = [call EXCEPT ![c] =
              [call[c] EXCEPT !.batch = @ \ {item}, !.delivery = item[1],
                              !.copy = RecoveredCopy(item[2]),
                              !.todo = IF RecoveredCopy(item[2]).status = "FAILED_DLQ"
                                       THEN <<"save", "items">>
                                       ELSE <<"enqueue", "save", "items">>]]
      BY <2>10, <3>1 DEF RecoverItem
    <3> DEFINE todo == IF RecoveredCopy(item[2]).status = "FAILED_DLQ"
                       THEN <<"save", "items">> ELSE <<"enqueue", "save", "items">>
               k == [call[c] EXCEPT !.batch = @ \ {item}, !.delivery = item[1],
                                    !.copy = RecoveredCopy(item[2]), !.todo = todo]
    <3>3. Head(todo) # "items"
      BY TupleFacts
    <3>4. call'[c] = k
      BY <2>3, <3>2
    <3> HIDE DEF todo
    <3>5. /\ k.svc = "recover" /\ k.todo = todo
          /\ k.batch = call[c].batch \ {item} /\ k.delivery = item[1]
      BY <2>1, <2>2 DEF Calls
    <3>6. k # Idle
      BY <3>5 DEF Idle
    <3> HIDE DEF k
    <3>7. AtHand(c)' = {pair[1] : pair \in call[c].batch \ {item}} \cup {item[1]}
      BY <3>3, <3>4, <3>5, <3>6 DEF AtHand
    <3>8. Head(call[c].todo) = "items"
      BY <2>10 DEF RecoverItem, At
    <3>9. QED
      BY <2>1, <3>7, <3>8
  <2>11. QED
    BY <1>1, <2>1, <2>5, <2>6, <2>7, <2>8, <2>9, <2>10, RecoveryStep
<1>2. IInv /\ [Next]_vars => [Kept]_vars
  BY <1>1
<1>3. QED
  BY <1>2, IInvHolds, PTL DEF Spec, FoundRowsMoveOn
=============================================================================
