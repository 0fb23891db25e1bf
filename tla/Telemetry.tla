----------------------------- MODULE Telemetry -----------------------------
(***************************************************************************)
(* What the process knows of itself: SLOTracker and its window of          *)
(* latencies, Gauge as an up-down counter with attributes, HealthScore     *)
(* whose runs may overlap, AuditLogger over its two storages, the trace    *)
(* context from hop to hop, and the log context a request carries.         *)
(***************************************************************************)
EXTENDS Integers, Sequences, SequencesExt, FiniteSets, FiniteSetsExt, TLC

CONSTANTS
    SloTargets,     \* availability targets, in tenths of a percent: 999 in the code
    Percentile,     \* 95 in the code
    LatencyWindow,  \* latencies kept: 1000 in the code
    MaxTracked,     \* bound: requests tracked
    Attributes,     \* attribute sets a gauge is set with
    MaxGauge,       \* bound: values of a gauge
    Items,          \* checks of a health score, run in the order of Items
    ScoreRuns,           \* calls of HealthScore.run
    MaxEvents,      \* bound: audit events
    KeepDays,       \* olderThanDays
    MaxHops,        \* bound: hops of a trace
    Tasks,          \* asynchronous tasks with a context of their own
    MaxNesting      \* bound: nested calls of CorrelationContext.run

ASSUME TelemetryAssumption ==
    /\ SloTargets \subseteq 0..1000 /\ Percentile \in 0..99 /\ LatencyWindow \in Nat \ {0}
    /\ MaxTracked \in Nat /\ MaxGauge \in Nat /\ MaxEvents \in Nat /\ KeepDays \in Nat /\ MaxHops \in Nat
    /\ MaxNesting \in Nat

\* A gauge was set with finitely many attribute sets.
ASSUME GaugeAssumption == IsFiniteSet(Attributes)

\* There are checks, and so few that one of them is more than what
\* Math.round hides.
ASSUME ScoreAssumption == Items \in Seq(ToSet(Items)) /\ Len(Items) \in 1..199

-----------------------------------------------------------------------------
(* SLOTracker *)

VARIABLES
    availabilityTarget,
    tracked,        \* totalRequests, successfulRequests, failedRequests
    latencies,
    answered        \* history: the answers tracked, TRUE for success

sloVars == <<availabilityTarget, tracked, latencies, answered>>

SloInit ==
    /\ availabilityTarget \in SloTargets
    /\ tracked = [total |-> 0, ok |-> 0, failed |-> 0]
    /\ latencies = <<>> /\ answered = <<>>

Track(success) ==
    [tracked EXCEPT !.total = @ + 1,
                    !.ok = IF success THEN @ + 1 ELSE @, !.failed = IF success THEN @ ELSE @ + 1]

\* trackAvailability, trackErrorRate
TrackAvailability(success) ==
    /\ Len(answered) < MaxTracked /\ answered' = Append(answered, success)
    /\ tracked' = Track(success)
    /\ UNCHANGED <<availabilityTarget, latencies>>

TrackLatency(ms) ==
    /\ LET longer == Append(latencies, ms)
       IN  latencies' = IF Len(longer) > LatencyWindow THEN Tail(longer) ELSE longer
    /\ UNCHANGED <<availabilityTarget, tracked, answered>>

SloNext ==
    \/ \E success \in BOOLEAN : TrackAvailability(success)
    \/ \E ms \in 1..3 : TrackLatency(ms)

\* getStatus in floating point: two shares that are equal may come out either
\* way, which is what "tie" says, and those that differ keep their order.
\* Without a request the total counts as one, with none successful.
Total == IF tracked.total = 0 THEN 1 ELSE tracked.total
Exceeds(a, b, tie) == a > b \/ (a = b /\ tie)
Allowed == 1000 - availabilityTarget
Met(tie) == Exceeds(tracked.ok * 1000, availabilityTarget * Total, tie)
\* budget > 0; nothing is left of no budget.
BudgetLeft(tie) == Allowed > 0 /\ Exceeds(Allowed * Total, tracked.failed * 1000, tie)
\* burndown > 100; it is 0 if no failure is allowed.
BurnedDown(tie) == Allowed > 0 /\ Exceeds(tracked.failed * 1000, Allowed * Total, tie)

PercentileOf(sorted) == sorted[Min({(Len(sorted) * Percentile) \div 100 + 1, Len(sorted)})]

\* What sort leaves: the same entries in ascending order.
Sorted(s) ==
    LET places == DOMAIN s IN
    CHOOSE t \in {[i \in places |-> s[p[i]]] : p \in Bijection(places, places)} :
        \A i, j \in places : i <= j => t[i] <= t[j]

LatencyP95 == PercentileOf(Sorted(latencies))

\* getSLOReport's latency against what a percentile is: no more than the
\* percentage of the latencies is below it, and at least so many not above.
IsPercentile(p) ==
    /\ Cardinality({i \in DOMAIN latencies : latencies[i] < p}) * 100 <= Percentile * Len(latencies)
    /\ Cardinality({i \in DOMAIN latencies : latencies[i] <= p}) * 100 >= Percentile * Len(latencies)

(***************************************************************************)
(* Once a request was tracked, the three words of getStatus tell what was  *)
(* answered, unless the share of successes is the target to the last digit *)
(* (999 of 1000 at 99.9 are met and burned down).  A target of 100 fails   *)
(* with the first failure, and shows a burndown of 0 all the same.         *)
(***************************************************************************)
StatusAgrees ==
    answered # <<>> =>
        LET share == Cardinality({n \in DOMAIN answered : answered[n]}) * 1000
            aim == availabilityTarget * Len(answered)
        IN  \A met, left, burnt \in BOOLEAN :
              /\ share > aim => Met(met) /\ BudgetLeft(left) /\ ~BurnedDown(burnt)
              /\ share < aim => /\ ~Met(met) /\ ~BudgetLeft(left)
                               /\ BurnedDown(burnt) <=> availabilityTarget < 1000

(***************************************************************************)
(* The latency reported is a percentile of the latencies in the window,    *)
(* whatever slid out of it.                                                *)
(***************************************************************************)
PercentileIsOne == latencies # <<>> => IsPercentile(LatencyP95)

-----------------------------------------------------------------------------
(* Gauge *)

VARIABLES
    value,          \* currentValue
    series          \* per attribute set: the sum its up-down counter shows

gaugeVars == <<value, series>>

GaugeInit ==
    value = 0 /\ series = [a \in Attributes |-> 0]

Shows(a, v, diff) ==
    /\ value' = v /\ v \in -MaxGauge..MaxGauge
    /\ series' = [series EXCEPT ![a] = @ + diff]

\* set adds the difference to the one current value.
SetGauge(a, v) == Shows(a, v, v - value)
Up(a) == Shows(a, value + 1, 1)
Down(a) == Shows(a, value - 1, -1)

\* Values of a series that can be told apart.
GaugeNext ==
    /\ \A a \in Attributes : series[a] \in -MaxGauge..MaxGauge
    /\ \E a \in Attributes : Up(a) \/ Down(a) \/ \E v \in 0..MaxGauge : SetGauge(a, v)

(***************************************************************************)
(* The series of a gauge add up to the value set last, by whichever        *)
(* attributes: a gauge that is always set with the same ones shows what    *)
(* was set, and with several each shows a difference.                      *)
(***************************************************************************)
GaugeAddsUp == MapThenSumSet(LAMBDA a : series[a], Attributes) = value

-----------------------------------------------------------------------------
(* HealthScore *)

VARIABLES
    healthyNow,     \* items that are well
    passed,         \* item.passed
    scoreRun,       \* per run: the item it is at, 0 when it is not under way
    verdict,        \* per run: what the checker it awaits has answered
    overlapped,     \* history: a run began while another one was under way
    known           \* history: items whose verdict is younger than the last run

scoreVars == <<healthyNow, passed, scoreRun, verdict, overlapped, known>>

ItemSet == ToSet(Items)

ScoreInit ==
    /\ healthyNow = ItemSet /\ passed = ItemSet
    /\ scoreRun = [u \in ScoreRuns |-> 0] /\ verdict = [u \in ScoreRuns |-> "none"]
    /\ overlapped = FALSE /\ known = ItemSet

BeginRun(u) ==
    /\ scoreRun[u] = 0
    /\ scoreRun' = [scoreRun EXCEPT ![u] = 1]
    /\ overlapped' = \E o \in ScoreRuns : scoreRun[o] # 0
    /\ known' = {}
    /\ UNCHANGED <<healthyNow, passed, verdict>>

\* A checker that rejects has not passed.
CheckerAnswers(u) ==
    /\ scoreRun[u] # 0 /\ verdict[u] = "none"
    /\ verdict' = [verdict EXCEPT ![u] = IF Items[scoreRun[u]] \in healthyNow THEN "yes" ELSE "no"]
    /\ UNCHANGED <<healthyNow, passed, scoreRun, overlapped, known>>

Judge(u, goesOn) ==
    /\ scoreRun[u] # 0 /\ verdict[u] # "none"
    /\ LET i == Items[scoreRun[u]] IN
         /\ passed' = IF verdict[u] = "yes" THEN passed \cup {i} ELSE passed \ {i}
         /\ known' = known \cup {i}
    /\ scoreRun' = [scoreRun EXCEPT ![u] = IF @ = Len(Items) \/ ~goesOn THEN 0 ELSE @ + 1]
    /\ verdict' = [verdict EXCEPT ![u] = "none"]
    /\ UNCHANGED <<healthyNow, overlapped>>

CheckItemAborts(u) == Judge(u, verdict[u] = "yes")
\* The next item is checked whatever this one's answer was.
CheckItem(u) == Judge(u, TRUE)

ItemChanges(i) ==
    /\ healthyNow' = IF i \in healthyNow THEN healthyNow \ {i} ELSE healthyNow \cup {i}
    /\ UNCHANGED <<passed, scoreRun, verdict, overlapped, known>>

ScoreNext ==
    \/ \E u \in ScoreRuns : BeginRun(u) \/ CheckerAnswers(u) \/ CheckItem(u)
    \/ \E i \in ItemSet : ItemChanges(i)

\* calculate, for items of equal weight: the percentage, rounded.
CalculateScore ==
    LET all == Cardinality(ItemSet) IN (200 * Cardinality(passed) + all) \div (2 * all)

(***************************************************************************)
(* Once a run has ended, the score rests on verdicts that are younger than *)
(* the run, for every item and whatever the others answered; only a run    *)
(* that overlaps an older one may end with a verdict from before it.  So a *)
(* full score means that every item was well at some moment of that run.   *)
(***************************************************************************)
ScoreIsFresh ==
    (\A u \in ScoreRuns : scoreRun[u] = 0) /\ ~overlapped =>
        /\ known = ItemSet
        /\ CalculateScore = 100 <=> passed = ItemSet

-----------------------------------------------------------------------------
(* AuditLogger *)

VARIABLES
    storage,        \* "repository" or "memory"
    logging,        \* the events whose log() waits for the database
    logged,         \* events whose log() was called
    held,           \* the events of DatabaseAuditStorage, with their age in days
    table,          \* events in the audit table
    cleaned         \* history: events a cleanup removed
auditVars == <<storage, logging, logged, held, table, cleaned>>

AuditInit ==
    /\ storage \in {"repository", "memory"}
    /\ logging = {} /\ logged = 0 /\ held = [e \in {} |-> 0] /\ table = {} /\ cleaned = {}

Holding(events, age) == [e \in DOMAIN held \cup events |-> IF e \in events THEN age ELSE held[e]]

\* log, and the push of store
LogEvent ==
    /\ logged < MaxEvents
    /\ logged' = logged + 1 /\ logging' = logging \cup {logged + 1}
    /\ held' = IF storage = "memory" THEN Holding({logged + 1}, 0) ELSE held
    /\ UNCHANGED <<storage, table, cleaned>>

\* create; its error is caught by the storage or by log.
StoreEvent(e) ==
    /\ logging' = logging \ {e}
    /\ table' \in {table, table \cup {e}}
    /\ UNCHANGED <<storage, logged, held, cleaned>>

\* cleanup counts the days of the events in memory.
Cleanup ==
    /\ LET old == {e \in DOMAIN held : held[e] > KeepDays} IN
         /\ old # {}
         /\ held' = [e \in DOMAIN held \ old |-> held[e]]
         /\ cleaned' = cleaned \cup old
    /\ UNCHANGED <<storage, logging, logged, table>>

DayPasses ==
    /\ DOMAIN held # {} /\ held' = [e \in DOMAIN held |-> Min({held[e] + 1, KeepDays + 1})]
    /\ UNCHANGED <<storage, logging, logged, table, cleaned>>

AuditNext == LogEvent \/ (\E e \in logging : StoreEvent(e)) \/ Cleanup \/ DayPasses

\* query, which reads the memory; AuditRepository.getLogs reads the table.
AuditTrail == IF storage = "memory" THEN DOMAIN held ELSE table

(***************************************************************************)
(* The trail never shows an event that was not logged.  In memory it shows *)
(* every event until a cleanup removes it, although the writes to the      *)
(* database fail; in the table it may miss any of them silently.           *)
(***************************************************************************)
TrailIsComplete ==
    /\ AuditTrail \subseteq 1..logged
    /\ storage = "memory" => AuditTrail \cup cleaned = 1..logged

-----------------------------------------------------------------------------
(* TraceContext from service to service *)

VARIABLES
    root,           \* the context the first service made
    trace,          \* the context in hand
    hops,
    viaContext      \* history: a service read the active OpenTelemetry context

traceVars == <<root, trace, hops, viaContext>>

TraceInit ==
    /\ root \in [id : {"none", "t1"}, sampled : BOOLEAN] /\ trace = root
    /\ hops = 0 /\ viaContext = FALSE

\* traceparent is written only if there is an id; without the header there
\* is no context, and a context made without flags is sampled.
Carried(c) == IF c.id = "none" THEN [c EXCEPT !.sampled = TRUE] ELSE c

Hop(next) == hops < MaxHops /\ hops' = hops + 1 /\ trace' = next /\ UNCHANGED root

\* TracePropagator.inject and extract
PropagateTrace == Hop(Carried(trace)) /\ UNCHANGED viaContext

\* TraceContext.fromContext takes flags 0 for missing ones; toHeaders.
FromContext == Hop(Carried([trace EXCEPT !.sampled = TRUE])) /\ viaContext' = TRUE

TraceNext == PropagateTrace \/ FromContext

(***************************************************************************)
(* After any number of services a trace has the id it began with, and a    *)
(* trace that began unsampled is still so unless one of them read it from  *)
(* the active context.                                                     *)
(***************************************************************************)
TraceSurvives ==
    /\ trace.id = root.id
    /\ trace.sampled = root.sampled \/ viaContext \/ root.id = "none"

-----------------------------------------------------------------------------
(* CorrelationContext: the LogContext of every asynchronous task *)

VARIABLES
    contexts,       \* per task: its nested stores, innermost first
    own             \* history, per task: the ids given for each of them

contextVars == <<contexts, own>>

\* Objects with these keys; a key that is left out is empty.
Keys == {"request", "correlation", "user"}
NoKeys == [k \in Keys |-> ""]

\* The spread of one object after another one's.
Over(extra, base) == [k \in Keys |-> IF extra[k] # "" THEN extra[k] ELSE base[k]]

EmptyContext == [ids |-> NoKeys, custom |-> NoKeys]
NewContext(q, c) ==
    [EmptyContext EXCEPT !.ids = [NoKeys EXCEPT !["request"] = q,
                                                !["correlation"] = IF c = "" THEN q ELSE c]]

ContextInit ==
    /\ contexts = [t \in Tasks |-> <<EmptyContext>>]
    /\ own = [t \in Tasks |-> <<<<"", "">>>>]

\* LogContext.with does not hand on the correlation id, so the request id
\* takes its place.
WithContext(s, extra) == [NewContext(s.ids["request"], "") EXCEPT !.custom = Over(extra, s.custom)]

\* toJSON: what was merged comes last.
ToJSON(s) == Over(s.custom, s.ids)
Shown(s, k) == ToJSON(s)[k]

Enter(t, store, ids) ==
    /\ contexts' = [contexts EXCEPT ![t] = <<store>> \o Tail(@)]
    /\ own' = [own EXCEPT ![t] = <<ids>> \o Tail(@)]

SetContext(t, q, c) == Enter(t, WithContext(Head(contexts[t]), ToJSON(NewContext(q, c))), <<q, c>>)
MergeContext(t) == Enter(t, WithContext(Head(contexts[t]), [NoKeys EXCEPT !["user"] = "u1"]), Head(own[t]))
ClearContext(t) == Enter(t, EmptyContext, <<"", "">>)

\* run: the store is fn's alone, and what was there before comes back.
RunContext(t, q, c) ==
    /\ Len(contexts[t]) <= MaxNesting
    /\ contexts' = [contexts EXCEPT ![t] = <<NewContext(q, c)>> \o @]
    /\ own' = [own EXCEPT ![t] = <<<<q, c>>>> \o @]
EndRun(t) ==
    /\ Len(contexts[t]) > 1
    /\ contexts' = [contexts EXCEPT ![t] = Tail(@)] /\ own' = [own EXCEPT ![t] = Tail(@)]

\* A task started by another one begins with its store.
Fork(t, u) ==
    /\ t # u /\ Len(contexts[u]) = 1
    /\ contexts' = [contexts EXCEPT ![u] = <<Head(contexts[t])>>]
    /\ own' = [own EXCEPT ![u] = <<Head(own[t])>>]

ContextNext ==
    \E t \in Tasks :
        \/ \E q \in {"q1", "q2"}, c \in {"", "c1"} : RunContext(t, q, c)
        \/ SetContext(t, "q2", "c2")
        \/ MergeContext(t) \/ ClearContext(t) \/ EndRun(t)
        \/ \E u \in Tasks : Fork(t, u)

(***************************************************************************)
(* A log line is found by its request: whatever other tasks set, fork and  *)
(* end, a task's context shows the request id it was given last, and its   *)
(* correlation id or else the request id.                                  *)
(***************************************************************************)
LinesFindTheirRequest ==
    \A t \in Tasks :
        LET s == Head(contexts[t]) ids == Head(own[t]) IN
        /\ Shown(s, "request") = ids[1]
        /\ Shown(s, "correlation") \in {ids[1], ids[2]}

(***************************************************************************)
(* What metrics, health score, audit trail, traces and log lines tell is   *)
(* what happened.                                                          *)
(***************************************************************************)
TelemetryIsTrue ==
    /\ StatusAgrees
    /\ PercentileIsOne
    /\ GaugeAddsUp
    /\ ScoreIsFresh
    /\ TrailIsComplete
    /\ TraceSurvives
    /\ LinesFindTheirRequest
=============================================================================
