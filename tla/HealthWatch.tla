---------------------------- MODULE HealthWatch ----------------------------
(***************************************************************************)
(* HealthDaemon on BaseDaemon's interval timer: a cycle awaits the three   *)
(* dependency checks, rates them, awaits the publication of an alert if    *)
(* the severity differs from previousSeverity, and only then remembers the *)
(* new one.  The timer starts a cycle whether or not the last has ended.   *)
(***************************************************************************)
EXTENDS Naturals, FiniteSets

CONSTANTS
    Cycles      \* cycles that can be under way at a time

VARIABLES
    wiring,     \* what the daemon was constructed with
    up,         \* the dependencies that answer
    running,    \* the daemon's timer is set
    cycle,      \* per cycle: what it does
    previous,   \* previousSeverity
    lastAlert,  \* the last severity alerted, which is always logged
    heard,      \* the severity published last, or "nothing" if it was rejected
    repeated,   \* history: before any overlap, an alert that told nothing new
    overlapped  \* history: two cycles were under way together

healthVars == <<wiring, up, running, cycle, previous, lastAlert, heard, repeated, overlapped>>

Dependencies == {"database", "redis", "queue"}

\* "setup": daemon-setup.ts, without an AlertPublisher.  "container":
\* DaemonInitializer, without repositories and event publisher.  "module":
\* initializeDaemonModule with all it can take, as its tests call it.
Wirings == {"setup", "container", "module"}

\* A dependency without one of the methods a check looks for is healthy:
\* there is no connection pool, and QueueManager has none of them.
NotAsked == IF wiring = "container" THEN {"database", "queue"} ELSE {}

\* Prisma's $queryRaw is a tag and rejects the plain string it is called with.
Refused == IF wiring = "setup" THEN {"database"} ELSE {}

\* The dependencies whose check answers healthy.
Seen == (up \cup NotAsked) \ Refused

NoCycle == [at |-> "idle"]

\* calculateScore: checkAll has turned the checks into words, so the
\* deductions for latency never apply.
Weight == [database |-> 35, redis |-> 35, queue |-> 30]
Score(healthy) ==
    Weight["database"] * Cardinality(healthy \cap {"database"})
    + Weight["redis"] * Cardinality(healthy \cap {"redis"})
    + Weight["queue"] * Cardinality(healthy \cap {"queue"})

\* determineSeverity
Severity(healthy) ==
    LET failed == Cardinality(Dependencies \ healthy) IN
    CASE failed >= 2 -> "unhealthy"
      [] failed = 1 -> "degraded"
      [] Score(healthy) >= 90 -> "healthy"
      [] OTHER -> "degraded"

HealthInit ==
    /\ wiring \in Wirings /\ up = Dependencies /\ running = FALSE
    /\ cycle = [c \in Cycles |-> NoCycle]
    /\ previous = "healthy"
    /\ lastAlert = "healthy" /\ heard = "healthy"
    /\ repeated = FALSE /\ overlapped = FALSE

InFlight(c) == cycle[c] # NoCycle
Goes(c, to) == cycle' = [cycle EXCEPT ![c] = to]

\* runCycle.  A cycle's name is free again once it has ended.
Begin(c) ==
    /\ ~InFlight(c) /\ c = CHOOSE d \in Cycles : ~InFlight(d)
    /\ Goes(c, [at |-> "checking", asked |-> {}, healthy |-> {}])
    /\ overlapped' = (overlapped \/ \E d \in Cycles : InFlight(d))

Start(c) ==
    /\ ~running /\ running' = TRUE
    /\ Begin(c)
    /\ UNCHANGED <<wiring, up, previous, lastAlert, heard, repeated>>

Interval(c) ==
    /\ running
    /\ Begin(c)
    /\ UNCHANGED <<wiring, up, running, previous, lastAlert, heard, repeated>>

\* The cycles under way go on.
Stop ==
    /\ running /\ running' = FALSE
    /\ UNCHANGED <<wiring, up, cycle, previous, lastAlert, heard, repeated, overlapped>>

\* The new severity is logged.  publishAlert and publishRecovery are awaited
\* before it is remembered; without an AlertPublisher it is so at once.
Alert(c, severity) ==
    /\ lastAlert' = severity
    /\ repeated' = (repeated \/ (~overlapped /\ severity = lastAlert))
    /\ IF wiring = "setup" THEN Goes(c, NoCycle) /\ previous' = severity
       ELSE Goes(c, [at |-> "publishing", severity |-> severity]) /\ UNCHANGED previous

AnalyzeOutages(c, severity) ==
    IF severity # previous /\ "healthy" \in {severity, previous} THEN Alert(c, severity)
    ELSE Goes(c, NoCycle) /\ UNCHANGED <<lastAlert, previous, repeated>>

\* execute after the checks.
Analyze(c, severity) ==
    IF severity # previous THEN Alert(c, severity)
    ELSE Goes(c, NoCycle) /\ UNCHANGED <<lastAlert, previous, repeated>>

\* checkDatabase, checkRedis and checkQueue run together; a rejection is
\* an unhealthy answer.  The last answer resolves checkAll.
Check(c, d) ==
    /\ cycle[c].at = "checking" /\ d \notin cycle[c].asked
    /\ LET asked == cycle[c].asked \cup {d}
           healthy == cycle[c].healthy \cup ({d} \cap Seen)
       IN  IF asked = Dependencies THEN Analyze(c, Severity(healthy))
           ELSE /\ Goes(c, [cycle[c] EXCEPT !.asked = asked, !.healthy = healthy])
                /\ UNCHANGED <<lastAlert, previous, repeated>>
    /\ UNCHANGED <<wiring, up, running, heard, overlapped>>

\* The event publisher, if there is one, has taken the alert or rejected,
\* which is only logged.
Remember(c) ==
    /\ cycle[c].at = "publishing"
    /\ IF wiring = "module" THEN heard' \in {cycle[c].severity, "nothing"} ELSE UNCHANGED heard
    /\ previous' = cycle[c].severity
    /\ Goes(c, NoCycle)
    /\ UNCHANGED <<wiring, up, running, lastAlert, repeated, overlapped>>

DependencyChanges(d) ==
    /\ up' = IF d \in up THEN up \ {d} ELSE up \cup {d}
    /\ UNCHANGED <<wiring, running, cycle, previous, lastAlert, heard, repeated, overlapped>>

CycleStep(c) == Remember(c) \/ \E d \in Dependencies : Check(c, d)

HealthNext ==
    \/ \E c \in Cycles : Start(c) \/ Interval(c) \/ CycleStep(c)
    \/ Stop \/ \E d \in Dependencies : DependencyChanges(d)

-----------------------------------------------------------------------------
(* Properties *)

Alone == ~overlapped /\ \A c \in Cycles : ~InFlight(c)

(***************************************************************************)
(* As long as no cycle outlasts the interval, what was alerted last is     *)
(* what the daemon believes, no alert repeats the one before, and the      *)
(* event publisher has the last one unless it rejected it: a rejected      *)
(* publication is not made again.  Overlapping cycles alert twice, and the *)
(* slower publication leaves an older severity behind.                     *)
(***************************************************************************)
AlertsKeepUp ==
    ~overlapped =>
        /\ ~repeated
        /\ Alone => lastAlert = previous /\ (wiring = "module" => heard \in {previous, "nothing"})

(***************************************************************************)
(* What the checks of the wiring see for long enough is alerted, outages   *)
(* and their ends, if cycles end before the interval.  Only where every    *)
(* dependency is asked is this what is really up: an outage of one that is *)
(* not asked is never alerted, and one that refuses its question is down   *)
(* for ever.                                                               *)
(***************************************************************************)
OutagesAreReported ==
    \A healthy \in SUBSET Dependencies :
        <>[](running /\ ~overlapped /\ Seen = healthy) => <>[](lastAlert = Severity(healthy))

(***************************************************************************)
(* Operators are told what the health daemon knows, and each lasting       *)
(* change it can see is alerted.                                           *)
(***************************************************************************)
OperatorsAreTold ==
    /\ [](AlertsKeepUp)
    /\ OutagesAreReported
=============================================================================
