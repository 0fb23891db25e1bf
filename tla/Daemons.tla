------------------------------ MODULE Daemons ------------------------------
(***************************************************************************)
(* The daemons of a process around their work: how they are registered,    *)
(* elected and started (daemon.module.ts, daemon-coordinator.ts), how the  *)
(* coordinator of the other wiring starts and stops them, the cycle of the *)
(* recovery daemon with its dead letter alarm, and the collection of the   *)
(* delivery metrics.  Four parts that share no state.                      *)
(***************************************************************************)
EXTENDS Integers, Sequences, FiniteSets, FiniteSetsExt

CONSTANTS
    Hosts,          \* processes that initialise the daemon module
    Stoppers,       \* calls of the coordinator's stop
    Threshold,      \* dlqThreshold
    MaxDead,        \* bound on the dead letters
    MaxCycles,      \* bound on the cycles that overlap
    MaxMisses,      \* bound on the failing queries
    Counted,        \* deliveries the collector counts
    MaxMoves        \* bound on the moves of deliveries while it counts

ASSUME DaemonsAssumption ==
    /\ Hosts # {} /\ "none" \notin Hosts
    /\ {Threshold, MaxDead, MaxCycles} \subseteq Nat \ {0}
    /\ {MaxMisses, MaxMoves} \subseteq Nat
    /\ IsFiniteSet(Counted)

-----------------------------------------------------------------------------
(* initializeDaemonModule on several hosts.  DaemonInitializer hands the   *)
(* election a RedisOperations, whose set knows no NX and no PX and returns *)
(* nothing: participate goes on to its GET every time.                     *)

VARIABLES
    leadKey,    \* the leader key
    boot,       \* per host: how far the module or its shutdown is
    asks,       \* per host: the participate under way
    leads,      \* per host: isLeaderFlag, and with it the refresh timer
    kept,       \* per host: the daemons in the coordinator's map
    working,    \* per host: the daemons that run
    erred       \* history, per host: a command of its participate failed

bootVars == <<leadKey, boot, asks, leads, kept, working, erred>>

\* The order in which the module registers and starts its daemons.
DaemonTypes == <<"HEALTH", "METRICS", "RECOVERY">>
IsDaemonSingleton(type) == type = "RECOVERY"

BootInit ==
    /\ leadKey = "none"
    /\ boot = [h \in Hosts |-> [phase |-> "register", at |-> 1]]
    /\ asks = [h \in Hosts |-> "none"]
    /\ leads = [h \in Hosts |-> FALSE]
    /\ kept = [h \in Hosts |-> {}]
    /\ working = [h \in Hosts |-> {}]
    /\ erred = [h \in Hosts |-> FALSE]

In(h, phase) == boot[h].phase = phase
Treated(h) == DaemonTypes[boot[h].at]

\* The next daemon of the phase, or the first of the next phase.
PhaseAfter == [register |-> "start", elect |-> "start", start |-> "up", stop |-> "resign"]
Advance(h) ==
    boot' = IF boot[h].at < Len(DaemonTypes) THEN [boot EXCEPT ![h].at = @ + 1]
            ELSE [boot EXCEPT ![h] = [phase |-> PhaseAfter[@.phase], at |-> 1]]
EnterPhase(h, phase) == boot' = [boot EXCEPT ![h].phase = phase]

\* The election is not awaited.
RegisterUnawaited(h) ==
    /\ In(h, "register")
    /\ kept' = [kept EXCEPT ![h] = @ \cup {Treated(h)}]
    /\ asks' = [asks EXCEPT ![h] = IF IsDaemonSingleton(Treated(h)) THEN "SET" ELSE @]
    /\ Advance(h)
    /\ UNCHANGED <<leadKey, leads, working, erred>>

\* registerDaemon: a singleton waits for participate.
RegisterDaemon(h) ==
    /\ In(h, "register")
    /\ kept' = [kept EXCEPT ![h] = @ \cup {Treated(h)}]
    /\ IF IsDaemonSingleton(Treated(h))
       THEN asks' = [asks EXCEPT ![h] = "SET"] /\ EnterPhase(h, "elect")
       ELSE Advance(h) /\ UNCHANGED asks
    /\ UNCHANGED <<leadKey, leads, working, erred>>

AskSet(h) ==
    /\ asks[h] = "SET"
    /\ leadKey' = h
    /\ asks' = [asks EXCEPT ![h] = "GET"]
    /\ UNCHANGED <<boot, leads, kept, working, erred>>

\* The reply of participate's GET: the key holds the own id or it does not.
AskGet(h) ==
    /\ asks[h] = "GET"
    /\ leads' = [leads EXCEPT ![h] = leadKey = h]
    /\ asks' = [asks EXCEPT ![h] = "none"]
    /\ IF In(h, "elect") THEN Advance(h) ELSE UNCHANGED boot
    /\ UNCHANGED <<leadKey, kept, working, erred>>

\* participate's catch: the host does not lead and its refresh timer stops, so
\* that it never asks again; a SET that failed may have taken effect.
AskFails(h) ==
    /\ asks[h] # "none"
    /\ leadKey' = leadKey \/ (asks[h] = "SET" /\ leadKey' = h)
    /\ leads' = [leads EXCEPT ![h] = FALSE]
    /\ asks' = [asks EXCEPT ![h] = "none"]
    /\ erred' = [erred EXCEPT ![h] = TRUE]
    /\ IF In(h, "elect") THEN Advance(h) ELSE UNCHANGED boot
    /\ UNCHANGED <<kept, working>>

\* The refresh timer of the election.
AskAgain(h) ==
    /\ leads[h] /\ asks[h] = "none" /\ boot[h].phase \notin {"resign", "delete"}
    /\ asks' = [asks EXCEPT ![h] = "SET"]
    /\ UNCHANGED <<leadKey, boot, leads, kept, working, erred>>

GetRole(h, type) == IF ~IsDaemonSingleton(type) \/ leads[h] THEN "PRIMARY" ELSE "SECONDARY"

\* Health and metrics run on every node, recovery where the role is PRIMARY.
StartDaemon(h) ==
    /\ In(h, "start")
    /\ working' = [working EXCEPT ![h] =
           IF GetRole(h, Treated(h)) = "PRIMARY" THEN @ \cup {Treated(h)} ELSE @]
    /\ Advance(h)
    /\ UNCHANGED <<leadKey, asks, leads, kept, erred>>

ShutdownBegins(h) ==
    /\ In(h, "up")
    /\ EnterPhase(h, "stop")
    /\ UNCHANGED <<leadKey, asks, leads, kept, working, erred>>

\* deregisterDaemon: stop, delete, and for a leading singleton resign.
DeregisterDaemon(h) ==
    /\ In(h, "stop")
    /\ working' = [working EXCEPT ![h] = @ \ {Treated(h)}]
    /\ kept' = [kept EXCEPT ![h] = @ \ {Treated(h)}]
    /\ IF IsDaemonSingleton(Treated(h)) /\ ~leads[h] THEN EnterPhase(h, "down") ELSE Advance(h)
    /\ UNCHANGED <<leadKey, asks, leads, erred>>

\* resign deletes the key if it still holds the own id when it is read.
ResignGet(h) ==
    /\ In(h, "resign")
    /\ IF leadKey = h
       THEN EnterPhase(h, "delete") /\ UNCHANGED leads
       ELSE EnterPhase(h, "down") /\ leads' = [leads EXCEPT ![h] = FALSE]
    /\ UNCHANGED <<leadKey, asks, kept, working, erred>>

ResignDelete(h) ==
    /\ In(h, "delete")
    /\ leadKey' = "none"
    /\ leads' = [leads EXCEPT ![h] = FALSE]
    /\ EnterPhase(h, "down")
    /\ UNCHANGED <<asks, kept, working, erred>>

\* resign ends in its catch; a delete that failed may have taken effect.
ResignFails(h) ==
    /\ In(h, "resign") \/ In(h, "delete")
    /\ leadKey' = leadKey \/ (In(h, "delete") /\ leadKey' = "none")
    /\ leads' = [leads EXCEPT ![h] = FALSE]
    /\ EnterPhase(h, "down")
    /\ UNCHANGED <<asks, kept, working, erred>>

BootNext ==
    \E h \in Hosts :
        \/ RegisterDaemon(h) \/ StartDaemon(h) \/ DeregisterDaemon(h)
        \/ AskSet(h) \/ AskGet(h) \/ AskFails(h) \/ AskAgain(h)
        \/ ShutdownBegins(h) \/ ResignGet(h) \/ ResignDelete(h) \/ ResignFails(h)

(***************************************************************************)
(* When every host is up, at least one of them runs the recovery daemon,   *)
(* however their elections interleaved (registerDaemon awaits participate  *)
(* before getRole is asked).  The exception is a Redis command that failed *)
(* on the host that wrote the key last, or on all of them if nobody did:   *)
(* participate's catch has nobody recover then, and nobody tries again.    *)
(***************************************************************************)
SomebodyRecovers ==
    (\A h \in Hosts : In(h, "up")) =>
        \/ \E h \in Hosts : "RECOVERY" \in working[h] \/ (erred[h] /\ leadKey = h)
        \/ \A h \in Hosts : erred[h]

(***************************************************************************)
(* A daemon that runs is one the coordinator knows, so that its shutdown   *)
(* reaches it; a host that is down runs none (deregisterDaemon).           *)
(***************************************************************************)
NoDaemonIsForgotten ==
    \A h \in Hosts : working[h] \subseteq kept[h] /\ (In(h, "down") => working[h] = {})

(***************************************************************************)
(* leader-election.ts says of itself that it is an election "using atomic  *)
(* SET NX PX leases": at most one host that is up may take itself for the  *)
(* leader.                                                                 *)
(***************************************************************************)
OneHostLeads ==
    \A g, h \in Hosts : In(g, "up") /\ In(h, "up") /\ leads[g] /\ leads[h] => g = h

-----------------------------------------------------------------------------
(* The coordinator of setupDaemon: start is awaited before the container   *)
(* knows the coordinator; two signals may then call stop at once.          *)

VARIABLES
    coordOn,    \* running
    subs,       \* what runs of the three daemons and recovery's processors
    starting,   \* how far start is; 0 before the call
    stopping    \* per call of stop: how far it is

coordVars == <<coordOn, subs, starting, stopping>>

\* The order of start and stop; RecoveryDaemon goes on to its processors.
SubOrder == <<"health", "metrics", "recovery", "delayed", "sync">>
SubsDone == Len(SubOrder) + 1
StopReturned == SubsDone + 1

CoordInit ==
    /\ coordOn = FALSE /\ subs = {} /\ starting = 0
    /\ stopping = [c \in Stoppers |-> 0]

StartCalled ==
    /\ starting = 0
    /\ coordOn' = TRUE /\ starting' = 1
    /\ UNCHANGED <<subs, stopping>>

StartsOne ==
    /\ starting \in 1..Len(SubOrder)
    /\ subs' = subs \cup {SubOrder[starting]}
    /\ starting' = starting + 1
    /\ UNCHANGED <<coordOn, stopping>>

StopCalled(c) ==
    /\ starting = SubsDone /\ stopping[c] = 0
    /\ stopping' = [stopping EXCEPT ![c] = IF coordOn THEN 1 ELSE StopReturned]
    /\ UNCHANGED <<coordOn, subs, starting>>

StopsOne(c) ==
    /\ stopping[c] \in 1..Len(SubOrder)
    /\ subs' = subs \ {SubOrder[stopping[c]]}
    /\ stopping' = [stopping EXCEPT ![c] = @ + 1]
    /\ UNCHANGED <<coordOn, starting>>

\* shutdown finds no registered daemon in this wiring.
StopReturns(c) ==
    /\ stopping[c] = SubsDone
    /\ stopping' = [stopping EXCEPT ![c] = StopReturned]
    /\ coordOn' = FALSE
    /\ UNCHANGED <<subs, starting>>

CoordNext ==
    \/ StartCalled \/ StartsOne
    \/ \E c \in Stoppers : StopCalled(c) \/ StopsOne(c) \/ StopReturns(c)

(***************************************************************************)
(* Whoever has returned from the coordinator's stop finds every daemon     *)
(* stopped, also when another call was under way: the container closes     *)
(* Redis and the database next.                                            *)
(***************************************************************************)
ReturnedStopsAreDone == \A c \in Stoppers : stopping[c] = StopReturned => subs = {}

-----------------------------------------------------------------------------
(* RecoveryDaemon.execute up to its dead letter alarm, for the three ways  *)
(* the daemon is built: by the module with repositories, by               *)
(* DaemonInitializer without any ("bare"), and by setupDaemon, which hands *)
(* it the logger as its reconstructor ("container").                       *)

VARIABLES
    built,      \* how the daemon was built
    dead,       \* rows in FAILED_DLQ
    cyc,        \* per overlapping cycle: its phase and the length of the list it read
    peak,       \* per cycle: the most dead letters while it looked
    told,       \* the count of the last alert
    toldPeak,   \* the peak of the cycle that sent it
    alarm,      \* has an alert followed the last dead letter?
    misses      \* failing queries so far

cycleVars == <<built, dead, cyc, peak, told, toldPeak, alarm, misses>>

RecoveryCycles == 1..MaxCycles
RestingCycle == [phase |-> "idle", listed |-> 0]

CycleInit ==
    /\ built \in {"module", "bare", "container"}
    /\ dead = 0 /\ told = 0 /\ toldPeak = 0 /\ alarm = FALSE /\ misses = 0
    /\ cyc = [c \in RecoveryCycles |-> RestingCycle]
    /\ peak = [c \in RecoveryCycles |-> 0]

Phase(c, p) == cyc' = [cyc EXCEPT ![c].phase = p]

DeadLetter ==
    /\ dead < MaxDead
    /\ dead' = dead + 1 /\ alarm' = FALSE
    /\ peak' = [c \in RecoveryCycles |-> Max({peak[c], dead + 1})]
    /\ UNCHANGED <<built, cyc, told, toldPeak, misses>>

LetterLeaves ==
    /\ dead > 0
    /\ dead' = dead - 1
    /\ UNCHANGED <<built, cyc, peak, told, toldPeak, alarm, misses>>

CycleBegins(c) ==
    /\ cyc[c].phase = "idle"
    /\ Phase(c, "detect")
    /\ UNCHANGED <<built, dead, peak, told, toldPeak, alarm, misses>>

\* detectStale and the loop over what it finds; errors end in an empty list.
DetectStale(c) ==
    /\ cyc[c].phase = "detect"
    /\ Phase(c, "reconstruct")
    /\ UNCHANGED <<built, dead, peak, told, toldPeak, alarm, misses>>

\* reconstruct swallows its errors; a logger has no such method.
Reconstruct(c) ==
    /\ cyc[c].phase = "reconstruct"
    /\ Phase(c, IF built = "container" THEN "idle" ELSE "list")
    /\ UNCHANGED <<built, dead, peak, told, toldPeak, alarm, misses>>

\* findByStatus reads the rows, then counts them.
ListDead(c) ==
    /\ cyc[c].phase = "list"
    /\ cyc' = [cyc EXCEPT ![c] = IF built = "bare" THEN RestingCycle
                                 ELSE [phase |-> "count", listed |-> dead]]
    /\ peak' = [peak EXCEPT ![c] = dead]
    /\ UNCHANGED <<built, dead, told, toldPeak, alarm, misses>>

\* total, or the length of the list when the total is 0.
CountOf(listed, total) == IF total # 0 THEN total ELSE listed

Breached(count) == count >= Threshold

\* monitorDLQ with publishAlerts.
MonitorDLQ(c) ==
    /\ cyc[c].phase = "count"
    /\ LET count == CountOf(cyc[c].listed, dead) IN
       IF Breached(count)
       THEN told' = count /\ toldPeak' = peak[c] /\ alarm' = TRUE
       ELSE UNCHANGED <<told, toldPeak, alarm>>
    /\ cyc' = [cyc EXCEPT ![c] = RestingCycle]
    /\ UNCHANGED <<built, dead, peak, misses>>

\* A failing query reports an empty queue.
MonitorFails(c) ==
    /\ cyc[c].phase \in {"list", "count"} /\ misses < MaxMisses
    /\ misses' = misses + 1
    /\ cyc' = [cyc EXCEPT ![c] = RestingCycle]
    /\ UNCHANGED <<built, dead, peak, told, toldPeak, alarm>>

CycleGoesOn(c) == DetectStale(c) \/ Reconstruct(c) \/ ListDead(c) \/ MonitorDLQ(c)

CycleNext ==
    \/ DeadLetter \/ LetterLeaves
    \/ \E c \in RecoveryCycles : CycleBegins(c) \/ CycleGoesOn(c) \/ MonitorFails(c)

(***************************************************************************)
(* An alert never names more dead letters than there were while its cycle  *)
(* looked, although the list and its total are read apart (monitorDLQ).    *)
(* The daemons the two entry points build never raise one: they have no    *)
(* repository, or a logger for a reconstructor.                            *)
(***************************************************************************)
AlertsTellTheTruth ==
    told <= toldPeak /\ (told # 0 => told >= Threshold /\ built = "module")

(***************************************************************************)
(* A daemon that initializeDaemonModule builds with repositories, as its   *)
(* integration tests do and no entry point does, raises the alarm after    *)
(* the last dead letter that fills the queue to its threshold, unless      *)
(* letters leave it again, whatever failed before in its cycles.           *)
(***************************************************************************)
DlqGrowthIsAlerted ==
    (built = "module" /\ dead >= Threshold) ~> (alarm \/ dead < Threshold)

-----------------------------------------------------------------------------
(* MetricsCollector.execute: the aggregator runs its collectors, of which  *)
(* the delivery collector asks for one status after the other.  The        *)
(* countByStatus of DeliveryRepository answers with a record of all the    *)
(* statuses, which no gauge takes: there the collection ends in its catch. *)

VARIABLES
    replies,    \* what countByStatus answers with
    at,         \* the status to be counted next; 0 outside a collection
    rowIn,      \* per delivery: its status
    gaugeOf,    \* deliveryCountByStatusGauge
    moved,      \* changes of a status while the collection ran
    ended       \* did the last collection reach its end?

collectVars == <<replies, at, rowIn, gaugeOf, moved, ended>>

CollectedStatuses == <<"PENDING", "PROCESSING", "COMPLETED", "SCHEDULED_RETRY", "FAILED_DLQ">>
MoveTo ==
    [PENDING |-> {"PROCESSING"},
     PROCESSING |-> {"COMPLETED", "SCHEDULED_RETRY", "FAILED_DLQ"},
     SCHEDULED_RETRY |-> {"PENDING"}, COMPLETED |-> {}, FAILED_DLQ |-> {}]

\* What the gauge expects, and what countByStatus answers with.
Answers == {"number", "record"}

CollectInit ==
    /\ replies \in Answers
    /\ at = 0 /\ moved = 0 /\ ended = FALSE
    /\ rowIn = [d \in Counted |-> "PENDING"]
    /\ gaugeOf = [i \in DOMAIN CollectedStatuses |-> 0]

StatusMoves(d) ==
    /\ moved < MaxMoves
    /\ \E to \in MoveTo[rowIn[d]] : rowIn' = [rowIn EXCEPT ![d] = to]
    /\ moved' = IF at = 0 THEN moved ELSE moved + 1
    /\ UNCHANGED <<replies, at, gaugeOf, ended>>

Aggregate ==
    /\ at = 0
    /\ at' = 1 /\ moved' = 0 /\ ended' = FALSE
    /\ UNCHANGED <<replies, rowIn, gaugeOf>>

CountByStatus(i) == Cardinality({d \in Counted : rowIn[d] = CollectedStatuses[i]})

CountStatus ==
    /\ at # 0
    /\ IF replies = "record"
       THEN at' = 0 /\ UNCHANGED <<gaugeOf, ended>>
       ELSE /\ gaugeOf' = [gaugeOf EXCEPT ![at] = CountByStatus(at)]
            /\ at' = (at + 1) % (Len(CollectedStatuses) + 1)
            /\ ended' = (at = Len(CollectedStatuses))
    /\ UNCHANGED <<replies, rowIn, moved>>

CollectNext == Aggregate \/ CountStatus \/ \E d \in Counted : StatusMoves(d)

(***************************************************************************)
(* After a collection the gauges of the five statuses add up to the number *)
(* of deliveries, up to one for each status that changed while it ran: the *)
(* five counts are five queries (DeliveryMetricsCollector.collect).  With  *)
(* the record of DeliveryRepository, instead of the number the unit tests' *)
(* repositories answer with, no collection ends and no gauge ever moves.   *)
(***************************************************************************)
CountsAreNear ==
    IF replies = "record"
    THEN ~ended /\ \A i \in DOMAIN gaugeOf : gaugeOf[i] = 0
    ELSE ended => LET total == gaugeOf[1] + gaugeOf[2] + gaugeOf[3] + gaugeOf[4] + gaugeOf[5] IN
                  /\ total <= Cardinality(Counted) + moved
                  /\ total >= Cardinality(Counted) - moved

(***************************************************************************)
(* Daemons run where they should, stop when they are told to, and report   *)
(* what they find.                                                         *)
(***************************************************************************)
DaemonsAreSound ==
    /\ [](SomebodyRecovers /\ NoDaemonIsForgotten /\ ReturnedStopsAreDone /\ AlertsTellTheTruth /\ CountsAreNear)
    /\ DlqGrowthIsAlerted
=============================================================================
