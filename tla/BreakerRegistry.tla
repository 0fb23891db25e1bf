-------------------------- MODULE BreakerRegistry --------------------------
(***************************************************************************)
(* CircuitBreakerManager with a breaker per destination and the metrics of *)
(* each (circuit-breaker-manager.ts, circuit-breaker-metrics.ts).  A       *)
(* breaker is used in two ways: through execute, which counts the call,    *)
(* and as DeliveryExecutor does, with isOpen before and recordSuccess or   *)
(* recordFailure after a call that nobody counts.                          *)
(***************************************************************************)
EXTENDS BreakerState, FiniteSets

CONSTANTS
    Targets,        \* destination ids
    Users,          \* concurrent users of the breakers
    MaxNoted        \* bound on what the metrics of a breaker count

ASSUME RegistryAssumption == MaxNoted \in Nat

VARIABLES
    known,      \* destinations that have a breaker
    breakers,   \* per destination: the snapshot of its breaker
    noted,      \* per destination: its CircuitBreakerMetrics
    user,       \* per user: what it is doing
    uncounted   \* per destination: results whose call the metrics do not have

registryVars == <<known, breakers, noted, user, uncounted>>

NoNotes ==
    [calls |-> 0, successes |-> 0, failures |-> 0, rejections |-> 0,
     CLOSED |-> 0, OPEN |-> 0, HALF_OPEN |-> 0]
NotUsing == [target |-> "none", through |-> "none"]

RegistryInit ==
    /\ known = {}
    /\ breakers = [d \in Targets |-> Entered("CLOSED")]
    /\ noted = [d \in Targets |-> NoNotes]
    /\ user = [u \in Users |-> NotUsing]
    /\ uncounted = [d \in Targets |-> 0]

\* getBreaker, getOrCreateBreaker, createBreaker
GetBreaker(d) == known' = known \cup {d}

\* recordStateTransition: the counter of the state that is entered.
Transition(m, from, to) == IF from = to THEN m ELSE [m EXCEPT ![to] = @ + 1]

\* The metrics after a step of the breaker that begins with getState.
Seen(m, b, next) ==
    LET looked == CheckStateTransition(b).state IN
    Transition(Transition(m, b.state, looked), looked, next.state)

Replace(d, m, next) ==
    /\ breakers' = [breakers EXCEPT ![d] = next]
    /\ noted' = [noted EXCEPT ![d] = Seen(m, breakers[d], next)]

Room(d) ==
    LET m == noted[d] IN m.calls + m.successes + m.failures + uncounted[d] < MaxNoted

Begin(u, d, through) ==
    user' = [user EXCEPT ![u] = IF CanExecute(breakers[d]) THEN [target |-> d, through |-> through] ELSE @]

\* DeliveryExecutor: getOrCreateBreaker and isOpen.
IsOpen(u, d) ==
    /\ user[u] = NotUsing /\ Room(d)
    /\ GetBreaker(d)
    /\ Replace(d, noted[d], CheckStateTransition(breakers[d]))
    /\ Begin(u, d, "results")
    /\ UNCHANGED uncounted

\* execute up to its await.
ExecuteGuarded(u, d) ==
    /\ user[u] = NotUsing /\ Room(d)
    /\ GetBreaker(d)
    /\ LET called == [noted[d] EXCEPT !.calls = @ + 1] IN
       Replace(d, IF CanExecute(breakers[d]) THEN called ELSE [called EXCEPT !.rejections = @ + 1],
               CheckStateTransition(breakers[d]))
    /\ Begin(u, d, "execute")
    /\ UNCHANGED uncounted

\* The call settles; its result goes to the breaker of its destination.
Settles(u, ok) ==
    /\ user[u] # NotUsing
    /\ user[u].through = "again" => ~ok
    /\ LET d == user[u].target IN
       /\ IF ok THEN Replace(d, [noted[d] EXCEPT !.successes = @ + 1], RecordSuccess(breakers[d]))
          ELSE Replace(d, [noted[d] EXCEPT !.failures = @ + 1], RecordFailure(breakers[d]))
       /\ uncounted' = [uncounted EXCEPT ![d] = IF user[u].through = "execute" THEN @ ELSE @ + 1]
    /\ user' = [user EXCEPT ![u] = IF @.through = "results" THEN [@ EXCEPT !.through = "again"] ELSE NotUsing]
    /\ UNCHANGED known

\* DeliveryExecutor has written the attempt and the row.  Had a write failed,
\* its catch block would have recorded a failure on top ("again").
Written(u) ==
    /\ user[u].through = "again"
    /\ user' = [user EXCEPT ![u] = NotUsing]
    /\ UNCHANGED <<known, breakers, noted, uncounted>>

\* The metrics are kept over a reset.
ResetKeepsNotes(d) ==
    /\ d \in known
    /\ breakers' = [breakers EXCEPT ![d] = Entered("CLOSED")]
    /\ UNCHANGED <<known, noted, user, uncounted>>

\* reset and resetBreaker: the metrics start anew with the transition of the
\* reset, and calls under way are no longer among them.
ResetBreaker(d) ==
    /\ d \in known
    /\ breakers' = [breakers EXCEPT ![d] = Entered("CLOSED")]
    /\ noted' = [noted EXCEPT ![d] = Transition(NoNotes, breakers[d].state, "CLOSED")]
    /\ user' = [u \in Users |->
           IF user[u] = [target |-> d, through |-> "execute"] THEN [user[u] EXCEPT !.through = "old"] ELSE user[u]]
    /\ uncounted' = [uncounted EXCEPT ![d] = 0]
    /\ UNCHANGED known

\* getHealthStatus asks every breaker for its state.
GetHealthStatus ==
    /\ breakers' = [d \in Targets |-> CheckStateTransition(breakers[d])]
    /\ noted' = [d \in Targets |-> Seen(noted[d], breakers[d], CheckStateTransition(breakers[d]))]
    /\ UNCHANGED <<known, user, uncounted>>

TimePasses ==
    /\ breakers' = [d \in Targets |-> IF d \in known THEN Aged(breakers[d]) ELSE breakers[d]]
    /\ UNCHANGED <<known, noted, user, uncounted>>

RegistryNext ==
    \/ \E u \in Users : \/ \E d \in Targets : IsOpen(u, d) \/ ExecuteGuarded(u, d)
                        \/ \E ok \in BOOLEAN : Settles(u, ok)
                        \/ Written(u)
    \/ \E d \in Targets : ResetBreaker(d)
    \/ GetHealthStatus \/ TimePasses

RegistrySpec == RegistryInit /\ [][RegistryNext]_registryVars

(***************************************************************************)
(* The transitions a breaker has counted tell its state: every HALF_OPEN   *)
(* follows an OPEN, so it is OPEN exactly when it has counted one OPEN     *)
(* more than HALF_OPEN, and it has closed at most as often as it was half  *)
(* open, and once by the reset (recordStateTransition, reset).             *)
(***************************************************************************)
TransitionsTellState ==
    \A d \in known :
        LET m == noted[d] IN
        /\ m.OPEN = m.HALF_OPEN + (IF breakers[d].state = "OPEN" THEN 1 ELSE 0)
        /\ m.CLOSED <= m.HALF_OPEN + 1

(***************************************************************************)
(* Each call that execute has counted is under way, refused, or among the  *)
(* results, and every other result is one of a call that was not counted:  *)
(* of DeliveryExecutor, or from before a reset.                            *)
(***************************************************************************)
CallsAreAccountedFor ==
    \A d \in Targets :
        LET m == noted[d]
            under == Cardinality({u \in Users : user[u] = [target |-> d, through |-> "execute"]})
        IN m.calls + uncounted[d] = m.successes + m.failures + m.rejections + under

(***************************************************************************)
(* The metrics of a breaker can be reconciled with its state and with the  *)
(* calls made through it.                                                  *)
(***************************************************************************)
MetricsTellTheBreaker ==
    /\ TransitionsTellState
    /\ CallsAreAccountedFor
=============================================================================
