--------------------------- MODULE CircuitBreaker ---------------------------
(***************************************************************************)
(* One CircuitBreaker shared by concurrent calls of execute(fn): a call is *)
(* admitted by canExecute, its promise stays in flight while the breaker   *)
(* goes through other states, and its result is recorded whenever it       *)
(* settles.  Anybody may look at the state, and manager.reset may close    *)
(* the breaker at any moment.  Transition and call totals are not kept.    *)
(***************************************************************************)
EXTENDS BreakerState, FiniteSets

CONSTANT Calls     \* concurrent callers of execute

VARIABLES
    breaker,    \* stateInstance
    inFlight,   \* per call: "idle", or the breaker state that admitted it
    healthy     \* does the destination answer?  (environment)

vars == <<breaker, inFlight, healthy>>

(***************************************************************************)
(* The type invariant: a snapshot, and for each call the state in which    *)
(* canExecute let it through (never OPEN).                                 *)
(***************************************************************************)
TypeOK ==
    /\ breaker \in Snapshots
    /\ inFlight \in [Calls -> {"idle", "CLOSED", "HALF_OPEN"}]
    /\ healthy \in BOOLEAN

Init ==
    /\ breaker = Entered("CLOSED")
    /\ inFlight = [c \in Calls |-> "idle"]
    /\ healthy \in BOOLEAN

\* execute up to "await fn()"; a refused call throws CircuitOpenError.
Admit(c) ==
    /\ inFlight[c] = "idle"
    /\ CanExecute(breaker)
    /\ breaker' = CheckStateTransition(breaker)
    /\ inFlight' = [inFlight EXCEPT ![c] = CheckStateTransition(breaker).state]
    /\ UNCHANGED healthy

\* fn settled, now or long after the call was admitted.
Succeed(c) ==
    /\ inFlight[c] # "idle"
    /\ healthy
    /\ breaker' = RecordSuccess(breaker)
    /\ inFlight' = [inFlight EXCEPT ![c] = "idle"]
    /\ UNCHANGED healthy

Fail(c) ==
    /\ inFlight[c] # "idle"
    /\ ~healthy
    /\ breaker' = RecordFailure(breaker)
    /\ inFlight' = [inFlight EXCEPT ![c] = "idle"]
    /\ UNCHANGED healthy

\* getState from a refused call, isOpen, getHealthStatus or a dashboard.
Observe ==
    /\ breaker' = CheckStateTransition(breaker)
    /\ UNCHANGED <<inFlight, healthy>>

Reset ==
    /\ breaker' = Entered("CLOSED")
    /\ UNCHANGED <<inFlight, healthy>>

Tick ==
    /\ breaker' = Aged(breaker)
    /\ UNCHANGED <<inFlight, healthy>>

DestinationChanges ==
    /\ healthy' = ~healthy
    /\ UNCHANGED <<breaker, inFlight>>

Next ==
    \/ \E c \in Calls : Admit(c) \/ Succeed(c) \/ Fail(c)
    \/ Observe
    \/ Reset
    \/ Tick
    \/ DestinationChanges

Spec == Init /\ [][Next]_vars

\* Time passes, callers keep coming and every call settles within its timeout.
Fairness ==
    /\ WF_vars(Tick)
    /\ \A c \in Calls : WF_vars(Admit(c)) /\ WF_vars(Succeed(c) \/ Fail(c))

FairSpec == Spec /\ Fairness

-----------------------------------------------------------------------------
(* Properties *)

(***************************************************************************)
(* The counters belong to their state and stay below their thresholds,     *)
(* whatever late results arrive: a count left over from one state can      *)
(* neither open nor close the circuit in another (circuit-breaker.ts,      *)
(* transitionTo, recordSuccess, recordFailure).                            *)
(***************************************************************************)
CountersBelongToState ==
    /\ breaker.failureCount < Threshold
    /\ breaker.successCount < SuccessThreshold
    /\ breaker.failureCount > 0 => breaker.state = "CLOSED"
    /\ breaker.successCount > 0 => breaker.state = "HALF_OPEN"

(***************************************************************************)
(* Once OPEN the circuit stays OPEN for the whole timeout and admits       *)
(* nobody: results of calls that were in flight neither reopen it early    *)
(* nor restart its window; only reset cuts it short (circuit-breaker.ts,   *)
(* checkStateTransition and the OPEN branches of the record functions).    *)
(***************************************************************************)
OpenForWholeTimeout ==
    [][(breaker.state = "OPEN" /\ breaker.age < ResetTimeout) =>
         \/ Reset
         \/ /\ breaker'.state = "OPEN"
            /\ breaker'.age >= breaker.age
            /\ \A c \in Calls : inFlight'[c] \in {inFlight[c], "idle"}]_vars

(***************************************************************************)
(* If the destination stays healthy, the circuit closes for good, late     *)
(* results and half-open probes in any order (circuit-breaker.ts,          *)
(* recordSuccess).                                                         *)
(***************************************************************************)
ClosesWhenHealthy == (<>[]healthy) => <>[](breaker.state = "CLOSED")
=============================================================================
