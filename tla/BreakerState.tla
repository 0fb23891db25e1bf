---------------------------- MODULE BreakerState ----------------------------
(***************************************************************************)
(* The snapshot that a CircuitBreaker replaces on every event              *)
(* (circuit-breaker-state.ts) and the pure functions from one snapshot to  *)
(* the next (circuit-breaker.ts).  Time is discrete: "age" is the number   *)
(* of ticks since the present state was entered, so in OPEN it is          *)
(* Date.now() - openedAt.                                                  *)
(***************************************************************************)
EXTENDS Integers

CONSTANTS
    Threshold,          \* failures in CLOSED that open the circuit
    SuccessThreshold,   \* successes in HALF_OPEN that close it
    ResetTimeout,       \* config.timeout, in ticks
    MaxAge              \* bound on the clock of a state

ASSUME BreakerAssumption ==
    /\ Threshold \in Nat \ {0}
    /\ SuccessThreshold \in Nat \ {0}
    /\ ResetTimeout \in Nat \ {0}
    /\ MaxAge \in Nat
    /\ MaxAge >= ResetTimeout

States == {"CLOSED", "OPEN", "HALF_OPEN"}

Snapshots ==
    [state : States, age : 0..MaxAge, failureCount : Nat, successCount : Nat]

Entered(s) == [state |-> s, age |-> 0, failureCount |-> 0, successCount |-> 0]

\* The next snapshot of the same state.
Counting(b, failures, successes) ==
    [state |-> b.state, age |-> b.age, failureCount |-> failures, successCount |-> successes]

TransitionTo(b, s) == IF b.state = s THEN b ELSE Entered(s)

\* OPEN becomes HALF_OPEN lazily, when somebody looks at the breaker after
\* the timeout.
CheckStateTransition(b) ==
    IF b.state = "OPEN" /\ b.age >= ResetTimeout
    THEN TransitionTo(b, "HALF_OPEN")
    ELSE b

CanExecute(b) == CheckStateTransition(b).state \in {"CLOSED", "HALF_OPEN"}

RecordSuccessUncounted(b) == CheckStateTransition(b)

RecordSuccess(b) ==
    LET n == CheckStateTransition(b) IN
    CASE n.state = "HALF_OPEN" /\ n.successCount + 1 >= SuccessThreshold -> TransitionTo(n, "CLOSED")
      [] n.state = "HALF_OPEN" /\ n.successCount + 1 < SuccessThreshold ->
            Counting(n, 0, n.successCount + 1)
      [] n.state = "CLOSED" -> Counting(n, 0, 0)
      [] n.state = "OPEN" -> n

\* A failure that arrives while OPEN restarts the window.
RecordFailureReopening(b) ==
    LET n == CheckStateTransition(b) IN
    CASE n.state = "CLOSED" /\ n.failureCount + 1 < Threshold -> Counting(n, n.failureCount + 1, 0)
      [] OTHER -> Entered("OPEN")

RecordFailureLate(b) ==
    LET n == CheckStateTransition(b) IN
    CASE n.state = "CLOSED" /\ n.failureCount >= Threshold -> TransitionTo(n, "OPEN")
      [] n.state = "CLOSED" /\ n.failureCount < Threshold -> Counting(n, n.failureCount + 1, 0)
      [] n.state = "HALF_OPEN" -> TransitionTo(n, "OPEN")
      [] n.state = "OPEN" -> n

RecordFailure(b) ==
    LET n == CheckStateTransition(b) IN
    CASE n.state = "CLOSED" /\ n.failureCount + 1 >= Threshold -> TransitionTo(n, "OPEN")
      [] n.state = "CLOSED" /\ n.failureCount + 1 < Threshold ->
            Counting(n, n.failureCount + 1, 0)
      [] n.state = "HALF_OPEN" -> TransitionTo(n, "OPEN")
      [] n.state = "OPEN" -> n

Aged(b) == [b EXCEPT !.age = IF @ < MaxAge THEN @ + 1 ELSE @]

=============================================================================
