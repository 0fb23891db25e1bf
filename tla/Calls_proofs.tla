---------------------------- MODULE Calls_proofs ----------------------------
(***************************************************************************)
(* Proofs about the calls to a destination and the clients they go         *)
(* through: CircuitBreaker, BreakerRegistry, Classifiers, Retrying and     *)
(* Connections.                                                            *)
(*                                                                         *)
(* For any number of concurrent calls and any thresholds and timeouts: the *)
(* counters of a CircuitBreaker belong to its state and stay below their   *)
(* thresholds, and an OPEN circuit stays shut for its whole timeout. For   *)
(* any destinations and users of the registry, the metrics of a breaker    *)
(* tell its state and account for the calls made through it.               *)
(*                                                                         *)
(* The argument: every function of BreakerState maps a well-formed         *)
(* snapshot to a well-formed one, and a snapshot that is OPEN and younger  *)
(* than the timeout is a fixed point of all of them.                       *)
(*                                                                         *)
(* For every status and every word, what the judges of a failure have in   *)
(* common; and for any callers of a RetryExecutor, any policy and any      *)
(* errors, that its metrics add up, that no operation runs on without a    *)
(* timeout, that no call gives up without a reason, and that its delays    *)
(* are the ones the domain's formulas give. The powers of two are a        *)
(* recursive function, which exists because the doublings up to any number *)
(* can be extended by one.                                                 *)
(*                                                                         *)
(* For any callers that start, use and stop the shared clients, one Redis  *)
(* client is handed out, one Prisma client is started, and the circuits of *)
(* two hosts have nothing to do with each other.                           *)
(***************************************************************************)
EXTENDS CircuitBreaker, BreakerRegistry, Retrying, Connections, FiniteSetTheorems, TLAPS

-----------------------------------------------------------------------------
(* CircuitBreaker and BreakerRegistry *)

\* A snapshot whose counters belong to its state.
WellFormed(b) ==
    /\ b \in Snapshots
    /\ b.failureCount < Threshold
    /\ b.successCount < SuccessThreshold
    /\ b.failureCount > 0 => b.state = "CLOSED"
    /\ b.successCount > 0 => b.state = "HALF_OPEN"

\* A state that has just been entered is well formed.
LEMMA EnteredWellFormed ==
    ASSUME NEW s \in States
    PROVE  WellFormed(Entered(s)) /\ Entered(s).state = s
BY BreakerAssumption, SMT DEF WellFormed, Snapshots, States, Entered

\* transitionTo keeps a snapshot well formed.
LEMMA TransitionToWellFormed ==
    ASSUME NEW b, WellFormed(b), NEW s \in States
    PROVE  WellFormed(TransitionTo(b, s)) /\ TransitionTo(b, s).state = s
BY EnteredWellFormed DEF TransitionTo

\* checkStateTransition keeps a snapshot well formed.
LEMMA CheckWellFormed ==
    ASSUME NEW b, WellFormed(b)
    PROVE  WellFormed(CheckStateTransition(b))
BY TransitionToWellFormed DEF CheckStateTransition, States

\* recordSuccess keeps a snapshot well formed.
LEMMA SuccessWellFormed ==
    ASSUME NEW b, WellFormed(b)
    PROVE  WellFormed(RecordSuccess(b))
<1> DEFINE n == CheckStateTransition(b)
<1>1. WellFormed(n)
  BY CheckWellFormed
<1>2. WellFormed(TransitionTo(n, "CLOSED"))
  BY <1>1, TransitionToWellFormed DEF States
<1> HIDE DEF n
<1>3. n \in Snapshots /\ n.state \in States /\ n.successCount \in Nat /\ n.failureCount \in Nat
  BY <1>1 DEF WellFormed, Snapshots
<1>4. CASE n.state = "HALF_OPEN" /\ n.successCount + 1 < SuccessThreshold
  <2>1. WellFormed(Counting(n, 0, n.successCount + 1))
    <3> DEFINE m == Counting(n, 0, n.successCount + 1)
    <3>1. 0 \in Nat /\ n.successCount + 1 \in Nat
      BY <1>3
    <3>2. m \in Snapshots /\ m.state = n.state /\ m.failureCount = 0 /\ m.successCount = n.successCount + 1
      BY <1>3, <3>1 DEF Counting, Snapshots
    <3> HIDE DEF m
    <3>3. WellFormed(m)
      BY <1>3, <1>4, <3>1, <3>2, BreakerAssumption, SMT DEF WellFormed
    <3> QED BY <3>3 DEF m
  <2>2. RecordSuccess(b) = Counting(n, 0, n.successCount + 1)
    BY <1>3, <1>4, BreakerAssumption, SMT DEF RecordSuccess, n
  <2> QED BY <2>1, <2>2
<1>5. CASE n.state = "HALF_OPEN" /\ n.successCount + 1 >= SuccessThreshold
  <2>1. RecordSuccess(b) = TransitionTo(n, "CLOSED")
    BY <1>3, <1>5, BreakerAssumption, SMT DEF RecordSuccess, n
  <2> QED BY <1>2, <2>1
<1>6. CASE n.state = "CLOSED"
  <2>1. WellFormed(Counting(n, 0, 0))
    <3> DEFINE m == Counting(n, 0, 0)
    <3>1. 0 \in Nat /\ 0 \in Nat
      BY <1>3
    <3>2. m \in Snapshots /\ m.state = n.state /\ m.failureCount = 0 /\ m.successCount = 0
      BY <1>3, <3>1 DEF Counting, Snapshots
    <3> HIDE DEF m
    <3>3. WellFormed(m)
      BY <1>3, <1>6, <3>1, <3>2, BreakerAssumption, SMT DEF WellFormed
    <3> QED BY <3>3 DEF m
  <2>2. RecordSuccess(b) = Counting(n, 0, 0)
    BY <1>3, <1>6, SMT DEF RecordSuccess, n
  <2> QED BY <2>1, <2>2
<1>7. CASE n.state = "OPEN"
  <2>1. RecordSuccess(b) = n
    BY <1>7, SMT DEF RecordSuccess, n
  <2> QED BY <1>1, <2>1
<1> QED BY <1>3, <1>4, <1>5, <1>6, <1>7, BreakerAssumption, SMT DEF States

\* recordFailure keeps a snapshot well formed.
LEMMA FailureWellFormed ==
    ASSUME NEW b, WellFormed(b)
    PROVE  WellFormed(RecordFailure(b))
<1> DEFINE n == CheckStateTransition(b)
<1>1. WellFormed(n)
  BY CheckWellFormed
<1>2. WellFormed(TransitionTo(n, "OPEN"))
  BY <1>1, TransitionToWellFormed DEF States
<1> HIDE DEF n
<1>3. n \in Snapshots /\ n.state \in States /\ n.successCount \in Nat /\ n.failureCount \in Nat
  BY <1>1 DEF WellFormed, Snapshots
<1>4. CASE n.state = "CLOSED" /\ n.failureCount + 1 < Threshold
  <2>1. WellFormed(Counting(n, n.failureCount + 1, 0))
    <3> DEFINE m == Counting(n, n.failureCount + 1, 0)
    <3>1. n.failureCount + 1 \in Nat /\ 0 \in Nat
      BY <1>3
    <3>2. m \in Snapshots /\ m.state = n.state /\ m.failureCount = n.failureCount + 1 /\ m.successCount = 0
      BY <1>3, <3>1 DEF Counting, Snapshots
    <3> HIDE DEF m
    <3>3. WellFormed(m)
      BY <1>3, <1>4, <3>1, <3>2, BreakerAssumption, SMT DEF WellFormed
    <3> QED BY <3>3 DEF m
  <2>2. RecordFailure(b) = Counting(n, n.failureCount + 1, 0)
    BY <1>3, <1>4, BreakerAssumption, SMT DEF RecordFailure, n
  <2> QED BY <2>1, <2>2
<1>5. CASE n.state = "HALF_OPEN" \/ (n.state = "CLOSED" /\ n.failureCount + 1 >= Threshold)
  <2>1. RecordFailure(b) = TransitionTo(n, "OPEN")
    BY <1>3, <1>5, BreakerAssumption, SMT DEF RecordFailure, n
  <2> QED BY <1>2, <2>1
<1>6. CASE n.state = "OPEN"
  <2>1. RecordFailure(b) = n
    BY <1>6, SMT DEF RecordFailure, n
  <2> QED BY <1>1, <2>1
<1> QED BY <1>3, <1>4, <1>5, <1>6, BreakerAssumption, SMT DEF States

\* Time does not touch the counters.
LEMMA AgedWellFormed ==
    ASSUME NEW b, WellFormed(b)
    PROVE  WellFormed(Aged(b))
BY BreakerAssumption, SMT DEF WellFormed, Snapshots, Aged

-----------------------------------------------------------------------------

IInv == TypeOK /\ WellFormed(breaker)

\* A new breaker satisfies the invariant.
LEMMA IInvInit == Init => IInv
<1> SUFFICES ASSUME Init PROVE IInv
  OBVIOUS
<1>1. WellFormed(breaker)
  BY EnteredWellFormed DEF Init, States
<1>2. breaker \in Snapshots
  BY <1>1 DEF WellFormed
<1> QED BY <1>1, <1>2 DEF Init, IInv, TypeOK

\* Every step preserves the invariant.
LEMMA IInvInductive == IInv /\ [Next]_vars => IInv'
<1> SUFFICES ASSUME IInv, [Next]_vars PROVE IInv'
  OBVIOUS
<1>0. WellFormed(breaker) /\ inFlight \in [Calls -> {"idle", "CLOSED", "HALF_OPEN"}] /\ healthy \in BOOLEAN
  BY DEF IInv, TypeOK
<1>w. SUFFICES /\ WellFormed(breaker')
               /\ inFlight' \in [Calls -> {"idle", "CLOSED", "HALF_OPEN"}]
               /\ healthy' \in BOOLEAN
  BY DEF IInv, TypeOK, WellFormed
<1>1. ASSUME NEW c \in Calls, Admit(c)
      PROVE  /\ WellFormed(breaker')
             /\ inFlight' \in [Calls -> {"idle", "CLOSED", "HALF_OPEN"}]
             /\ healthy' \in BOOLEAN
  <2>1. WellFormed(breaker')
    BY <1>0, <1>1, CheckWellFormed DEF Admit
  <2>2. inFlight' \in [Calls -> {"idle", "CLOSED", "HALF_OPEN"}]
    BY <1>0, <1>1 DEF Admit, CanExecute
  <2> QED BY <1>0, <1>1, <2>1, <2>2 DEF Admit
<1>2. ASSUME NEW c \in Calls, Succeed(c) \/ Fail(c)
      PROVE  /\ WellFormed(breaker')
             /\ inFlight' \in [Calls -> {"idle", "CLOSED", "HALF_OPEN"}]
             /\ healthy' \in BOOLEAN
  <2>1. WellFormed(breaker')
    BY <1>0, <1>2, SuccessWellFormed, FailureWellFormed DEF Succeed, Fail
  <2>2. inFlight' \in [Calls -> {"idle", "CLOSED", "HALF_OPEN"}]
    BY <1>0, <1>2 DEF Succeed, Fail
  <2> QED BY <1>0, <1>2, <2>1, <2>2 DEF Succeed, Fail
<1>3. CASE Observe
  BY <1>0, <1>3, CheckWellFormed DEF Observe
<1>4. CASE Reset
  BY <1>0, <1>4, EnteredWellFormed DEF Reset, States
<1>5. CASE Tick
  BY <1>0, <1>5, AgedWellFormed DEF Tick
<1>6. CASE DestinationChanges
  BY <1>0, <1>6 DEF DestinationChanges
<1>7. CASE UNCHANGED vars
  BY <1>0, <1>7 DEF vars
<1> QED BY <1>1, <1>2, <1>3, <1>4, <1>5, <1>6, <1>7 DEF Next

(***************************************************************************)
(* Type correctness, of which one part is substance: no call is ever let   *)
(* through while the circuit is OPEN (circuit-breaker.ts, canExecute).     *)
(***************************************************************************)
THEOREM TypeCorrect == Spec => []TypeOK
<1>1. IInv => TypeOK
  BY DEF IInv
<1> QED BY <1>1, IInvInit, IInvInductive, PTL DEF Spec

(***************************************************************************)
(* The counters of every breaker belong to its present state and stay      *)
(* below their thresholds, late results of any number of concurrent calls  *)
(* included (circuit-breaker.ts, transitionTo and the record functions).   *)
(***************************************************************************)
THEOREM CountersStayWithState == Spec => []CountersBelongToState
<1>1. IInv => CountersBelongToState
  BY DEF IInv, WellFormed, CountersBelongToState
<1> QED BY <1>1, IInvInit, IInvInductive, PTL DEF Spec

\* A young OPEN snapshot is left alone by everybody.
LEMMA YoungOpenIsFixed ==
    ASSUME NEW b \in Snapshots, b.state = "OPEN", b.age < ResetTimeout
    PROVE  /\ CheckStateTransition(b) = b
           /\ RecordSuccess(b) = b
           /\ RecordFailure(b) = b
           /\ ~CanExecute(b)
           /\ Aged(b).state = "OPEN" /\ Aged(b).age >= b.age
<1>1. CheckStateTransition(b) = b
  BY BreakerAssumption, SMT DEF CheckStateTransition, Snapshots
<1>2. RecordSuccess(b) = b
  BY <1>1, SMT DEF RecordSuccess
<1>3. RecordFailure(b) = b
  BY <1>1, SMT DEF RecordFailure
<1>4. ~CanExecute(b)
  BY <1>1 DEF CanExecute
<1>5. Aged(b).state = "OPEN" /\ Aged(b).age >= b.age
  BY BreakerAssumption, SMT DEF Aged, Snapshots
<1> QED BY <1>1, <1>2, <1>3, <1>4, <1>5

(***************************************************************************)
(* An OPEN circuit stays OPEN and admits nobody for its whole timeout,     *)
(* whatever results of earlier calls arrive and whoever looks at it; only  *)
(* reset cuts it short (circuit-breaker.ts, checkStateTransition).         *)
(***************************************************************************)
THEOREM OpenStaysOpen == Spec => OpenForWholeTimeout
<1>1. ASSUME IInv, [Next]_vars,
             breaker.state = "OPEN", breaker.age < ResetTimeout, ~Reset
      PROVE  /\ breaker'.state = "OPEN"
             /\ breaker'.age >= breaker.age
             /\ \A c \in Calls : inFlight'[c] \in {inFlight[c], "idle"}
  <2>0. breaker \in Snapshots /\ inFlight \in [Calls -> {"idle", "CLOSED", "HALF_OPEN"}]
    BY <1>1 DEF IInv, TypeOK
  <2>1. /\ CheckStateTransition(breaker) = breaker
        /\ RecordSuccess(breaker) = breaker
        /\ RecordFailure(breaker) = breaker
        /\ ~CanExecute(breaker)
        /\ Aged(breaker).state = "OPEN" /\ Aged(breaker).age >= breaker.age
    BY <1>1, <2>0, YoungOpenIsFixed
  <2>2. breaker.age >= breaker.age
    BY <2>0, BreakerAssumption, SMT DEF Snapshots
  <2>3. ASSUME NEW c \in Calls, Admit(c) PROVE FALSE
    BY <2>1, <2>3 DEF Admit
  <2>4. ASSUME NEW c \in Calls, Succeed(c) \/ Fail(c)
        PROVE  breaker' = breaker /\ \A d \in Calls : inFlight'[d] \in {inFlight[d], "idle"}
    BY <2>0, <2>1, <2>4 DEF Succeed, Fail
  <2>5. CASE Observe \/ DestinationChanges \/ UNCHANGED vars
    BY <1>1, <2>1, <2>2, <2>5 DEF Observe, DestinationChanges, vars
  <2>6. CASE Tick
    BY <2>1, <2>6 DEF Tick
  <2> QED BY <1>1, <2>2, <2>3, <2>4, <2>5, <2>6 DEF Next
<1>2. IInv /\ [Next]_vars =>
         [(breaker.state = "OPEN" /\ breaker.age < ResetTimeout) =>
            \/ Reset
            \/ /\ breaker'.state = "OPEN"
               /\ breaker'.age >= breaker.age
               /\ \A c \in Calls : inFlight'[c] \in {inFlight[c], "idle"}]_vars
  BY <1>1
<1> QED BY <1>2, IInvInit, IInvInductive, PTL DEF Spec, OpenForWholeTimeout

-----------------------------------------------------------------------------
(* BreakerRegistry: what the metrics of a breaker tell *)

Notes ==
    [calls : Nat, successes : Nat, failures : Nat, rejections : Nat,
     CLOSED : Nat, OPEN : Nat, HALF_OPEN : Nat]
Uses == [target : Targets, through : {"execute", "results", "again", "old"}]

\* The calls of execute that are under way at a destination.
Executing(d, us) == {u \in Users : us[u] = [target |-> d, through |-> "execute"]}

\* The transitions m has counted belong to a breaker in state s: one that is
\* HALF_OPEN has a closing still before it.
Tells(m, s) ==
    /\ m.OPEN = m.HALF_OPEN + (IF s = "OPEN" THEN 1 ELSE 0)
    /\ m.CLOSED + (IF s = "HALF_OPEN" THEN 1 ELSE 0) <= m.HALF_OPEN + 1

\* The counters m and the uncounted results o agree with n calls under way.
Accounts(m, o, n) == m.calls + o = m.successes + m.failures + m.rejections + n

\* The transitions of a breaker between two looks at it.
Legal == {<<"OPEN", "HALF_OPEN">>, <<"HALF_OPEN", "CLOSED">>, <<"HALF_OPEN", "OPEN">>,
          <<"CLOSED", "OPEN">>}

(***************************************************************************)
(* The inductive invariant: every breaker, known or not, is told by its    *)
(* metrics, and a finite number of calls is under way at it.               *)
(***************************************************************************)
RegistryInv ==
    /\ known \subseteq Targets
    /\ breakers \in [Targets -> Snapshots] /\ \A d \in Targets : WellFormed(breakers[d])
    /\ noted \in [Targets -> Notes]
    /\ user \in [Users -> {NotUsing} \cup Uses]
    /\ uncounted \in [Targets -> Nat]
    /\ \A d \in Targets :
         /\ Tells(noted[d], breakers[d].state)
         /\ IsFiniteSet(Executing(d, user))
         /\ Accounts(noted[d], uncounted[d], Cardinality(Executing(d, user)))

\* recordStateTransition counts a legal transition and nothing else.
LEMMA TransitionTells ==
    ASSUME NEW m \in Notes, NEW from \in States, NEW to \in States,
           from = to \/ <<from, to>> \in Legal, Tells(m, from)
    PROVE  /\ Transition(m, from, to) \in Notes /\ Tells(Transition(m, from, to), to)
           /\ Transition(m, from, to).calls = m.calls
           /\ Transition(m, from, to).successes = m.successes
           /\ Transition(m, from, to).failures = m.failures
           /\ Transition(m, from, to).rejections = m.rejections
<1>1. CASE from = to
  BY <1>1 DEF Transition
<1>2. CASE from # to
  <2> DEFINE t == [m EXCEPT ![to] = @ + 1]
  <2>1. Transition(m, from, to) = t
    BY <1>2 DEF Transition
  <2>2. <<from, to>> \in Legal
    BY <1>2
  <2>3. CASE to = "OPEN"
    <3>1. /\ t \in Notes /\ t.OPEN = m.OPEN + 1 /\ t.CLOSED = m.CLOSED /\ t.HALF_OPEN = m.HALF_OPEN
          /\ t.calls = m.calls /\ t.successes = m.successes /\ t.failures = m.failures
          /\ t.rejections = m.rejections
      BY <2>3 DEF Notes
    <3> HIDE DEF t
    <3>2. from \in {"CLOSED", "HALF_OPEN"}
      BY <2>2, <2>3 DEF Legal
    <3>3. m.OPEN \in Nat /\ m.CLOSED \in Nat /\ m.HALF_OPEN \in Nat
      BY DEF Notes
    <3>4. Tells(t, to)
      BY <2>3, <3>1, <3>2, <3>3 DEF Tells
    <3>5. QED
      BY <2>1, <3>1, <3>4
  <2>4. CASE to = "HALF_OPEN"
    <3>1. /\ t \in Notes /\ t.OPEN = m.OPEN /\ t.CLOSED = m.CLOSED /\ t.HALF_OPEN = m.HALF_OPEN + 1
          /\ t.calls = m.calls /\ t.successes = m.successes /\ t.failures = m.failures
          /\ t.rejections = m.rejections
      BY <2>4 DEF Notes
    <3> HIDE DEF t
    <3>2. from = "OPEN"
      BY <2>2, <2>4 DEF Legal
    <3>3. m.OPEN \in Nat /\ m.CLOSED \in Nat /\ m.HALF_OPEN \in Nat
      BY DEF Notes
    <3>4. Tells(t, to)
      BY <2>4, <3>1, <3>2, <3>3 DEF Tells
    <3>5. QED
      BY <2>1, <3>1, <3>4
  <2>5. CASE to = "CLOSED"
    <3>1. /\ t \in Notes /\ t.OPEN = m.OPEN /\ t.CLOSED = m.CLOSED + 1 /\ t.HALF_OPEN = m.HALF_OPEN
          /\ t.calls = m.calls /\ t.successes = m.successes /\ t.failures = m.failures
          /\ t.rejections = m.rejections
      BY <2>5 DEF Notes
    <3> HIDE DEF t
    <3>2. from = "HALF_OPEN"
      BY <2>2, <2>5 DEF Legal
    <3>3. m.OPEN \in Nat /\ m.CLOSED \in Nat /\ m.HALF_OPEN \in Nat
      BY DEF Notes
    <3>4. Tells(t, to)
      BY <2>5, <3>1, <3>2, <3>3 DEF Tells
    <3>5. QED
      BY <2>1, <3>1, <3>4
  <2>6. QED
    BY <2>3, <2>4, <2>5 DEF States
<1>3. QED
  BY <1>1, <1>2

\* Looking at a breaker and recording a result are legal transitions.
LEMMA CheckIsLegal ==
    ASSUME NEW b, WellFormed(b)
    PROVE  \/ CheckStateTransition(b).state = b.state
           \/ <<b.state, CheckStateTransition(b).state>> \in Legal
<1>1. Entered("HALF_OPEN").state = "HALF_OPEN"
  BY DEF Entered
<1>2. QED
  BY <1>1 DEF CheckStateTransition, TransitionTo, Legal

LEMMA RecordIsLegal ==
    ASSUME NEW b, WellFormed(b), NEW next \in {RecordSuccess(b), RecordFailure(b)}
    PROVE  /\ WellFormed(next)
           /\ \/ next.state = CheckStateTransition(b).state
              \/ <<CheckStateTransition(b).state, next.state>> \in Legal
<1> DEFINE n == CheckStateTransition(b)
<1>1. WellFormed(n) /\ WellFormed(next)
  BY CheckWellFormed, SuccessWellFormed, FailureWellFormed
<1>2. /\ TransitionTo(n, "CLOSED").state = "CLOSED" /\ TransitionTo(n, "OPEN").state = "OPEN"
  BY <1>1, TransitionToWellFormed DEF States
<1>3. \A f, g : Counting(n, f, g).state = n.state
  BY DEF Counting
<1> HIDE DEF n
<1>4. n.state \in States /\ n.successCount \in Nat /\ n.failureCount \in Nat
  BY <1>1 DEF WellFormed, Snapshots
<1>5. CASE n.state = "HALF_OPEN"
  <2>1. RecordSuccess(b).state \in {"HALF_OPEN", "CLOSED"}
    BY <1>2, <1>3, <1>4, <1>5, BreakerAssumption DEF RecordSuccess, n
  <2>2. RecordFailure(b).state = "OPEN"
    BY <1>2, <1>3, <1>4, <1>5, BreakerAssumption DEF RecordFailure, n
  <2>3. QED
    BY <1>1, <1>5, <2>1, <2>2 DEF Legal, n
<1>6. CASE n.state = "CLOSED"
  <2>1. RecordSuccess(b).state = "CLOSED"
    BY <1>2, <1>3, <1>4, <1>6, BreakerAssumption DEF RecordSuccess, n
  <2>2. RecordFailure(b).state \in {"CLOSED", "OPEN"}
    BY <1>2, <1>3, <1>4, <1>6, BreakerAssumption DEF RecordFailure, n
  <2>3. QED
    BY <1>1, <1>6, <2>1, <2>2 DEF Legal, n
<1>7. CASE n.state = "OPEN"
  <2>1. RecordSuccess(b) = n /\ RecordFailure(b) = n
    BY <1>7 DEF RecordSuccess, RecordFailure, n
  <2>2. QED
    BY <1>1, <2>1 DEF n
<1>8. QED
  BY <1>4, <1>5, <1>6, <1>7 DEF States

\* The metrics follow a breaker from b to next, which begins with getState.
LEMMA SeenTells ==
    ASSUME NEW b, WellFormed(b), NEW m \in Notes, Tells(m, b.state),
           NEW next \in {CheckStateTransition(b), RecordSuccess(b), RecordFailure(b)}
    PROVE  /\ WellFormed(next) /\ Seen(m, b, next) \in Notes /\ Tells(Seen(m, b, next), next.state)
           /\ Seen(m, b, next).calls = m.calls /\ Seen(m, b, next).successes = m.successes
           /\ Seen(m, b, next).failures = m.failures /\ Seen(m, b, next).rejections = m.rejections
<1> DEFINE n == CheckStateTransition(b)
           m1 == Transition(m, b.state, n.state)
<1>1. /\ WellFormed(n) /\ WellFormed(next)
      /\ n.state = b.state \/ <<b.state, n.state>> \in Legal
      /\ next.state = n.state \/ <<n.state, next.state>> \in Legal
  BY CheckWellFormed, CheckIsLegal, RecordIsLegal
<1>2. b.state \in States /\ n.state \in States /\ next.state \in States
  BY <1>1 DEF WellFormed, Snapshots
<1>3. Seen(m, b, next) = Transition(m1, n.state, next.state)
  BY DEF Seen
<1> HIDE DEF n
<1>4. /\ m1 \in Notes /\ Tells(m1, n.state) /\ m1.calls = m.calls /\ m1.successes = m.successes
      /\ m1.failures = m.failures /\ m1.rejections = m.rejections
  BY <1>1, <1>2, TransitionTells
<1> HIDE DEF m1
<1>5. QED
  BY <1>1, <1>2, <1>3, <1>4, TransitionTells

\* A user that takes up or leaves a use changes one set of calls at most.
LEMMA ExecutingMoves ==
    ASSUME user \in [Users -> {NotUsing} \cup Uses], NEW u \in Users, NEW use,
           user' = [user EXCEPT ![u] = use], NEW d \in Targets
    PROVE  Executing(d, user') =
               IF use = [target |-> d, through |-> "execute"] THEN Executing(d, user) \cup {u}
                                                              ELSE Executing(d, user) \ {u}
<1>1. \A v \in Users : user'[v] = IF v = u THEN use ELSE user[v]
  OBVIOUS
<1>2. QED
  BY <1>1 DEF Executing

\* What there is to show of a step that touches one destination.
LEMMA OneTargetMoves ==
    ASSUME RegistryInv, NEW d \in Targets, NEW b, NEW m \in Notes, NEW o \in Nat,
           WellFormed(b), Tells(m, b.state),
           breakers' = [breakers EXCEPT ![d] = b], noted' = [noted EXCEPT ![d] = m],
           uncounted' = [uncounted EXCEPT ![d] = o], known' \subseteq Targets,
           user' \in [Users -> {NotUsing} \cup Uses],
           \A e \in Targets : e # d => Executing(e, user') = Executing(e, user),
           IsFiniteSet(Executing(d, user')), Accounts(m, o, Cardinality(Executing(d, user')))
    PROVE  RegistryInv'
<1>1. b \in Snapshots
  BY DEF WellFormed
<1>2. /\ breakers' \in [Targets -> Snapshots] /\ noted' \in [Targets -> Notes]
      /\ uncounted' \in [Targets -> Nat]
  BY <1>1 DEF RegistryInv
<1>3. ASSUME NEW e \in Targets
      PROVE  /\ WellFormed(breakers'[e]) /\ Tells(noted'[e], breakers'[e].state)
             /\ IsFiniteSet(Executing(e, user'))
             /\ Accounts(noted'[e], uncounted'[e], Cardinality(Executing(e, user')))
  <2>1. CASE e = d
    <3>1. breakers'[e] = b /\ noted'[e] = m /\ uncounted'[e] = o
      BY <2>1 DEF RegistryInv
    <3>2. QED
      BY <2>1, <3>1
  <2>2. CASE e # d
    <3>1. /\ breakers'[e] = breakers[e] /\ noted'[e] = noted[e] /\ uncounted'[e] = uncounted[e]
          /\ Executing(e, user') = Executing(e, user)
      BY <2>2 DEF RegistryInv
    <3>2. QED
      BY <3>1 DEF RegistryInv
  <2>3. QED
    BY <2>1, <2>2
<1>4. QED
  BY <1>2, <1>3 DEF RegistryInv

LEMMA RegistryInvInit == RegistryInit => RegistryInv
<1> SUFFICES ASSUME RegistryInit PROVE RegistryInv
  OBVIOUS
<1>1. WellFormed(Entered("CLOSED")) /\ Entered("CLOSED").state = "CLOSED"
  BY EnteredWellFormed DEF States
<1>2. Entered("CLOSED") \in Snapshots
  BY <1>1 DEF WellFormed
<1>3. /\ NoNotes \in Notes /\ NoNotes.calls = 0 /\ NoNotes.successes = 0 /\ NoNotes.failures = 0
      /\ NoNotes.rejections = 0 /\ NoNotes.OPEN = 0 /\ NoNotes.CLOSED = 0 /\ NoNotes.HALF_OPEN = 0
  BY DEF NoNotes, Notes
<1>4. /\ known = {} /\ breakers = [d \in Targets |-> Entered("CLOSED")]
      /\ noted = [d \in Targets |-> NoNotes] /\ user = [u \in Users |-> NotUsing]
      /\ uncounted = [d \in Targets |-> 0]
  BY DEF RegistryInit
<1>5. ASSUME NEW d \in Targets
      PROVE  /\ WellFormed(breakers[d]) /\ Tells(noted[d], breakers[d].state)
             /\ IsFiniteSet(Executing(d, user))
             /\ Accounts(noted[d], uncounted[d], Cardinality(Executing(d, user)))
  <2>1. breakers[d] = Entered("CLOSED") /\ noted[d] = NoNotes /\ uncounted[d] = 0
    BY <1>4
  <2>2. Executing(d, user) = {}
    BY <1>4 DEF Executing, NotUsing
  <2>3. IsFiniteSet(Executing(d, user)) /\ Cardinality(Executing(d, user)) = 0
    BY <2>2, FS_EmptySet
  <2>4. Tells(NoNotes, "CLOSED") /\ Accounts(NoNotes, 0, 0)
    BY <1>3 DEF Tells, Accounts
  <2>5. QED
    BY <1>1, <2>1, <2>3, <2>4
<1>6. QED
  BY <1>2, <1>3, <1>4, <1>5 DEF RegistryInv

\* isOpen and execute up to its await: a call that execute counts is refused
\* or under way.
LEMMA BeginKeeps ==
    ASSUME RegistryInv, NEW u \in Users, NEW d \in Targets, IsOpen(u, d) \/ ExecuteGuarded(u, d)
    PROVE  RegistryInv'
<1> DEFINE b == CheckStateTransition(breakers[d])
           E == Executing(d, user)
           through == IF IsOpen(u, d) THEN "results" ELSE "execute"
           use == IF CanExecute(breakers[d]) THEN [target |-> d, through |-> through] ELSE user[u]
<1>1. /\ WellFormed(breakers[d]) /\ noted[d] \in Notes /\ Tells(noted[d], breakers[d].state)
      /\ uncounted[d] \in Nat /\ user \in [Users -> {NotUsing} \cup Uses]
      /\ IsFiniteSet(E) /\ Accounts(noted[d], uncounted[d], Cardinality(E))
  BY DEF RegistryInv
<1>2. Cardinality(E) \in Nat
  BY <1>1, FS_CardinalityType
<1>3. /\ user[u] = NotUsing /\ known' \subseteq Targets /\ UNCHANGED uncounted
      /\ breakers' = [breakers EXCEPT ![d] = b]
  BY DEF IsOpen, ExecuteGuarded, Replace, GetBreaker, RegistryInv
<1>4. u \notin E
  BY <1>3 DEF Executing, NotUsing
<1>5. through \in {"results", "execute"} /\ user' = [user EXCEPT ![u] = use]
  BY <1>1 DEF IsOpen, ExecuteGuarded, Begin
<1>6. use \in {NotUsing} \cup Uses
  BY <1>3, <1>5 DEF Uses
<1>7. user' \in [Users -> {NotUsing} \cup Uses]
  BY <1>1, <1>5, <1>6
<1> HIDE DEF use, E
<1>m. \A e \in Targets :
         Executing(e, user') = IF use = [target |-> e, through |-> "execute"]
                               THEN Executing(e, user) \cup {u} ELSE Executing(e, user) \ {u}
  <2>1. user \in [Users -> {NotUsing} \cup Uses] /\ user' = [user EXCEPT ![u] = use]
    BY <1>1, <1>5
  <2>2. QED
    BY <2>1, ExecutingMoves
<1>8. use # [target |-> d, through |-> "execute"] => Executing(d, user') = E
  BY <1>4, <1>m DEF E
<1>9. use = [target |-> d, through |-> "execute"] =>
         /\ IsFiniteSet(Executing(d, user'))
         /\ Cardinality(Executing(d, user')) = Cardinality(E) + 1
  <2>1. IsFiniteSet(E \cup {u}) /\ Cardinality(E \cup {u}) = Cardinality(E) + 1
    BY <1>1, <1>4, FS_AddElement
  <2>2. QED
    BY <1>m, <2>1 DEF E
<1>10. \A e \in Targets : e # d => Executing(e, user') = Executing(e, user)
  <2> SUFFICES ASSUME NEW e \in Targets, e # d PROVE Executing(e, user') = Executing(e, user)
    OBVIOUS
  <2>1. u \notin Executing(e, user)
    BY <1>3 DEF Executing, NotUsing
  <2>2. use # [target |-> e, through |-> "execute"]
    BY <1>3 DEF NotUsing, use
  <2>3. QED
    BY <1>m, <2>1, <2>2
<1>11. uncounted' = [uncounted EXCEPT ![d] = uncounted[d]]
  BY <1>3 DEF RegistryInv
<1>12. CASE IsOpen(u, d)
  <2> DEFINE m == Seen(noted[d], breakers[d], b)
  <2>1. noted' = [noted EXCEPT ![d] = m]
    BY <1>12 DEF IsOpen, Replace
  <2>2. /\ WellFormed(b) /\ m \in Notes /\ Tells(m, b.state) /\ m.calls = noted[d].calls
        /\ m.successes = noted[d].successes /\ m.failures = noted[d].failures
        /\ m.rejections = noted[d].rejections
    BY <1>1, SeenTells
  <2>3. use # [target |-> d, through |-> "execute"]
    BY <1>3, <1>12 DEF NotUsing, use
  <2>4. Executing(d, user') = E
    BY <1>8, <2>3
  <2> HIDE DEF m, b
  <2>5. Accounts(m, uncounted[d], Cardinality(Executing(d, user')))
    BY <1>1, <2>2, <2>4 DEF Accounts
  <2>6. QED
    BY <1>1, <1>3, <1>7, <1>10, <1>11, <2>1, <2>2, <2>4, <2>5, OneTargetMoves
<1>13. CASE ~IsOpen(u, d)
  <2> DEFINE called == [noted[d] EXCEPT !.calls = noted[d].calls + 1]
             m0 == IF CanExecute(breakers[d]) THEN called
                   ELSE [called EXCEPT !.rejections = called.rejections + 1]
             m == Seen(m0, breakers[d], b)
  <2>1. noted' = [noted EXCEPT ![d] = m]
    BY <1>13 DEF ExecuteGuarded, Replace
  <2>2. /\ m0 \in Notes /\ m0.OPEN = noted[d].OPEN /\ m0.CLOSED = noted[d].CLOSED
        /\ m0.HALF_OPEN = noted[d].HALF_OPEN /\ m0.calls = noted[d].calls + 1
        /\ m0.successes = noted[d].successes /\ m0.failures = noted[d].failures
        /\ m0.rejections = noted[d].rejections + (IF CanExecute(breakers[d]) THEN 0 ELSE 1)
    <3>1. /\ called \in Notes /\ called.OPEN = noted[d].OPEN /\ called.CLOSED = noted[d].CLOSED
          /\ called.HALF_OPEN = noted[d].HALF_OPEN /\ called.calls = noted[d].calls + 1
          /\ called.successes = noted[d].successes /\ called.failures = noted[d].failures
          /\ called.rejections = noted[d].rejections /\ noted[d].rejections \in Nat
      BY <1>1 DEF Notes
    <3> HIDE DEF called
    <3>2. CASE CanExecute(breakers[d])
      BY <3>1, <3>2
    <3>3. CASE ~CanExecute(breakers[d])
      BY <3>1, <3>3 DEF Notes
    <3>4. QED
      BY <3>2, <3>3
  <2> HIDE DEF m0, called
  <2>3. Tells(m0, breakers[d].state)
    BY <1>1, <2>2 DEF Tells
  <2>4. /\ WellFormed(b) /\ m \in Notes /\ Tells(m, b.state) /\ m.calls = m0.calls
        /\ m.successes = m0.successes /\ m.failures = m0.failures /\ m.rejections = m0.rejections
    BY <1>1, <2>2, <2>3, SeenTells
  <2> HIDE DEF m
  <2>5. CASE CanExecute(breakers[d])
    <3>1. use = [target |-> d, through |-> "execute"]
      BY <1>13, <2>5 DEF use
    <3>2. IsFiniteSet(Executing(d, user')) /\ Cardinality(Executing(d, user')) = Cardinality(E) + 1
      BY <1>9, <3>1
    <3> HIDE DEF b
    <3>3. Accounts(m, uncounted[d], Cardinality(Executing(d, user')))
      BY <1>1, <1>2, <2>2, <2>4, <2>5, <3>2 DEF Accounts, Notes
    <3>4. QED
      BY <1>1, <1>3, <1>7, <1>10, <1>11, <2>1, <2>4, <3>2, <3>3, OneTargetMoves
  <2>6. CASE ~CanExecute(breakers[d])
    <3>1. use # [target |-> d, through |-> "execute"]
      BY <1>3, <2>6 DEF NotUsing, use
    <3>2. Executing(d, user') = E
      BY <1>8, <3>1
    <3> HIDE DEF b
    <3>3. m.rejections = noted[d].rejections + 1 /\ m.calls = noted[d].calls + 1
      BY <2>2, <2>4, <2>6
    <3>5. Accounts(m, uncounted[d], Cardinality(Executing(d, user')))
      BY <1>1, <1>2, <2>2, <2>4, <3>2, <3>3 DEF Accounts, Notes
    <3>4. QED
      BY <1>1, <1>3, <1>7, <1>10, <1>11, <2>1, <2>4, <3>2, <3>5, OneTargetMoves
  <2>7. QED
    BY <2>5, <2>6
<1>14. QED
  BY <1>12, <1>13

\* A result is one of a counted call that was under way, or is uncounted.
LEMMA SettlesKeeps ==
    ASSUME RegistryInv, NEW u \in Users, NEW ok \in BOOLEAN, Settles(u, ok)
    PROVE  RegistryInv'
<1> DEFINE d == user[u].target
           E == Executing(d, user)
           counted == user[u].through = "execute"
           use == IF user[u].through = "results" THEN [user[u] EXCEPT !.through = "again"] ELSE NotUsing
           m0 == IF ok THEN [noted[d] EXCEPT !.successes = noted[d].successes + 1]
                 ELSE [noted[d] EXCEPT !.failures = noted[d].failures + 1]
           b == IF ok THEN RecordSuccess(breakers[d]) ELSE RecordFailure(breakers[d])
           m == Seen(m0, breakers[d], b)
           o == IF counted THEN uncounted[d] ELSE uncounted[d] + 1
<1>1. user \in [Users -> {NotUsing} \cup Uses] /\ user[u] \in Uses /\ d \in Targets
  BY DEF RegistryInv, Settles, Uses
<1>2. /\ WellFormed(breakers[d]) /\ noted[d] \in Notes /\ Tells(noted[d], breakers[d].state)
      /\ uncounted[d] \in Nat /\ IsFiniteSet(E) /\ Accounts(noted[d], uncounted[d], Cardinality(E))
  BY <1>1 DEF RegistryInv
<1>3. Cardinality(E) \in Nat
  BY <1>2, FS_CardinalityType
<1>4. /\ breakers' = [breakers EXCEPT ![d] = b] /\ noted' = [noted EXCEPT ![d] = m]
      /\ known' = known
  BY DEF Settles, Replace
<1>5. uncounted' = [uncounted EXCEPT ![d] = o]
  BY <1>1 DEF Settles, RegistryInv
<1>6. user' = [user EXCEPT ![u] = use]
  BY <1>1 DEF Settles
<1>7. use \in {NotUsing} \cup Uses /\ \A e \in Targets : use # [target |-> e, through |-> "execute"]
  BY <1>1 DEF Uses, NotUsing
<1>8. \A e \in Targets : u \in Executing(e, user) <=> e = d /\ counted
  BY <1>1 DEF Executing, Uses
<1> HIDE DEF use
<1>9. ASSUME NEW e \in Targets PROVE Executing(e, user') = Executing(e, user) \ {u}
  <2>1. user \in [Users -> {NotUsing} \cup Uses] /\ use # [target |-> e, through |-> "execute"]
    BY <1>1, <1>7
  <2>2. QED
    BY <1>6, <2>1, ExecutingMoves
<1>10. user' \in [Users -> {NotUsing} \cup Uses]
  BY <1>1, <1>6, <1>7
<1>11. \A e \in Targets : e # d => Executing(e, user') = Executing(e, user)
  BY <1>8, <1>9
<1> HIDE DEF d
<1>12. /\ m0 \in Notes /\ m0.OPEN = noted[d].OPEN /\ m0.CLOSED = noted[d].CLOSED
       /\ m0.HALF_OPEN = noted[d].HALF_OPEN /\ m0.calls = noted[d].calls
       /\ m0.rejections = noted[d].rejections
       /\ m0.successes + m0.failures = noted[d].successes + noted[d].failures + 1
  <2>1. CASE ok
    BY <1>2, <2>1 DEF Notes
  <2>2. CASE ~ok
    BY <1>2, <2>2 DEF Notes
  <2>3. QED
    BY <2>1, <2>2
<1>13. b \in {RecordSuccess(breakers[d]), RecordFailure(breakers[d])}
  OBVIOUS
<1> HIDE DEF m0, b
<1>14. Tells(m0, breakers[d].state)
  BY <1>2, <1>12 DEF Tells
<1>15. /\ WellFormed(b) /\ m \in Notes /\ Tells(m, b.state) /\ m.calls = m0.calls
       /\ m.successes = m0.successes /\ m.failures = m0.failures /\ m.rejections = m0.rejections
  BY <1>2, <1>12, <1>13, <1>14, SeenTells
<1> HIDE DEF m
<1>16. /\ o \in Nat /\ IsFiniteSet(Executing(d, user'))
       /\ o + Cardinality(E) = uncounted[d] + Cardinality(Executing(d, user')) + 1
       /\ Cardinality(Executing(d, user')) \in Nat
  <2>1. CASE counted
    <3>1. u \in E /\ Executing(d, user') = E \ {u}
      BY <1>1, <1>8, <1>9, <2>1
    <3> HIDE DEF E
    <3>2. IsFiniteSet(E \ {u}) /\ Cardinality(E \ {u}) = Cardinality(E) - 1 /\ Cardinality(E \ {u}) \in Nat
      BY <1>2, <3>1, FS_RemoveElement, FS_CardinalityType
    <3>3. QED
      BY <1>2, <1>3, <2>1, <3>1, <3>2
  <2>2. CASE ~counted
    <3>1. Executing(d, user') = E
      BY <1>1, <1>8, <1>9, <2>2
    <3> HIDE DEF E
    <3>2. QED
      BY <1>2, <1>3, <2>2, <3>1
  <2>3. QED
    BY <2>1, <2>2
<1> HIDE DEF o, E
<1>17. Accounts(m, o, Cardinality(Executing(d, user')))
  BY <1>2, <1>3, <1>12, <1>15, <1>16 DEF Accounts, Notes
<1>18. known' \subseteq Targets
  BY <1>4 DEF RegistryInv
<1>19. QED
  BY <1>1, <1>4, <1>5, <1>10, <1>11, <1>15, <1>16, <1>17, <1>18, OneTargetMoves

LEMMA ResetBreakerKeeps ==
    ASSUME RegistryInv, NEW d \in Targets, ResetBreaker(d)
    PROVE  RegistryInv'
<1> DEFINE m == Transition(NoNotes, breakers[d].state, "CLOSED")
           old(v) == IF user[v] = [target |-> d, through |-> "execute"]
                     THEN [user[v] EXCEPT !.through = "old"] ELSE user[v]
<1>1. /\ breakers' = [breakers EXCEPT ![d] = Entered("CLOSED")] /\ noted' = [noted EXCEPT ![d] = m]
      /\ uncounted' = [uncounted EXCEPT ![d] = 0] /\ known' = known
      /\ user' = [v \in Users |-> old(v)]
  BY DEF ResetBreaker
<1>2. WellFormed(Entered("CLOSED")) /\ Entered("CLOSED").state = "CLOSED"
  BY EnteredWellFormed DEF States
<1>3. /\ m \in Notes /\ m.calls = 0 /\ m.successes = 0 /\ m.failures = 0 /\ m.rejections = 0
      /\ m.OPEN = 0 /\ m.HALF_OPEN = 0 /\ m.CLOSED \in {0, 1}
  BY DEF Transition, NoNotes, Notes
<1> HIDE DEF m
<1>4. Tells(m, "CLOSED") /\ Accounts(m, 0, 0)
  BY <1>3 DEF Tells, Accounts
<1>5. \A v \in Users :
         /\ old(v) \in {NotUsing} \cup Uses
         /\ old(v) # [target |-> d, through |-> "execute"]
         /\ \A e \in Targets : e # d => (old(v) = [target |-> e, through |-> "execute"]
                                           <=> user[v] = [target |-> e, through |-> "execute"])
  BY DEF RegistryInv, Uses, NotUsing
<1> HIDE DEF old
<1>6. user' \in [Users -> {NotUsing} \cup Uses] /\ Executing(d, user') = {}
  BY <1>1, <1>5 DEF Executing
<1>7. \A e \in Targets : e # d => Executing(e, user') = Executing(e, user)
  BY <1>1, <1>5 DEF Executing
<1>8. IsFiniteSet(Executing(d, user')) /\ Cardinality(Executing(d, user')) = 0
  BY <1>6, FS_EmptySet
<1>9. known' \subseteq Targets
  BY <1>1 DEF RegistryInv
<1>10. QED
  BY <1>1, <1>2, <1>3, <1>4, <1>6, <1>7, <1>8, <1>9, OneTargetMoves

LEMMA LooksKeep ==
    ASSUME RegistryInv, (\E u \in Users : Written(u)) \/ GetHealthStatus \/ TimePasses
    PROVE  RegistryInv'
<1>1. ASSUME NEW u \in Users, Written(u)
      PROVE  RegistryInv'
  <2>1. /\ user[u].through = "again" /\ user' = [user EXCEPT ![u] = NotUsing]
        /\ UNCHANGED <<known, breakers, noted, uncounted>>
    BY <1>1 DEF Written
  <2>2. user \in [Users -> {NotUsing} \cup Uses]
    BY DEF RegistryInv
  <2>3. \A e \in Targets : u \notin Executing(e, user) /\ NotUsing # [target |-> e, through |-> "execute"]
    BY <2>1 DEF Executing, NotUsing
  <2>4. ASSUME NEW e \in Targets
        PROVE  Executing(e, user') = Executing(e, user)
    <3>1. u \notin Executing(e, user) /\ NotUsing # [target |-> e, through |-> "execute"]
      BY <2>3
    <3>2. Executing(e, user') = Executing(e, user) \ {u}
      BY <2>1, <2>2, <3>1, ExecutingMoves
    <3>3. QED
      BY <3>1, <3>2
  <2>5. user' \in [Users -> {NotUsing} \cup Uses]
    BY <2>1, <2>2
  <2>6. QED
    BY <2>1, <2>4, <2>5 DEF RegistryInv
<1>2. CASE GetHealthStatus
  <2>1. /\ breakers' = [d \in Targets |-> CheckStateTransition(breakers[d])]
        /\ noted' = [d \in Targets |-> Seen(noted[d], breakers[d], CheckStateTransition(breakers[d]))]
        /\ UNCHANGED <<known, user, uncounted>>
    BY <1>2 DEF GetHealthStatus
  <2>2. ASSUME NEW d \in Targets
        PROVE  /\ breakers'[d] \in Snapshots /\ WellFormed(breakers'[d]) /\ noted'[d] \in Notes
               /\ Tells(noted'[d], breakers'[d].state)
               /\ Accounts(noted'[d], uncounted[d], Cardinality(Executing(d, user)))
    <3> DEFINE b == CheckStateTransition(breakers[d])
               m == Seen(noted[d], breakers[d], b)
    <3>1. breakers'[d] = b /\ noted'[d] = m
      BY <2>1
    <3>2. /\ WellFormed(b) /\ m \in Notes /\ Tells(m, b.state) /\ m.calls = noted[d].calls
          /\ m.successes = noted[d].successes /\ m.failures = noted[d].failures
          /\ m.rejections = noted[d].rejections
      BY SeenTells DEF RegistryInv
    <3> HIDE DEF b, m
    <3>3. Accounts(m, uncounted[d], Cardinality(Executing(d, user)))
      BY <3>2 DEF RegistryInv, Accounts
    <3>4. QED
      BY <3>1, <3>2, <3>3 DEF WellFormed
  <2>3. breakers' \in [Targets -> Snapshots] /\ noted' \in [Targets -> Notes]
    BY <2>1, <2>2
  <2>4. QED
    BY <2>1, <2>2, <2>3 DEF RegistryInv
<1>3. CASE TimePasses
  <2>1. /\ breakers' = [d \in Targets |-> IF d \in known THEN Aged(breakers[d]) ELSE breakers[d]]
        /\ UNCHANGED <<known, noted, user, uncounted>>
    BY <1>3 DEF TimePasses
  <2>2. ASSUME NEW d \in Targets
        PROVE  /\ breakers'[d] \in Snapshots /\ WellFormed(breakers'[d])
               /\ breakers'[d].state = breakers[d].state
    <3>1. WellFormed(breakers[d]) /\ breakers[d] \in Snapshots
      BY DEF RegistryInv
    <3>2. WellFormed(Aged(breakers[d])) /\ Aged(breakers[d]).state = breakers[d].state
      BY <3>1, AgedWellFormed DEF Aged, Snapshots
    <3>3. QED
      BY <2>1, <3>1, <3>2 DEF WellFormed
  <2>3. breakers' \in [Targets -> Snapshots]
    BY <2>1, <2>2
  <2>4. QED
    BY <2>1, <2>2, <2>3 DEF RegistryInv
<1>4. QED
  BY <1>1, <1>2, <1>3

(***************************************************************************)
(* For any destinations and users, however executions, results, resets and *)
(* looks at the breakers interleave: the transitions that are counted tell *)
(* the state of a breaker, and every counted call is under way, refused or *)
(* among the results.                                                      *)
(***************************************************************************)
THEOREM MetricsStayTrue == RegistrySpec => []MetricsTellTheBreaker
<1>1. RegistryInv /\ [RegistryNext]_registryVars => RegistryInv'
  <2> SUFFICES ASSUME RegistryInv, [RegistryNext]_registryVars PROVE RegistryInv'
    OBVIOUS
  <2>1. CASE UNCHANGED registryVars
    BY <2>1 DEF registryVars, RegistryInv
  <2>2. CASE RegistryNext
    BY <2>2, BeginKeeps, SettlesKeeps, ResetBreakerKeeps, LooksKeep DEF RegistryNext
  <2>3. QED
    BY <2>1, <2>2
<1>2. RegistryInv => MetricsTellTheBreaker
  <2> SUFFICES ASSUME RegistryInv PROVE MetricsTellTheBreaker
    OBVIOUS
  <2>1. TransitionsTellState
    <3> SUFFICES ASSUME NEW d \in known
                 PROVE  /\ noted[d].OPEN = noted[d].HALF_OPEN + (IF breakers[d].state = "OPEN" THEN 1 ELSE 0)
                        /\ noted[d].CLOSED <= noted[d].HALF_OPEN + 1
      BY DEF TransitionsTellState
    <3>1. d \in Targets
      BY DEF RegistryInv
    <3>2. noted[d] \in Notes /\ Tells(noted[d], breakers[d].state)
      BY <3>1 DEF RegistryInv
    <3>3. QED
      BY <3>2 DEF Tells, Notes
  <2>2. CallsAreAccountedFor
    BY DEF RegistryInv, CallsAreAccountedFor, Accounts, Executing
  <2>3. QED
    BY <2>1, <2>2 DEF MetricsTellTheBreaker
<1>3. QED
  BY <1>1, <1>2, RegistryInvInit, PTL DEF RegistrySpec

-----------------------------------------------------------------------------
(* Classifiers and Retrying *)

(***************************************************************************)
(* For every failure with an error status, the webhook connector and       *)
(* ErrorClassifier agree on whether it is permanent.                       *)
(***************************************************************************)
THEOREM JudgesAgree == \A f \in Failures : ConnectorAndClassifierAgree(f)
<1> SUFFICES ASSUME NEW f \in Failures, f.status >= 400
             PROVE  WebhookPermanent(f) <=> ~ClassifierRetries(f)
  BY DEF ConnectorAndClassifierAgree
<1>1. f.status \in 400..599 /\ f.status # 0
  BY DEF Failures
<1>2. WebhookPermanent(f) <=> f.status \in 400..499 /\ f.status \notin {408, 429}
  BY <1>1 DEF WebhookPermanent, WebhookStatus, PermanentFailure, IsClientError
<1>3. CASE f.status \in {408, 429} \/ f.status >= 500
  <2>1. Category(f) \in {"TIMEOUT", "TRANSIENT"}
    BY <1>1, <1>3 DEF Category, IsClientError
  <2>2. QED
    BY <1>1, <1>2, <1>3, <2>1 DEF ClassifierRetries
<1>4. CASE f.status \in 400..499 /\ f.status \notin {408, 429}
  <2>1. Category(f) \in {"VALIDATION", "PERMANENT"}
    BY <1>1, <1>4 DEF Category, IsClientError
  <2>2. QED
    BY <1>2, <1>4, <2>1 DEF ClassifierRetries
<1>5. QED
  BY <1>1, <1>3, <1>4

(***************************************************************************)
(* ErrorClassifier gives up no failure that the guard or the domain error  *)
(* would retry.                                                            *)
(***************************************************************************)
THEOREM ClassifierGivesUpLast == \A f \in Failures : ClassifierIsGenerous(f)
<1> SUFFICES ASSUME NEW f \in Failures, GuardRetries(f) \/ DeliveryErrorRetries(f)
             PROVE  ClassifierRetries(f)
  BY DEF ClassifierIsGenerous
<1>1. /\ f.status \in {0} \cup 300..599 /\ f.word \in Words
  BY DEF Failures
<1>2. CASE f.status \in {408, 429} \/ f.status >= 500
  <2>1. Category(f) \in {"TIMEOUT", "TRANSIENT"}
    BY <1>1, <1>2 DEF Category, IsClientError
  <2>2. QED
    BY <2>1 DEF ClassifierRetries
<1>3. CASE f.status \in 300..499 /\ f.status \notin {408, 429}
  <2>1. ~GuardRetries(f)
    BY <1>3 DEF GuardRetries
  <2>2. DeliveryErrorCategory(f) \in {"PERMANENT", "UNKNOWN"}
    <3>1. f.status \notin {408, 429} /\ ~IsServerError(f.status) /\ f.status # 0
      BY <1>3, SMTT(30) DEF IsServerError
    <3>2. ASSUME PermanentFailure(f.status) PROVE DeliveryErrorCategory(f) = "PERMANENT"
      BY <3>1, <3>2, ZenonT(30) DEF DeliveryErrorCategory
    <3>3. ASSUME ~PermanentFailure(f.status) PROVE DeliveryErrorCategory(f) = "UNKNOWN"
      BY <3>1, <3>3, ZenonT(30) DEF DeliveryErrorCategory
    <3>4. QED
      BY <3>2, <3>3
  <2>3. QED
    BY <2>1, <2>2 DEF DeliveryErrorRetries
<1>4. CASE f.status = 0
  <2>1. f.word \in {"refused", "reset", "timeout"}
    BY <1>4 DEF GuardRetries, DeliveryErrorRetries, DeliveryErrorCategory,
                PermanentFailure, IsClientError, IsServerError
  <2>2. Category(f) \in {"NETWORK", "TIMEOUT"}
    BY <1>4, <2>1 DEF Category, IsClientError
  <2>3. QED
    BY <2>2 DEF ClassifierRetries
<1>5. QED
  BY <1>1, <1>2, <1>3, <1>4

(***************************************************************************)
(* Whatever its words, a failure without an answer costs an attempt and    *)
(* never the delivery.                                                     *)
(***************************************************************************)
THEOREM OutagesAreTransient == \A f \in Failures : UnansweredIsTransient(f)
  BY DEF UnansweredIsTransient, WebhookPermanent, WebhookStatus, DatabasePermanent,
         QueueStatus, PermanentFailure, IsClientError, IsServerError, StatusRetryable

-----------------------------------------------------------------------------
(* RetryExecutor *)

\* A call that has begun.  Nothing is said of its timer and of its delay.
Begun(r) ==
    /\ DOMAIN r = {"at", "attempt", "elapsed", "timer", "waited", "timeouts", "last"}
    /\ r.at \in {"calling", "sleeping", "returned", "thrown"} /\ r.attempt \in 1..MaxAttempts
    /\ r.elapsed \in Nat /\ r.timeouts \in Nat /\ r.last \subseteq Failures

Reason(r) ==
    \/ \E failure \in r.last : ~IsTransient(failure)
    \/ r.attempt = MaxAttempts
    \/ ~(Timeout = 0 \/ r.elapsed < Timeout)

(***************************************************************************)
(* A call r and the operations o of it that have not settled.  Asleep, all *)
(* of them are orphans, the last one included if its timer ended it; so    *)
(* the next attempt adds none.                                             *)
(***************************************************************************)
Fits(r, o) ==
    /\ o \subseteq 1..MaxAttempts
    /\ r = NoCall \/ Begun(r)
    /\ r.at \in {"calling", "returned"} => Cardinality(o \ {r.attempt}) <= r.timeouts
    /\ r.at = "sleeping" => r.attempt < MaxAttempts /\ Cardinality(o) <= r.timeouts
    /\ r.at = "thrown" => Reason(r)

Awaiting(cs) == {c \in Callers : cs[c].at = "calling"}
Thrown(cs) == {c \in Callers : cs[c].at = "thrown"}
Awaits(r) == IF r.at = "calling" THEN 1 ELSE 0
Threw(r) == IF r.at = "thrown" THEN 1 ELSE 0

(***************************************************************************)
(* The inductive invariant.                                                *)
(***************************************************************************)
RetryInv ==
    /\ call = [c \in Callers |-> call[c]] /\ running = [c \in Callers |-> running[c]]
    /\ metrics \in [Counters -> Nat]
    /\ \A c \in Callers : Fits(call[c], running[c])
    /\ IsFiniteSet(Awaiting(call)) /\ IsFiniteSet(Thrown(call))
    /\ metrics["total"] = metrics["successful"] + metrics["failed"] + Cardinality(Awaiting(call))
    /\ metrics["successful"] = metrics["first"] + metrics["retried"]
    /\ metrics["exceeded"] = Cardinality(Thrown(call))

\* Sets that differ in one element at most.
LEMMA SetMoves ==
    ASSUME NEW S, NEW T, NEW c, IsFiniteSet(S), \A x : x # c => (x \in S <=> x \in T)
    PROVE  /\ IsFiniteSet(T) /\ Cardinality(S) \in Nat /\ Cardinality(T) \in Nat
           /\ Cardinality(T) + (IF c \in S THEN 1 ELSE 0) = Cardinality(S) + (IF c \in T THEN 1 ELSE 0)
<1>1. Cardinality(S) \in Nat
  BY FS_CardinalityType
<1>2. CASE c \in T
  <2>1. T = S \cup {c}
    BY <1>2
  <2>2. /\ IsFiniteSet(S \cup {c})
        /\ Cardinality(S \cup {c}) = IF c \in S THEN Cardinality(S) ELSE Cardinality(S) + 1
    BY FS_AddElement
  <2>3. QED
    BY <1>1, <1>2, <2>1, <2>2, FS_CardinalityType
<1>3. CASE c \notin T
  <2>1. T = S \ {c}
    BY <1>3
  <2>2. /\ IsFiniteSet(S \ {c})
        /\ Cardinality(S \ {c}) = IF c \in S THEN Cardinality(S) - 1 ELSE Cardinality(S)
    BY FS_RemoveElement
  <2>3. Cardinality(S \ {c}) \in Nat
    BY <2>2, FS_CardinalityType
  <2>4. QED
    BY <1>1, <1>3, <2>1, <2>2, <2>3
<1>4. QED
  BY <1>2, <1>3

\* What there is to show of a step of one caller.
LEMMA CallerMoves ==
    ASSUME RetryInv, NEW c \in Callers, NEW r, NEW o,
           call' = [call EXCEPT ![c] = r], running' = [running EXCEPT ![c] = o], Fits(r, o),
           metrics' \in [Counters -> Nat],
           metrics'["total"] + metrics["successful"] + metrics["failed"] + Awaits(call[c])
             = metrics["total"] + metrics'["successful"] + metrics'["failed"] + Awaits(r),
           metrics'["successful"] + metrics["first"] + metrics["retried"]
             = metrics["successful"] + metrics'["first"] + metrics'["retried"],
           metrics'["exceeded"] + Threw(call[c]) = metrics["exceeded"] + Threw(r)
    PROVE  RetryInv'
<1>1. /\ call = [d \in Callers |-> call[d]] /\ running = [d \in Callers |-> running[d]]
      /\ metrics \in [Counters -> Nat] /\ IsFiniteSet(Awaiting(call)) /\ IsFiniteSet(Thrown(call))
  BY DEF RetryInv
<1>2. /\ call' = [d \in Callers |-> call'[d]] /\ running' = [d \in Callers |-> running'[d]]
      /\ \A d \in Callers : /\ call'[d] = IF d = c THEN r ELSE call[d]
                            /\ running'[d] = IF d = c THEN o ELSE running[d]
  BY <1>1
<1>3. \A d \in Callers : Fits(call'[d], running'[d])
  BY <1>2 DEF RetryInv
<1> DEFINE n == Cardinality(Awaiting(call))
           n2 == Cardinality(Awaiting(call'))
           t == Cardinality(Thrown(call))
           t2 == Cardinality(Thrown(call'))
<1>4. IsFiniteSet(Awaiting(call')) /\ n \in Nat /\ n2 \in Nat /\ n2 + Awaits(call[c]) = n + Awaits(r)
  <2> DEFINE S == Awaiting(call)
             T == Awaiting(call')
  <2>1. /\ \A x : x # c => (x \in S <=> x \in T)
        /\ c \in S <=> call[c].at = "calling"
        /\ c \in T <=> r.at = "calling"
    BY <1>2 DEF Awaiting
  <2>5. IsFiniteSet(S)
    BY <1>1
  <2> HIDE DEF S, T
  <2>2. /\ IsFiniteSet(T) /\ Cardinality(S) \in Nat /\ Cardinality(T) \in Nat
        /\ Cardinality(T) + (IF c \in S THEN 1 ELSE 0) = Cardinality(S) + (IF c \in T THEN 1 ELSE 0)
    BY <2>1, <2>5, SetMoves
  <2>3. /\ Awaits(call[c]) = IF c \in S THEN 1 ELSE 0
        /\ Awaits(r) = IF c \in T THEN 1 ELSE 0
    BY <2>1 DEF Awaits
  <2>4. Cardinality(T) + Awaits(call[c]) = Cardinality(S) + Awaits(r)
    BY <2>2, <2>3
  <2>6. QED
    BY <2>2, <2>4 DEF S, T
<1>5. IsFiniteSet(Thrown(call')) /\ t \in Nat /\ t2 \in Nat /\ t2 + Threw(call[c]) = t + Threw(r)
  <2> DEFINE S == Thrown(call)
             T == Thrown(call')
  <2>1. /\ \A x : x # c => (x \in S <=> x \in T)
        /\ c \in S <=> call[c].at = "thrown"
        /\ c \in T <=> r.at = "thrown"
    BY <1>2 DEF Thrown
  <2>5. IsFiniteSet(S)
    BY <1>1
  <2> HIDE DEF S, T
  <2>2. /\ IsFiniteSet(T) /\ Cardinality(S) \in Nat /\ Cardinality(T) \in Nat
        /\ Cardinality(T) + (IF c \in S THEN 1 ELSE 0) = Cardinality(S) + (IF c \in T THEN 1 ELSE 0)
    BY <2>1, <2>5, SetMoves
  <2>3. /\ Threw(call[c]) = IF c \in S THEN 1 ELSE 0
        /\ Threw(r) = IF c \in T THEN 1 ELSE 0
    BY <2>1 DEF Threw
  <2>4. Cardinality(T) + Threw(call[c]) = Cardinality(S) + Threw(r)
    BY <2>2, <2>3
  <2>6. QED
    BY <2>2, <2>4 DEF S, T
<1>6. /\ metrics["total"] = metrics["successful"] + metrics["failed"] + n
      /\ metrics["successful"] = metrics["first"] + metrics["retried"]
      /\ metrics["exceeded"] = t
  BY DEF RetryInv
<1> HIDE DEF n, n2, t, t2
<1>7. /\ metrics["total"] \in Nat /\ metrics'["total"] \in Nat
      /\ metrics["successful"] \in Nat /\ metrics'["successful"] \in Nat
      /\ metrics["failed"] \in Nat /\ metrics'["failed"] \in Nat
      /\ metrics["first"] \in Nat /\ metrics'["first"] \in Nat
      /\ metrics["retried"] \in Nat /\ metrics'["retried"] \in Nat
      /\ metrics["exceeded"] \in Nat /\ metrics'["exceeded"] \in Nat
  BY <1>1 DEF Counters
<1>12. Awaits(call[c]) \in Nat /\ Awaits(r) \in Nat /\ Threw(call[c]) \in Nat /\ Threw(r) \in Nat
  BY DEF Awaits, Threw
<1>8. metrics'["total"] = metrics'["successful"] + metrics'["failed"] + n2
  BY <1>4, <1>6, <1>7, <1>12
<1>9. metrics'["successful"] = metrics'["first"] + metrics'["retried"]
  BY <1>6, <1>7
<1>10. metrics'["exceeded"] = t2
  <2> DEFINE a == Threw(call[c])
             b == Threw(r)
             e == metrics["exceeded"]
             f == metrics'["exceeded"]
  <2>1. /\ a \in Nat /\ b \in Nat /\ e \in Nat /\ f \in Nat /\ t \in Nat /\ t2 \in Nat
        /\ t2 + a = t + b /\ f + a = e + b /\ e = t
    BY <1>5, <1>6, <1>7, <1>12
  <2> HIDE DEF a, b, e, f
  <2>2. f = t2
    BY <2>1
  <2>3. QED
    BY <2>2 DEF f
<1>11. QED
  BY <1>2, <1>3, <1>4, <1>5, <1>8, <1>9, <1>10 DEF RetryInv, n2, t2

LEMMA RetryInvInit == RetryInit => RetryInv
<1> SUFFICES ASSUME RetryInit PROVE RetryInv
  OBVIOUS
<1>1. /\ call = [c \in Callers |-> call[c]] /\ running = [c \in Callers |-> running[c]]
      /\ \A c \in Callers : call[c] = NoCall /\ call[c].at = "idle" /\ running[c] = {}
  BY DEF RetryInit, NoCall
<1>2. \A c \in Callers : Fits(call[c], running[c])
  BY <1>1 DEF Fits
<1>3. Awaiting(call) = {} /\ Thrown(call) = {}
  BY <1>1 DEF Awaiting, Thrown
<1>4. IsFiniteSet({}) /\ Cardinality({}) = 0
  BY FS_EmptySet
<1>5. metrics \in [Counters -> Nat] /\ \A k \in Counters : metrics[k] = 0
  BY DEF RetryInit
<1>6. /\ metrics["total"] = 0 /\ metrics["successful"] = 0 /\ metrics["failed"] = 0
      /\ metrics["first"] = 0 /\ metrics["retried"] = 0 /\ metrics["exceeded"] = 0
  BY <1>5 DEF Counters
<1>7. /\ metrics["total"] = metrics["successful"] + metrics["failed"] + Cardinality(Awaiting(call))
      /\ metrics["successful"] = metrics["first"] + metrics["retried"]
      /\ metrics["exceeded"] = Cardinality(Thrown(call))
  BY <1>3, <1>4, <1>6
<1>8. QED
  BY <1>1, <1>2, <1>3, <1>4, <1>5, <1>7 DEF RetryInv

\* What is counted, and that nothing else is.
LEMMA CountsMove ==
    ASSUME RetryInv, NEW ks, metrics' = Counted(ks)
    PROVE  /\ metrics \in [Counters -> Nat] /\ metrics' \in [Counters -> Nat]
           /\ \A k \in Counters : metrics'[k] = IF k \in ks THEN metrics[k] + 1 ELSE metrics[k]
  BY DEF RetryInv, Counted

\* The unsettled operations of a caller are few, so they can be counted.
LEMMA OperationsCount ==
    ASSUME NEW S, S \subseteq 1..MaxAttempts, NEW T, T \subseteq S
    PROVE  /\ IsFiniteSet(S) /\ Cardinality(S) \in Nat /\ Cardinality(T) \in Nat
           /\ Cardinality(T) <= Cardinality(S)
<1>1. IsFiniteSet(1..MaxAttempts)
  BY FS_Interval, RetryAssumption
<1>2. IsFiniteSet(S)
  BY <1>1, FS_Subset
<1>3. IsFiniteSet(T) /\ Cardinality(T) <= Cardinality(S)
  BY <1>2, FS_Subset
<1>4. QED
  BY <1>2, <1>3, FS_CardinalityType

\* A call that is not idle has begun.
LEMMA CallHasBegun ==
    ASSUME RetryInv, NEW c \in Callers, call[c] # NoCall \/ call[c].at # "idle"
    PROVE  Begun(call[c])
<1>1. call[c] = NoCall \/ Begun(call[c])
  BY DEF RetryInv, Fits
<1>2. NoCall.at = "idle"
  BY DEF NoCall
<1>3. QED
  BY <1>1, <1>2

LEMMA ExecuteKeeps ==
    ASSUME RetryInv, NEW c \in Callers, Execute(c)
    PROVE  RetryInv'
<1> DEFINE r == [at |-> "calling", attempt |-> 1, elapsed |-> 0,
                 timer |-> OpTimeout, waited |-> 0, timeouts |-> 0, last |-> {}]
<1>1. /\ call' = [call EXCEPT ![c] = r] /\ running' = [running EXCEPT ![c] = {1}]
      /\ metrics' = Counted({"total"}) /\ call[c].at = "idle" /\ r.at = "calling"
  BY DEF Execute, NoCall
<1>2. Cardinality({1} \ {1}) = 0
  <2>1. {1} \ {1} = {}
    OBVIOUS
  <2>2. QED
    BY <2>1, FS_EmptySet
<1>3. Fits(r, {1})
  BY <1>2, RetryAssumption DEF Fits, Begun
<1> HIDE DEF r
<1>4. Awaits(call[c]) = 0 /\ Awaits(r) = 1 /\ Threw(call[c]) = 0 /\ Threw(r) = 0
  BY <1>1 DEF Awaits, Threw
<1>5. /\ metrics \in [Counters -> Nat] /\ metrics' \in [Counters -> Nat]
      /\ \A k \in Counters : metrics'[k] = IF k \in {"total"} THEN metrics[k] + 1 ELSE metrics[k]
  BY <1>1, CountsMove
<1>6. /\ metrics'["total"] + metrics["successful"] + metrics["failed"] + Awaits(call[c])
           = metrics["total"] + metrics'["successful"] + metrics'["failed"] + Awaits(r)
      /\ metrics'["successful"] + metrics["first"] + metrics["retried"]
           = metrics["successful"] + metrics'["first"] + metrics'["retried"]
      /\ metrics'["exceeded"] + Threw(call[c]) = metrics["exceeded"] + Threw(r)
  BY <1>4, <1>5 DEF Counters
<1>7. QED
  BY <1>1, <1>3, <1>5, <1>6, CallerMoves

\* A call whose operation was abandoned hears nothing when it settles.
LEMMA UnheardKeeps ==
    ASSUME RetryInv, NEW c \in Callers, NEW attempt,
           running' = [running EXCEPT ![c] = running[c] \ {attempt}], UNCHANGED <<call, metrics>>
    PROVE  RetryInv'
<1> DEFINE r == call[c]
           o == running[c]
           o2 == running[c] \ {attempt}
<1>1. Fits(r, o) /\ metrics \in [Counters -> Nat]
  BY DEF RetryInv
<1>2. call' = [call EXCEPT ![c] = r]
  BY DEF RetryInv
<1>3. o \subseteq 1..MaxAttempts /\ o2 \subseteq o
  BY <1>1 DEF Fits
<1> HIDE DEF o, o2, r
<1>4. o \ {r.attempt} \subseteq 1..MaxAttempts /\ o2 \ {r.attempt} \subseteq o \ {r.attempt}
  BY <1>3
<1>5. /\ Cardinality(o2) \in Nat /\ Cardinality(o) \in Nat /\ Cardinality(o2) <= Cardinality(o)
  BY <1>3, OperationsCount
<1>6. /\ Cardinality(o2 \ {r.attempt}) \in Nat /\ Cardinality(o \ {r.attempt}) \in Nat
      /\ Cardinality(o2 \ {r.attempt}) <= Cardinality(o \ {r.attempt})
  BY <1>4, OperationsCount
<1>7. r = NoCall \/ r.timeouts \in Nat
  BY <1>1 DEF Fits, Begun
<1>8. r = NoCall => r.at = "idle"
  BY DEF NoCall
<1>9. Fits(r, o2)
  <2>1. r.at \in {"calling", "returned"} => Cardinality(o2 \ {r.attempt}) <= r.timeouts
    BY <1>1, <1>6, <1>7, <1>8 DEF Fits
  <2>2. r.at = "sleeping" => r.attempt < MaxAttempts /\ Cardinality(o2) <= r.timeouts
    BY <1>1, <1>5, <1>7, <1>8 DEF Fits
  <2>3. QED
    BY <1>1, <1>3, <2>1, <2>2 DEF Fits
<1>10. /\ metrics' = metrics /\ metrics["total"] \in Nat /\ metrics["successful"] \in Nat
       /\ metrics["failed"] \in Nat /\ metrics["first"] \in Nat /\ metrics["retried"] \in Nat
       /\ metrics["exceeded"] \in Nat
  BY <1>1 DEF Counters
<1>11. running' = [running EXCEPT ![c] = o2]
  BY DEF o2
<1>12. metrics' \in [Counters -> Nat] /\ r = call[c]
  BY <1>1, <1>10 DEF r
<1>13. QED
  BY <1>2, <1>9, <1>10, <1>11, <1>12, CallerMoves

LEMMA ResolveKeeps ==
    ASSUME RetryInv, NEW c \in Callers, NEW attempt \in 1..MaxAttempts, Resolve(c, attempt)
    PROVE  RetryInv'
<1> DEFINE r == [call[c] EXCEPT !.at = "returned"]
           o == running[c] \ {attempt}
           ks == {"successful", IF attempt = 1 THEN "first" ELSE "retried"}
<1>1. CASE ~Awaited(c, attempt)
  BY <1>1, UnheardKeeps DEF Resolve
<1>2. CASE Awaited(c, attempt)
  <2>1. /\ call' = [call EXCEPT ![c] = r] /\ running' = [running EXCEPT ![c] = o]
        /\ metrics' = Counted(ks) /\ call[c].at = "calling" /\ call[c].attempt = attempt
    BY <1>2 DEF Resolve, Awaited
  <2>2. Begun(call[c]) /\ Fits(call[c], running[c])
    BY <2>1, CallHasBegun DEF RetryInv
  <2>3. /\ r.at = "returned" /\ r.attempt = attempt /\ r.timeouts = call[c].timeouts
        /\ Begun(r)
    BY <2>1, <2>2 DEF Begun
  <2>4. /\ Cardinality(o) <= call[c].timeouts /\ o \ {attempt} = o /\ o \subseteq 1..MaxAttempts
    BY <2>1, <2>2 DEF Fits
  <2> HIDE DEF r, o
  <2>5. Fits(r, o)
    BY <2>3, <2>4 DEF Fits
  <2>6. Awaits(call[c]) = 1 /\ Awaits(r) = 0 /\ Threw(call[c]) = 0 /\ Threw(r) = 0
    BY <2>1, <2>3 DEF Awaits, Threw
  <2>7. /\ metrics \in [Counters -> Nat] /\ metrics' \in [Counters -> Nat]
        /\ \A k \in Counters : metrics'[k] = IF k \in ks THEN metrics[k] + 1 ELSE metrics[k]
    BY <2>1, CountsMove
  <2>8. /\ metrics'["total"] + metrics["successful"] + metrics["failed"] + Awaits(call[c])
             = metrics["total"] + metrics'["successful"] + metrics'["failed"] + Awaits(r)
        /\ metrics'["successful"] + metrics["first"] + metrics["retried"]
             = metrics["successful"] + metrics'["first"] + metrics'["retried"]
        /\ metrics'["exceeded"] + Threw(call[c]) = metrics["exceeded"] + Threw(r)
    BY <2>6, <2>7 DEF Counters
  <2>9. QED
    BY <2>1, <2>5, <2>7, <2>8, CallerMoves
<1>3. QED
  BY <1>1, <1>2

(***************************************************************************)
(* The catch block, whoever runs it: o is what is left of the operations,  *)
(* and its size is what the timeouts allow once this one is counted.       *)
(***************************************************************************)
LEMMA CatchKeeps ==
    ASSUME RetryInv, NEW c \in Callers, NEW failure \in Failures, NEW o,
           call[c].at = "calling", Catch(c, failure),
           running' = [running EXCEPT ![c] = o], o \subseteq 1..MaxAttempts,
           Cardinality(o) <= IF c \in Guarded /\ failure = TimedOut THEN call[c].timeouts + 1
                                                                    ELSE call[c].timeouts
    PROVE  RetryInv'
<1>1. Begun(call[c])
  BY CallHasBegun
<1>2. CASE /\ ShouldRetry(c, failure) /\ TimeRemains(c)
           /\ \E delay \in NextDelay(call[c].attempt) : Sleep(c, failure, delay)
           /\ metrics' = Counted({"failed"})
  <2>1. PICK delay \in NextDelay(call[c].attempt) : Sleep(c, failure, delay)
    BY <1>2
  <2> DEFINE r == [call[c] EXCEPT !.at = "sleeping", !.last = {failure},
                     !.timer = delay, !.waited = delay,
                     !.timeouts = IF c \in Guarded /\ failure = TimedOut THEN @ + 1 ELSE @]
  <2>2. call' = [call EXCEPT ![c] = r]
    BY <2>1 DEF Sleep
  <2>3. /\ r.at = "sleeping" /\ r.attempt = call[c].attempt /\ Begun(r)
        /\ r.timeouts = IF c \in Guarded /\ failure = TimedOut THEN call[c].timeouts + 1
                                                               ELSE call[c].timeouts
    BY <1>1 DEF Begun
  <2> HIDE DEF r
  <2>4. Fits(r, o)
    BY <1>2, <2>3 DEF Fits, ShouldRetry
  <2>5. Awaits(call[c]) = 1 /\ Awaits(r) = 0 /\ Threw(call[c]) = 0 /\ Threw(r) = 0
    BY <2>3 DEF Awaits, Threw
  <2>6. /\ metrics \in [Counters -> Nat] /\ metrics' \in [Counters -> Nat]
        /\ \A k \in Counters : metrics'[k] = IF k \in {"failed"} THEN metrics[k] + 1 ELSE metrics[k]
    BY <1>2, CountsMove
  <2>7. /\ metrics'["total"] + metrics["successful"] + metrics["failed"] + Awaits(call[c])
             = metrics["total"] + metrics'["successful"] + metrics'["failed"] + Awaits(r)
        /\ metrics'["successful"] + metrics["first"] + metrics["retried"]
             = metrics["successful"] + metrics'["first"] + metrics'["retried"]
        /\ metrics'["exceeded"] + Threw(call[c]) = metrics["exceeded"] + Threw(r)
    BY <2>5, <2>6 DEF Counters
  <2>8. QED
    BY <2>2, <2>4, <2>6, <2>7, CallerMoves
<1>3. CASE /\ ~(ShouldRetry(c, failure) /\ TimeRemains(c))
           /\ call' = [call EXCEPT ![c] = [call[c] EXCEPT !.at = "thrown", !.last = {failure}]]
           /\ metrics' = Counted({"failed", "exceeded"})
  <2> DEFINE r == [call[c] EXCEPT !.at = "thrown", !.last = {failure}]
  <2>1. call' = [call EXCEPT ![c] = r]
    BY <1>3
  <2>2. /\ r.at = "thrown" /\ r.attempt = call[c].attempt /\ r.elapsed = call[c].elapsed
        /\ r.last = {failure} /\ Begun(r) /\ r.attempt \in 1..MaxAttempts
    BY <1>1 DEF Begun
  <2> HIDE DEF r
  <2>3. Reason(r)
    <3>1. CASE ~IsTransient(failure)
      BY <2>2, <3>1 DEF Reason
    <3>2. CASE ~(call[c].attempt < MaxAttempts)
      BY <2>2, <3>2, RetryAssumption DEF Reason
    <3>3. CASE ~TimeRemains(c)
      BY <2>2, <3>3 DEF Reason, TimeRemains
    <3>4. QED
      BY <1>3, <3>1, <3>2, <3>3 DEF ShouldRetry
  <2>4. Fits(r, o)
    BY <2>2, <2>3 DEF Fits
  <2>5. Awaits(call[c]) = 1 /\ Awaits(r) = 0 /\ Threw(call[c]) = 0 /\ Threw(r) = 1
    BY <2>2 DEF Awaits, Threw
  <2>6. /\ metrics \in [Counters -> Nat] /\ metrics' \in [Counters -> Nat]
        /\ \A k \in Counters :
             metrics'[k] = IF k \in {"failed", "exceeded"} THEN metrics[k] + 1 ELSE metrics[k]
    BY <1>3, CountsMove
  <2>7. /\ metrics'["total"] + metrics["successful"] + metrics["failed"] + Awaits(call[c])
             = metrics["total"] + metrics'["successful"] + metrics'["failed"] + Awaits(r)
        /\ metrics'["successful"] + metrics["first"] + metrics["retried"]
             = metrics["successful"] + metrics'["first"] + metrics'["retried"]
        /\ metrics'["exceeded"] + Threw(call[c]) = metrics["exceeded"] + Threw(r)
    BY <2>5, <2>6 DEF Counters
  <2>8. QED
    BY <2>1, <2>4, <2>6, <2>7, CallerMoves
<1>4. QED
  BY <1>2, <1>3 DEF Catch

LEMMA RejectKeeps ==
    ASSUME RetryInv, NEW c \in Callers, NEW attempt \in 1..MaxAttempts, NEW failure \in Errors,
           Reject(c, attempt, failure)
    PROVE  RetryInv'
<1>1. CASE ~Awaited(c, attempt)
  BY <1>1, UnheardKeeps DEF Reject
<1>2. CASE Awaited(c, attempt)
  <2> DEFINE o == running[c] \ {attempt}
  <2>1. /\ running' = [running EXCEPT ![c] = o] /\ Catch(c, failure) /\ failure \in Failures
        /\ call[c].at = "calling" /\ call[c].attempt = attempt
    BY <1>2, RetryAssumption DEF Reject, Awaited
  <2>2. Begun(call[c]) /\ Fits(call[c], running[c])
    BY <2>1, CallHasBegun DEF RetryInv
  <2>3. o \subseteq 1..MaxAttempts /\ Cardinality(o) <= call[c].timeouts /\ call[c].timeouts \in Nat
    BY <2>1, <2>2 DEF Fits, Begun
  <2>4. Cardinality(o) \in Nat
    BY <2>3, OperationsCount
  <2> HIDE DEF o
  <2>5. Cardinality(o) <= IF c \in Guarded /\ failure = TimedOut THEN call[c].timeouts + 1
                                                                 ELSE call[c].timeouts
    BY <2>3, <2>4
  <2>6. QED
    BY <2>1, <2>3, <2>5, CatchKeeps
<1>3. QED
  BY <1>1, <1>2

LEMMA TimedOutIsAFailure == TimedOut \in Failures
  BY DEF TimedOut, Failures, Words

LEMMA TimerKeeps ==
    ASSUME RetryInv, NEW c \in Callers, TimerFires(c)
    PROVE  RetryInv'
<1> DEFINE o == running[c]
           a == call[c].attempt
<1>1. /\ call[c].at = "calling" /\ Catch(c, TimedOut) /\ c \in Guarded
      /\ running' = [running EXCEPT ![c] = o]
  BY DEF TimerFires, RetryInv
<1>2. Begun(call[c]) /\ Fits(call[c], running[c])
  BY <1>1, CallHasBegun DEF RetryInv
<1>3. o \subseteq 1..MaxAttempts /\ Cardinality(o \ {a}) <= call[c].timeouts /\ call[c].timeouts \in Nat
  BY <1>1, <1>2 DEF Fits, Begun
<1> HIDE DEF o, a
<1>4. IsFiniteSet(o) /\ Cardinality(o) \in Nat
  BY <1>3, OperationsCount
<1>5. Cardinality(o \ {a}) = IF a \in o THEN Cardinality(o) - 1 ELSE Cardinality(o)
  BY <1>4, FS_RemoveElement
<1>6. Cardinality(o) <= IF c \in Guarded /\ TimedOut = TimedOut THEN call[c].timeouts + 1
                                                                ELSE call[c].timeouts
  BY <1>1, <1>3, <1>4, <1>5
<1>7. QED
  BY <1>1, <1>3, <1>6, TimedOutIsAFailure, CatchKeeps

LEMMA NextAttemptKeeps ==
    ASSUME RetryInv, NEW c \in Callers, NextAttempt(c)
    PROVE  RetryInv'
<1> DEFINE a == call[c].attempt + 1
           o == running[c]
<1>1. call[c].at = "sleeping"
  BY DEF NextAttempt
<1>2. Begun(call[c]) /\ Fits(call[c], running[c])
  BY <1>1, CallHasBegun DEF RetryInv
<1>3. /\ o \subseteq 1..MaxAttempts /\ Cardinality(o) <= call[c].timeouts
      /\ call[c].timeouts \in Nat /\ a \in 1..MaxAttempts
  BY <1>1, <1>2, RetryAssumption DEF Fits, Begun
<1>4. CASE /\ ~TimeIsUp(c)
           /\ call' = [call EXCEPT ![c] = [call[c] EXCEPT !.at = "calling", !.attempt = @ + 1,
                                                           !.timer = OpTimeout]]
           /\ running' = [running EXCEPT ![c] = @ \cup {call[c].attempt + 1}]
           /\ metrics' = Counted({"total"})
  <2> DEFINE r == [call[c] EXCEPT !.at = "calling", !.attempt = @ + 1, !.timer = OpTimeout]
             o2 == o \cup {a}
  <2>1. call' = [call EXCEPT ![c] = r] /\ running' = [running EXCEPT ![c] = o2]
    BY <1>4 DEF RetryInv
  <2>2. r.at = "calling" /\ r.attempt = a /\ r.timeouts = call[c].timeouts /\ Begun(r)
    BY <1>2, <1>3 DEF Begun
  <2> HIDE DEF r, o, a
  <2>3. o2 \subseteq 1..MaxAttempts /\ o2 \ {a} \subseteq o
    BY <1>3
  <2> HIDE DEF o2
  <2>4. /\ Cardinality(o2 \ {a}) \in Nat /\ Cardinality(o) \in Nat
        /\ Cardinality(o2 \ {a}) <= Cardinality(o)
    BY <1>3, <2>3, OperationsCount
  <2>5. Cardinality(o2 \ {a}) <= call[c].timeouts
    BY <1>3, <2>4
  <2>6. Fits(r, o2)
    BY <2>2, <2>3, <2>5 DEF Fits
  <2>7. Awaits(call[c]) = 0 /\ Awaits(r) = 1 /\ Threw(call[c]) = 0 /\ Threw(r) = 0
    BY <1>1, <2>2 DEF Awaits, Threw
  <2>8. /\ metrics \in [Counters -> Nat] /\ metrics' \in [Counters -> Nat]
        /\ \A k \in Counters : metrics'[k] = IF k \in {"total"} THEN metrics[k] + 1 ELSE metrics[k]
    BY <1>4, CountsMove
  <2>9. /\ metrics'["total"] + metrics["successful"] + metrics["failed"] + Awaits(call[c])
             = metrics["total"] + metrics'["successful"] + metrics'["failed"] + Awaits(r)
        /\ metrics'["successful"] + metrics["first"] + metrics["retried"]
             = metrics["successful"] + metrics'["first"] + metrics'["retried"]
        /\ metrics'["exceeded"] + Threw(call[c]) = metrics["exceeded"] + Threw(r)
    BY <2>7, <2>8 DEF Counters
  <2>10. QED
    BY <2>1, <2>6, <2>8, <2>9, CallerMoves
<1>5. CASE /\ TimeIsUp(c)
           /\ call' = [call EXCEPT ![c] = [call[c] EXCEPT !.at = "thrown", !.attempt = @ + 1,
                                                           !.last = {TimedOut}]]
           /\ metrics' = Counted({"total", "failed", "exceeded"})
           /\ UNCHANGED running
  <2> DEFINE r == [call[c] EXCEPT !.at = "thrown", !.attempt = @ + 1, !.last = {TimedOut}]
  <2>1. call' = [call EXCEPT ![c] = r] /\ running' = [running EXCEPT ![c] = o]
    BY <1>5 DEF RetryInv
  <2>2. r.at = "thrown" /\ r.attempt = a /\ r.elapsed = call[c].elapsed /\ Begun(r)
    BY <1>2, <1>3, TimedOutIsAFailure DEF Begun
  <2>3. call[c].elapsed \in Nat /\ Timeout \in Nat /\ Timeout > 0 /\ call[c].elapsed > Timeout
    BY <1>2, <1>5, RetryAssumption DEF Begun, TimeIsUp
  <2> HIDE DEF r, o, a
  <2>4. Fits(r, o)
    BY <1>3, <2>2, <2>3 DEF Fits, Reason
  <2>5. Awaits(call[c]) = 0 /\ Awaits(r) = 0 /\ Threw(call[c]) = 0 /\ Threw(r) = 1
    BY <1>1, <2>2 DEF Awaits, Threw
  <2>6. /\ metrics \in [Counters -> Nat] /\ metrics' \in [Counters -> Nat]
        /\ \A k \in Counters :
             metrics'[k] = IF k \in {"total", "failed", "exceeded"} THEN metrics[k] + 1 ELSE metrics[k]
    BY <1>5, CountsMove
  <2>7. /\ metrics'["total"] + metrics["successful"] + metrics["failed"] + Awaits(call[c])
             = metrics["total"] + metrics'["successful"] + metrics'["failed"] + Awaits(r)
        /\ metrics'["successful"] + metrics["first"] + metrics["retried"]
             = metrics["successful"] + metrics'["first"] + metrics'["retried"]
        /\ metrics'["exceeded"] + Threw(call[c]) = metrics["exceeded"] + Threw(r)
    BY <2>5, <2>6 DEF Counters
  <2>8. QED
    BY <2>1, <2>4, <2>6, <2>7, CallerMoves
<1>6. QED
  BY <1>4, <1>5 DEF NextAttempt

\* Time moves every call at once, but no call to another state.
LEMMA TickKeeps ==
    ASSUME RetryInv, RetryTick
    PROVE  RetryInv'
<1>1. /\ call' = [c \in Callers |-> call'[c]] /\ running' = running /\ metrics' = metrics
      /\ \A c \in Callers : call'[c] = Passing(call[c])
  BY DEF RetryTick
<1>2. ASSUME NEW c \in Callers
      PROVE  call'[c].at = call[c].at /\ Fits(call'[c], running[c])
  <2> DEFINE q == call[c]
             r == call'[c]
  <2>1. Fits(q, running[c]) /\ r = Passing(q)
    BY <1>1 DEF RetryInv
  <2>2. CASE q = NoCall \/ q.at \in {"returned", "thrown"}
    BY <2>1, <2>2 DEF Passing
  <2>3. CASE ~(q = NoCall \/ q.at \in {"returned", "thrown"})
    <3>1. Begun(q) /\ r = [q EXCEPT !.elapsed = AtMost(Timeout + 1, @ + 1), !.timer = AtLeast(0, @ - 1)]
      BY <2>1, <2>3 DEF Passing, Fits
    <3>2. AtMost(Timeout + 1, q.elapsed + 1) \in Nat
      BY <3>1, RetryAssumption DEF AtMost, Begun
    <3> HIDE DEF q, r
    <3>3. r.at = q.at /\ r.attempt = q.attempt /\ r.timeouts = q.timeouts /\ Begun(r)
      BY <3>1, <3>2 DEF Begun
    <3>4. Fits(r, running[c])
      BY <2>1, <2>3, <3>3 DEF Fits
    <3>5. QED
      BY <3>3, <3>4 DEF q, r
  <2>4. QED
    BY <2>2, <2>3
<1>3. Awaiting(call') = Awaiting(call) /\ Thrown(call') = Thrown(call)
  BY <1>2 DEF Awaiting, Thrown
<1>4. QED
  BY <1>1, <1>2, <1>3 DEF RetryInv

LEMMA RetryInvNext == RetryInv /\ [RetryNext]_retryVars => RetryInv'
<1> SUFFICES ASSUME RetryInv, [RetryNext]_retryVars PROVE RetryInv'
  OBVIOUS
<1>1. CASE RetryTick
  BY <1>1, TickKeeps
<1>2. ASSUME NEW c \in Callers, Execute(c) PROVE RetryInv'
  BY <1>2, ExecuteKeeps
<1>3. ASSUME NEW c \in Callers, NextAttempt(c) PROVE RetryInv'
  BY <1>3, NextAttemptKeeps
<1>4. ASSUME NEW c \in Callers, TimerFires(c) PROVE RetryInv'
  BY <1>4, TimerKeeps
<1>5. ASSUME NEW c \in Callers, NEW attempt \in 1..MaxAttempts, Resolve(c, attempt) PROVE RetryInv'
  BY <1>5, ResolveKeeps
<1>6. ASSUME NEW c \in Callers, NEW attempt \in 1..MaxAttempts, NEW failure \in Errors,
             Reject(c, attempt, failure)
      PROVE  RetryInv'
  BY <1>6, RejectKeeps
<1>7. CASE UNCHANGED retryVars
  BY <1>7 DEF retryVars, RetryInv, Awaiting, Thrown
<1>8. QED
  BY <1>1, <1>2, <1>3, <1>4, <1>5, <1>6, <1>7 DEF RetryNext

LEMMA RetryInvHolds == RetrySpec => []RetryInv
  BY RetryInvInit, RetryInvNext, PTL DEF RetrySpec

(***************************************************************************)
(* Whatever the callers, the policy and the order in which operations,     *)
(* timers and retries meet: the shared RetryMetrics add up, an operation   *)
(* runs on beside another only after a timeout, and execute gives up only  *)
(* for a reason.                                                           *)
(***************************************************************************)
THEOREM RetriesStaySafe == RetrySpec => []RetriesAreSafe
<1>1. ASSUME RetryInv PROVE RetriesAreSafe
  <2>1. NoCall.at = "idle"
    BY DEF NoCall
  <2>2. MetricsAddUp
    <3>1. {c \in Callers : Open(c)} = Awaiting(call)
      BY <2>1 DEF Open, Awaiting
    <3>2. {c \in Callers : call[c] # NoCall /\ call[c].at = "thrown"} = Thrown(call)
      BY <2>1 DEF Thrown
    <3>3. QED
      BY <1>1, <3>1, <3>2 DEF RetryInv, MetricsAddUp
  <2>3. ASSUME NEW c \in Callers, call[c] # NoCall, call[c].at # "thrown"
        PROVE  Cardinality(running[c] \ {call[c].attempt}) <= call[c].timeouts
    <3> DEFINE o == running[c]
               a == call[c].attempt
    <3>1. Fits(call[c], o) /\ Begun(call[c])
      BY <1>1, <2>3, CallHasBegun DEF RetryInv
    <3>2. CASE call[c].at = "sleeping"
      <4>1. o \subseteq 1..MaxAttempts /\ Cardinality(o) <= call[c].timeouts /\ call[c].timeouts \in Nat
        BY <3>1, <3>2 DEF Fits, Begun
      <4>2. o \ {a} \subseteq o
        OBVIOUS
      <4> HIDE DEF o, a
      <4>3. /\ Cardinality(o) \in Nat /\ Cardinality(o \ {a}) \in Nat
            /\ Cardinality(o \ {a}) <= Cardinality(o)
        BY <4>1, <4>2, OperationsCount
      <4>4. Cardinality(o \ {a}) <= call[c].timeouts
        BY <4>1, <4>3
      <4>5. QED
        BY <4>4 DEF o, a
    <3>3. CASE call[c].at \in {"calling", "returned"}
      BY <3>1, <3>3 DEF Fits
    <3>4. QED
      BY <2>3, <3>1, <3>2, <3>3 DEF Begun
  <2>4. ASSUME NEW c \in Callers, call[c] # NoCall, call[c].at = "thrown"
        PROVE  \/ \E failure \in call[c].last : ~IsTransient(failure)
               \/ call[c].attempt = MaxAttempts
               \/ ~TimeRemains(c)
    BY <1>1, <2>4 DEF RetryInv, Fits, Reason, TimeRemains
  <2>5. OrphansNeedTimeouts
    BY <2>3 DEF OrphansNeedTimeouts
  <2>6. GivesUpForAReason
    BY <2>4 DEF GivesUpForAReason
  <2>7. QED
    BY <2>2, <2>5, <2>6 DEF RetriesAreSafe
<1>2. QED
  BY <1>1, RetryInvHolds, PTL

(***************************************************************************)
(* Whatever a caller has caught in any run, with any errors an operation   *)
(* may reject with, the judges of the worker agree on it.                  *)
(***************************************************************************)
THEOREM CallersAreJudgedAlike == RetrySpec => []ClassifiersAgree
<1>1. ASSUME RetryInv PROVE ClassifiersAgree
  <2>1. ASSUME NEW c \in Callers, call[c] # NoCall PROVE call[c].last \subseteq Failures
    BY <1>1, <2>1, CallHasBegun DEF Begun
  <2>2. QED
    BY <2>1, JudgesAgree, ClassifierGivesUpLast, OutagesAreTransient DEF ClassifiersAgree
<1>2. QED
  BY <1>1, RetryInvHolds, PTL

-----------------------------------------------------------------------------
(* RetryExecutor: its delays *)

\* The recursion up to any exponent has a solution.
PowersUpTo(f, m) == f = [n \in 0..m |-> IF n = 0 THEN 1 ELSE 2 * f[n - 1]]

LEMMA PowersExist ==
    ASSUME NEW m \in Nat
    PROVE  \E f : PowersUpTo(f, m)
<1> DEFINE N == {k \in Nat : ~ \E f : PowersUpTo(f, k)}
<1>1. SUFFICES ASSUME N # {} PROVE FALSE
  OBVIOUS
<1>2. PICK k \in N : \A j \in N : ~(<<j, k>> \in OpToRel(<, Nat))
  <2>1. N \subseteq Nat
    OBVIOUS
  <2> HIDE DEF N
  <2>2. QED
    BY <1>1, <2>1, NatLessThanWellFounded, WFMin
<1>3. k \in Nat /\ \A j \in N : ~(j < k)
  BY <1>2 DEF OpToRel
<1>4. CASE k = 0
  <2> DEFINE f == [n \in 0..0 |-> 1]
  <2>1. PowersUpTo(f, 0)
    BY DEF PowersUpTo
  <2>2. QED
    BY <1>2, <1>4, <2>1
<1>5. CASE k # 0
  <2>1. k - 1 \in Nat /\ k - 1 \notin N
    <3> HIDE DEF N
    <3>1. QED
      BY <1>3, <1>5
  <2>2. PICK f : PowersUpTo(f, k - 1)
    BY <2>1
  <2> DEFINE h == [n \in 0..k |-> IF n = 0 THEN 1 ELSE 2 * f[n - 1]]
  <2>3. \A n \in 0..(k - 1) : h[n] = f[n]
    BY <1>3, <2>1, <2>2 DEF PowersUpTo
  <2>4. \A n \in 0..k : n # 0 => n - 1 \in 0..(k - 1)
    BY <1>3
  <2>5. \A n \in 0..k : n # 0 => h[n - 1] = f[n - 1]
    BY <2>3, <2>4
  <2>6. PowersUpTo(h, k)
    BY <2>5 DEF PowersUpTo
  <2>7. QED
    BY <1>2, <2>6
<1>6. QED
  BY <1>4, <1>5

\* So the powers are what the recursion says, and positive.
LEMMA PowersAre ==
    /\ PowerOfTwo = [n \in 0..MaxAttempts |-> IF n = 0 THEN 1 ELSE 2 * PowerOfTwo[n - 1]]
    /\ \A n \in 0..MaxAttempts : PowerOfTwo[n] \in Nat /\ PowerOfTwo[n] >= 1
<1>1. PICK f : PowersUpTo(f, MaxAttempts)
  BY PowersExist, RetryAssumption
<1>2. PowerOfTwo = [n \in 0..MaxAttempts |-> IF n = 0 THEN 1 ELSE 2 * PowerOfTwo[n - 1]]
  BY <1>1 DEF PowerOfTwo, PowersUpTo
<1>3. MaxAttempts \in Nat
  BY RetryAssumption
<1> DEFINE Good(n) == PowerOfTwo[n] \in Nat /\ PowerOfTwo[n] >= 1
           N == {n \in 0..MaxAttempts : ~Good(n)}
<1>4. ASSUME N # {} PROVE FALSE
  <2>1. N \subseteq Nat
    BY <1>3
  <2>2. PICK k \in N : \A j \in N : ~(<<j, k>> \in OpToRel(<, Nat))
    <3> HIDE DEF N
    <3>1. QED
      BY <1>4, <2>1, NatLessThanWellFounded, WFMin
  <2>3. k \in Nat /\ k \in 0..MaxAttempts
    BY <2>1, <2>2
  <2>4. \A j \in N : ~(j < k)
    <3> HIDE DEF N
    <3>1. QED
      BY <2>1, <2>2, <2>3 DEF OpToRel
  <2>5. k # 0
    <3>1. PowerOfTwo[0] = 1
      BY <1>2, <1>3
    <3>2. Good(0)
      BY <3>1
    <3> HIDE DEF Good
    <3>3. QED
      BY <2>2, <3>2
  <2>6. k - 1 \in 0..MaxAttempts /\ k - 1 < k
    BY <1>3, <2>3, <2>5
  <2>7. Good(k - 1)
    <3>1. k - 1 \notin N
      <4> HIDE DEF N
      <4>1. QED
        BY <2>4, <2>6
    <3> HIDE DEF Good
    <3>2. QED
      BY <2>6, <3>1
  <2>8. PowerOfTwo[k] = 2 * PowerOfTwo[k - 1]
    BY <1>2, <2>3, <2>5
  <2>9. Good(k)
    BY <2>7, <2>8
  <2> HIDE DEF Good
  <2>10. QED
    BY <2>2, <2>9
<1>5. QED
  BY <1>2, <1>4

LEMMA DelaysAre ==
    ASSUME NEW a \in 1..MaxAttempts, NEW d \in NextDelay(a)
    PROVE  /\ d \in Nat
           /\ Timeout > 0 =>
                /\ d > 0
                /\ Strategy = "EXPONENTIAL" =>
                     d >= CalculateDelay(a) /\ d <= (6 * CalculateBackoff(a)) \div 5
<1>1. Timeout \in Nat /\ MaxAttempts \in Nat /\ a \in Nat /\ a >= 1 /\ a <= MaxAttempts
  BY RetryAssumption
<1>2. CASE Strategy = "LINEAR"
  <2>1. d = AtMost(Timeout, 5 * a)
    BY <1>1, <1>2 DEF NextDelay, LinearBackoff, AtLeast
  <2>2. QED
    BY <1>1, <1>2, <2>1 DEF AtMost
<1>3. CASE Strategy = "FIXED"
  <2>1. d = 5
    BY <1>3 DEF NextDelay, FixedBackoff
  <2>2. QED
    BY <1>3, <2>1
<1>4. CASE Strategy = "EXPONENTIAL"
  <2> DEFINE p == PowerOfTwo[a - 1]
  <2>1. a - 1 \in 0..MaxAttempts /\ a \in 0..MaxAttempts /\ AtLeast(0, a - 1) = a - 1 /\ AtLeast(1, a) = a
    BY <1>1 DEF AtLeast
  <2>2. p \in Nat /\ p >= 1
    BY <2>1, PowersAre
  <2>3. PICK jitter \in {0, (5 * p) \div 5} : d = AtMost(Timeout, 5 * p + jitter)
    BY <1>4, <2>1 DEF NextDelay, ExponentialBackoff
  <2>4. CalculateDelay(a) = AtMost(Timeout, 5 * p)
    BY <2>1 DEF CalculateDelay
  <2>5. CalculateBackoff(a) = IF a <= 1 THEN AtMost(Timeout, 5) ELSE AtMost(Timeout, 10 * p)
    <3>1. PowerOfTwo[0] = 1
      BY PowersAre, RetryAssumption
    <3>2. CalculateDelay(1) = AtMost(Timeout, 5)
      BY <3>1 DEF CalculateDelay, AtLeast
    <3>3. PowerOfTwo[a] = 2 * p
      BY <1>1, <2>1, PowersAre
    <3>4. 5 * PowerOfTwo[a] = 10 * p
      BY <2>2, <3>3
    <3>5. QED
      BY <3>2, <3>4 DEF CalculateBackoff
  <2>6. a <= 1 => p = 1
    <3>1. a <= 1 => a - 1 = 0
      BY <1>1
    <3>2. QED
      BY <3>1, PowersAre, RetryAssumption
  <2> HIDE DEF p
  <2>7. jitter \in Nat /\ jitter <= p
    BY <2>2
  <2>8. d \in Nat /\ (Timeout > 0 => d > 0) /\ d >= CalculateDelay(a)
    BY <1>1, <2>2, <2>3, <2>4, <2>7 DEF AtMost
  <2>9. d <= (6 * CalculateBackoff(a)) \div 5
    <3>1. CASE a <= 1
      <4>1. d <= Timeout /\ d <= 6
        BY <1>1, <2>2, <2>3, <2>6, <2>7, <3>1 DEF AtMost
      <4>2. CalculateBackoff(a) = IF 5 > Timeout THEN Timeout ELSE 5
        BY <2>5, <3>1 DEF AtMost
      <4>3. QED
        BY <1>1, <2>8, <4>1, <4>2
    <3>2. CASE ~(a <= 1)
      <4>1. d <= Timeout /\ d <= 6 * p
        BY <1>1, <2>2, <2>3, <2>7 DEF AtMost
      <4>2. CalculateBackoff(a) = IF 10 * p > Timeout THEN Timeout ELSE 10 * p
        BY <2>5, <3>2 DEF AtMost
      <4>3. QED
        BY <1>1, <2>2, <2>8, <4>1, <4>2
    <3>3. QED
      BY <3>1, <3>2
  <2>10. QED
    BY <2>8, <2>9
<1>5. QED
  BY <1>2, <1>3, <1>4, RetryAssumption

(***************************************************************************)
(* A call and its times: it has had no more timeouts than attempts, and    *)
(* asleep it waits for one of the delays of its attempt.                   *)
(***************************************************************************)
Timed(r) ==
    \/ r = NoCall
    \/ /\ r \in RetryCalls
       /\ r.timeouts <= r.attempt /\ (r.at = "calling" => r.timeouts < r.attempt)
       /\ r.at = "sleeping" => r.waited \in NextDelay(r.attempt)

TimedInv ==
    /\ call = [c \in Callers |-> call[c]]
    /\ \A c \in Callers : Timed(call[c])

LEMMA TimedMoves ==
    ASSUME TimedInv, NEW c \in Callers, NEW r, Timed(r), call' = [call EXCEPT ![c] = r]
    PROVE  TimedInv'
<1>1. call = [b \in Callers |-> call[b]] /\ \A b \in Callers : Timed(call[b])
  BY DEF TimedInv
<1>2. call' = [b \in Callers |-> call'[b]] /\ \A b \in Callers : call'[b] = IF b = c THEN r ELSE call[b]
  BY <1>1
<1>3. \A b \in Callers : Timed(call'[b])
  BY <1>1, <1>2
<1>4. QED
  BY <1>2, <1>3 DEF TimedInv, Timed

LEMMA NoCallIsIdle == NoCall.at = "idle"
  BY DEF NoCall

LEMMA TimedCall ==
    ASSUME TimedInv, NEW c \in Callers, call[c] # NoCall
    PROVE  /\ call[c] \in RetryCalls
           /\ call[c].timeouts <= call[c].attempt
           /\ call[c].at = "calling" => call[c].timeouts < call[c].attempt
           /\ call[c].at = "sleeping" => call[c].waited \in NextDelay(call[c].attempt)
  BY DEF TimedInv, Timed

LEMMA ExecuteTimes ==
    ASSUME TimedInv, NEW c \in Callers, Execute(c)
    PROVE  TimedInv'
<1> DEFINE r == [at |-> "calling", attempt |-> 1, elapsed |-> 0,
                 timer |-> OpTimeout, waited |-> 0, timeouts |-> 0, last |-> {}]
<1>1. call' = [call EXCEPT ![c] = r]
  BY DEF Execute
<1>2. r \in RetryCalls
  BY RetryAssumption DEF RetryCalls
<1>3. Timed(r)
  BY <1>2 DEF Timed
<1> HIDE DEF r
<1>4. QED
  BY <1>1, <1>3, TimedMoves

LEMMA CatchTimes ==
    ASSUME TimedInv, NEW c \in Callers, NEW failure \in Errors \cup {TimedOut},
           call[c] # NoCall, call[c].at = "calling", Catch(c, failure)
    PROVE  TimedInv'
<1> DEFINE q == call[c]
<1>1. /\ q \in RetryCalls /\ q.timeouts < q.attempt
      /\ q.timeouts \in 0..MaxAttempts /\ q.attempt \in 1..MaxAttempts /\ MaxAttempts \in Nat
  BY TimedCall, RetryAssumption DEF RetryCalls
<1>2. ASSUME NEW delay \in NextDelay(call[c].attempt), Sleep(c, failure, delay) PROVE TimedInv'
  <2> DEFINE n == IF c \in Guarded /\ failure = TimedOut THEN q.timeouts + 1 ELSE q.timeouts
             r == [q EXCEPT !.at = "sleeping", !.last = {failure},
                      !.timer = delay, !.waited = delay, !.timeouts = n]
  <2>1. call' = [call EXCEPT ![c] = r]
    BY <1>2 DEF Sleep
  <2>2. delay \in Nat
    BY <1>1, <1>2, DelaysAre
  <2>3. n \in 0..MaxAttempts /\ n <= q.attempt
    BY <1>1
  <2> HIDE DEF n
  <2>4. r \in RetryCalls
    BY <1>1, <2>2, <2>3 DEF RetryCalls
  <2>5. r.timeouts = n /\ r.attempt = q.attempt /\ r.at = "sleeping" /\ r.waited = delay
    BY <1>1 DEF RetryCalls
  <2> HIDE DEF r
  <2>6. Timed(r)
    BY <1>2, <2>3, <2>4, <2>5 DEF Timed
  <2>7. QED
    BY <2>1, <2>6, TimedMoves
<1>3. ASSUME call' = [call EXCEPT ![c] = [call[c] EXCEPT !.at = "thrown", !.last = {failure}]]
      PROVE  TimedInv'
  <2> DEFINE r == [q EXCEPT !.at = "thrown", !.last = {failure}]
  <2>1. r \in RetryCalls
    BY <1>1 DEF RetryCalls
  <2>2. r.timeouts = q.timeouts /\ r.attempt = q.attempt /\ r.at = "thrown"
    BY <1>1 DEF RetryCalls
  <2>3. call' = [call EXCEPT ![c] = r]
    BY <1>3
  <2> HIDE DEF r
  <2>4. Timed(r)
    BY <1>1, <2>1, <2>2 DEF Timed
  <2>5. QED
    BY <2>3, <2>4, TimedMoves
<1>4. QED
  BY <1>2, <1>3 DEF Catch

LEMMA NextAttemptTimes ==
    ASSUME RetryInv, TimedInv, NEW c \in Callers, NextAttempt(c)
    PROVE  TimedInv'
<1> DEFINE q == call[c]
<1>1. call[c] # NoCall /\ call[c].at = "sleeping"
  BY DEF NextAttempt
<1>2. /\ q \in RetryCalls /\ q.timeouts <= q.attempt
      /\ q.timeouts \in 0..MaxAttempts /\ q.attempt \in 1..MaxAttempts /\ MaxAttempts \in Nat
  BY <1>1, TimedCall, RetryAssumption DEF RetryCalls
<1>3. q.attempt < MaxAttempts
  BY <1>1 DEF RetryInv, Fits
<1>4. q.attempt + 1 \in 1..MaxAttempts /\ q.timeouts < q.attempt + 1
  BY <1>2, <1>3
<1>5. ASSUME call' = [call EXCEPT ![c] = [call[c] EXCEPT !.at = "calling", !.attempt = @ + 1,
                                                          !.timer = OpTimeout]]
      PROVE  TimedInv'
  <2> DEFINE r == [q EXCEPT !.at = "calling", !.attempt = q.attempt + 1, !.timer = OpTimeout]
  <2>1. r \in RetryCalls
    BY <1>2, <1>4, RetryAssumption DEF RetryCalls
  <2>2. r.timeouts = q.timeouts /\ r.attempt = q.attempt + 1 /\ r.at = "calling"
    BY <1>2 DEF RetryCalls
  <2>3. call' = [call EXCEPT ![c] = r]
    BY <1>2, <1>5 DEF RetryCalls
  <2> HIDE DEF r
  <2>4. Timed(r)
    BY <1>2, <1>4, <2>1, <2>2 DEF Timed
  <2>5. QED
    BY <2>3, <2>4, TimedMoves
<1>6. ASSUME call' = [call EXCEPT ![c] = [call[c] EXCEPT !.at = "thrown", !.attempt = @ + 1,
                                                          !.last = {TimedOut}]]
      PROVE  TimedInv'
  <2> DEFINE r == [q EXCEPT !.at = "thrown", !.attempt = q.attempt + 1, !.last = {TimedOut}]
  <2>1. r \in RetryCalls
    BY <1>2, <1>4 DEF RetryCalls
  <2>2. r.timeouts = q.timeouts /\ r.attempt = q.attempt + 1 /\ r.at = "thrown"
    BY <1>2 DEF RetryCalls
  <2>3. call' = [call EXCEPT ![c] = r]
    BY <1>2, <1>6 DEF RetryCalls
  <2> HIDE DEF r
  <2>4. Timed(r)
    BY <1>2, <1>4, <2>1, <2>2 DEF Timed
  <2>5. QED
    BY <2>3, <2>4, TimedMoves
<1>7. QED
  BY <1>5, <1>6 DEF NextAttempt

LEMMA ResolveTimes ==
    ASSUME RetryInv, TimedInv, NEW c \in Callers, NEW attempt, Resolve(c, attempt)
    PROVE  TimedInv'
<1> DEFINE q == call[c]
           r == [q EXCEPT !.at = "returned"]
<1>1. CASE UNCHANGED call
  BY <1>1 DEF TimedInv, Timed
<1>2. CASE Awaited(c, attempt) /\ call' = [call EXCEPT ![c].at = "returned"]
  <2>1. q # NoCall
    BY <1>2, NoCallIsIdle DEF Awaited
  <2>2. q \in RetryCalls /\ q.timeouts <= q.attempt
    BY <2>1, TimedCall
  <2>3. r \in RetryCalls /\ r.timeouts = q.timeouts /\ r.attempt = q.attempt /\ r.at = "returned"
    BY <2>2 DEF RetryCalls
  <2>4. call' = [call EXCEPT ![c] = r]
    BY <1>2 DEF TimedInv
  <2> HIDE DEF r
  <2>5. Timed(r)
    BY <2>2, <2>3 DEF Timed
  <2>6. QED
    BY <2>4, <2>5, TimedMoves
<1>3. QED
  BY <1>1, <1>2 DEF Resolve

LEMMA TickTimes ==
    ASSUME TimedInv, RetryTick
    PROVE  TimedInv'
<1>1. call' = [c \in Callers |-> call'[c]] /\ \A c \in Callers : call'[c] = Passing(call[c])
  BY DEF RetryTick
<1>2. ASSUME NEW c \in Callers PROVE Timed(call'[c])
  <2> DEFINE q == call[c]
             e == AtMost(Timeout + 1, q.elapsed + 1)
             t == AtLeast(0, q.timer - 1)
             r == [q EXCEPT !.elapsed = e, !.timer = t]
  <2>1. Timed(q)
    BY DEF TimedInv
  <2>2. CASE q = NoCall \/ q.at \in {"returned", "thrown"}
    BY <1>1, <2>1, <2>2 DEF Passing
  <2>3. CASE ~(q = NoCall \/ q.at \in {"returned", "thrown"})
    <3>1. q \in RetryCalls
      BY <2>1, <2>3 DEF Timed
    <3>2. q.elapsed \in 0..Timeout + 1 /\ q.timer \in Nat /\ Timeout \in Nat
      BY <3>1, RetryAssumption DEF RetryCalls
    <3>3. e \in 0..Timeout + 1 /\ t \in Nat
      BY <3>2 DEF AtMost, AtLeast
    <3>4. call'[c] = r
      BY <1>1, <2>3, <3>1 DEF Passing, RetryCalls
    <3> HIDE DEF e, t
    <3>5. r \in RetryCalls
      BY <3>1, <3>3 DEF RetryCalls
    <3>6. r.timeouts = q.timeouts /\ r.attempt = q.attempt /\ r.at = q.at /\ r.waited = q.waited
      BY <3>1 DEF RetryCalls
    <3> HIDE DEF r
    <3>7. Timed(r)
      BY <2>1, <2>3, <3>5, <3>6 DEF Timed
    <3>8. QED
      BY <3>4, <3>7
  <2>4. QED
    BY <2>2, <2>3
<1>3. QED
  BY <1>1, <1>2 DEF TimedInv, Timed

LEMMA TimedInvNext == RetryInv /\ TimedInv /\ [RetryNext]_retryVars => TimedInv'
<1> SUFFICES ASSUME RetryInv, TimedInv, [RetryNext]_retryVars PROVE TimedInv'
  OBVIOUS
<1>1. CASE RetryTick
  BY <1>1, TickTimes
<1>2. ASSUME NEW c \in Callers, Execute(c) PROVE TimedInv'
  BY <1>2, ExecuteTimes
<1>3. ASSUME NEW c \in Callers, NextAttempt(c) PROVE TimedInv'
  BY <1>3, NextAttemptTimes
<1>4. ASSUME NEW c \in Callers, TimerFires(c) PROVE TimedInv'
  BY <1>4, CatchTimes DEF TimerFires
<1>5. ASSUME NEW c \in Callers, NEW attempt \in 1..MaxAttempts, Resolve(c, attempt) PROVE TimedInv'
  BY <1>5, ResolveTimes
<1>6. ASSUME NEW c \in Callers, NEW attempt \in 1..MaxAttempts, NEW failure \in Errors,
             Reject(c, attempt, failure)
      PROVE  TimedInv'
  <2>1. CASE Awaited(c, attempt) /\ Catch(c, failure)
    <3>1. call[c] # NoCall /\ call[c].at = "calling"
      BY <2>1, NoCallIsIdle DEF Awaited
    <3>2. QED
      BY <2>1, <3>1, CatchTimes
  <2>2. CASE UNCHANGED call
    BY <2>2 DEF TimedInv, Timed
  <2>3. QED
    BY <1>6, <2>1, <2>2 DEF Reject
<1>7. CASE UNCHANGED retryVars
  BY <1>7 DEF retryVars, TimedInv, Timed
<1>8. QED
  BY <1>1, <1>2, <1>3, <1>4, <1>5, <1>6, <1>7 DEF RetryNext

(***************************************************************************)
(* Whatever the strategy and the number of attempts, calls, operations and *)
(* metrics are well formed; with a policy that has a timeout, whoever      *)
(* sleeps waits for a real delay, which under the exponential strategy is  *)
(* within a fifth of what the domain's two formulas say.                   *)
(***************************************************************************)
THEOREM DelaysStaySane == RetrySpec => [](RetryTypeOK /\ (Timeout > 0 => DelaysAreSane))
<1>1. RetryInit => TimedInv
  BY DEF RetryInit, TimedInv, Timed
<1>2. RetryInv /\ TimedInv => RetryTypeOK
  BY DEF RetryInv, TimedInv, Timed, Fits, RetryTypeOK
<1>3. TimedInv => (Timeout > 0 => DelaysAreSane)
  <2>1. SUFFICES ASSUME TimedInv, Timeout > 0, NEW c \in Callers, call[c] # NoCall, call[c].at = "sleeping"
                 PROVE  /\ call[c].waited > 0
                        /\ Strategy = "EXPONENTIAL" =>
                             /\ call[c].waited >= CalculateDelay(call[c].attempt)
                             /\ call[c].waited <= (6 * CalculateBackoff(call[c].attempt)) \div 5
    BY DEF DelaysAreSane
  <2>2. call[c].waited \in NextDelay(call[c].attempt) /\ call[c].attempt \in 1..MaxAttempts
    BY <2>1, TimedCall DEF RetryCalls
  <2>3. QED
    BY <2>1, <2>2, DelaysAre
<1>4. QED
  BY <1>1, <1>2, <1>3, TimedInvNext, RetryInvHolds, PTL DEF RetrySpec

-----------------------------------------------------------------------------
(* Connections: the Redis singleton *)

RedisSpec == RedisInit /\ [][RedisNext]_redisVars

Dials == [state : {"idle", "returned", "threw", "connect", "ping"}, client : 0..MaxClients]

\* One start at a time, and the instance is the client it made.
RedisInv ==
    /\ instance \in 0..MaxClients /\ isConnecting \in BOOLEAN
    /\ DOMAIN link = Clients
    /\ dial \in [RedisCallers -> Dials]
    /\ \A c \in RedisCallers : dial[c].state \in {"connect", "ping"} =>
         /\ isConnecting /\ dial[c].client = instance /\ instance # 0
         /\ \A b \in RedisCallers : dial[b].state \in {"connect", "ping"} => b = c
    /\ ConnectingIsReal
    /\ OnlyFailuresLeak

LEMMA DialFacts ==
    ASSUME RedisInv, NEW c \in RedisCallers
    PROVE  /\ dial[c] \in Dialling <=> dial[c].state \in {"connect", "ping"}
           /\ dial[c] \in Dials
<1>1. dial[c] \in Dials
  BY DEF RedisInv
<1>2. dial[c].state \in {"connect", "ping"} => dial[c].client \in Clients
  BY <1>1, ConnectionsAssumption DEF RedisInv, Clients
<1>3. QED
  BY <1>1, <1>2 DEF Dials, Dialling

LEMMA FreshFacts ==
    ASSUME SomeFresh
    PROVE  Fresh \in Clients /\ Fresh \in 1..MaxClients /\ Fresh \in 0..MaxClients /\ Fresh # 0
<1>1. Fresh \in Clients
  BY DEF SomeFresh, Fresh
<1>2. QED
  BY <1>1, ConnectionsAssumption DEF Clients

LEMMA StartKeeps ==
    ASSUME RedisInv, NEW c \in RedisCallers, ConnectRedis(c)
    PROVE  RedisInv'
<1>1. dial[c].state = "idle" /\ dial[c] \in Dials
  BY DialFacts DEF ConnectRedis
<1>2. CASE Ready(instance) \/ isConnecting
  <2>1. /\ dial' = [dial EXCEPT ![c].state = "returned"]
        /\ UNCHANGED <<instance, isConnecting, link, forgotten>>
    BY <1>2 DEF ConnectRedis
  <2>2. dial' \in [RedisCallers -> Dials]
    BY <1>1, <2>1 DEF RedisInv, Dials
  <2>3. \A b \in RedisCallers : b # c => dial'[b] = dial[b]
    BY <2>1 DEF RedisInv
  <2>4. dial'[c].state = "returned"
    BY <1>1, <2>1 DEF RedisInv, Dials
  <2>5. ConnectingIsReal'
    BY <1>1, <2>1, <2>3, DialFacts DEF RedisInv, ConnectingIsReal
  <2>6. OnlyFailuresLeak'
    BY <2>1 DEF RedisInv, OnlyFailuresLeak
  <2>7. QED
    BY <2>1, <2>2, <2>3, <2>4, <2>5, <2>6 DEF RedisInv
<1>3. CASE ~(Ready(instance) \/ isConnecting)
  <2>1. Dial(c) /\ ~isConnecting
    BY <1>3 DEF ConnectRedis
  <2>2. /\ SomeFresh /\ isConnecting' = TRUE /\ instance' = Fresh
        /\ forgotten' = forgotten \cup ({instance} \ {0})
        /\ link' = [link EXCEPT ![Fresh] = "connecting"]
        /\ dial' = [dial EXCEPT ![c] = [state |-> "connect", client |-> Fresh]]
    BY <2>1 DEF Dial
  <2>3. Fresh \in Clients /\ Fresh \in 0..MaxClients /\ Fresh # 0
    BY <2>2, FreshFacts
  <2>4. dial' \in [RedisCallers -> Dials] /\ dial'[c] = [state |-> "connect", client |-> Fresh]
    BY <2>2, <2>3 DEF RedisInv, Dials
  <2>5. \A b \in RedisCallers : b # c => dial'[b] = dial[b] /\ dial[b].state \notin {"connect", "ping"}
    BY <2>1, <2>2 DEF RedisInv
  <2>6. ConnectingIsReal'
    BY <2>3, <2>4 DEF ConnectingIsReal, Dialling
  <2>7. OnlyFailuresLeak'
    <3> SUFFICES ASSUME NEW i \in Clients, link'[i] \in {"connecting", "ready", "reconnecting"},
                        i # Fresh
                 PROVE  i \in forgotten'
      BY <2>2 DEF OnlyFailuresLeak
    <3>1. link'[i] = link[i] /\ i # 0
      BY <2>2, ConnectionsAssumption DEF RedisInv, Clients
    <3>2. QED
      BY <2>2, <3>1 DEF RedisInv, OnlyFailuresLeak
  <2>8. DOMAIN link' = Clients
    BY <2>2 DEF RedisInv
  <2>9. QED
    BY <2>2, <2>3, <2>4, <2>5, <2>6, <2>7, <2>8 DEF RedisInv
<1>4. QED
  BY <1>2, <1>3

LEMMA DialKeeps ==
    ASSUME RedisInv, NEW c \in RedisCallers, Connected(c) \/ Pong(c) \/ DialFails(c) \/ DialAgain(c)
    PROVE  RedisInv'
<1>1. dial[c] \in Dials /\ (dial[c] \in Dialling <=> dial[c].state \in {"connect", "ping"})
  BY DialFacts
<1>2. CASE Connected(c)
  <2>1. /\ dial[c].state = "connect" /\ UNCHANGED <<instance, isConnecting, forgotten>>
        /\ link' = [link EXCEPT ![dial[c].client] = "ready"]
        /\ dial' = [dial EXCEPT ![c].state = "ping"]
    BY <1>2 DEF Connected
  <2>2. isConnecting /\ dial[c].client = instance /\ instance # 0
    BY <2>1 DEF RedisInv
  <2>3. dial' \in [RedisCallers -> Dials] /\ dial'[c] = [dial[c] EXCEPT !.state = "ping"]
    BY <1>1, <2>1 DEF RedisInv, Dials
  <2>4. dial'[c].state = "ping" /\ dial'[c].client = instance
    BY <1>1, <2>2, <2>3 DEF Dials
  <2>5. \A b \in RedisCallers : b # c => dial'[b] = dial[b]
    BY <2>1 DEF RedisInv
  <2>6. dial'[c] \in Dialling
    BY <1>1, <2>1, <2>3 DEF Dialling
  <2>7. ConnectingIsReal'
    BY <2>6 DEF ConnectingIsReal
  <2>8. OnlyFailuresLeak'
    BY <2>1, <2>2 DEF RedisInv, OnlyFailuresLeak
  <2>9. QED
    BY <2>1, <2>2, <2>3, <2>4, <2>5, <2>7, <2>8 DEF RedisInv
<1>3. CASE Pong(c)
  <2>1. /\ dial[c].state = "ping" /\ isConnecting' = FALSE /\ UNCHANGED forgotten
        /\ dial' = [dial EXCEPT ![c].state = "returned"]
    BY <1>3 DEF Pong
  <2>2. instance # 0 /\ UNCHANGED <<instance, link>>
    BY <1>3, <2>1 DEF Pong, GetRedisClient, RedisInv
  <2>3. dial' \in [RedisCallers -> Dials] /\ dial'[c].state = "returned"
    BY <1>1, <2>1 DEF RedisInv, Dials
  <2>4. \A b \in RedisCallers : b # c => dial'[b] = dial[b] /\ dial[b].state \notin {"connect", "ping"}
    BY <2>1 DEF RedisInv
  <2>5. OnlyFailuresLeak'
    BY <2>1, <2>2 DEF RedisInv, OnlyFailuresLeak
  <2>6. QED
    BY <2>1, <2>2, <2>3, <2>4, <2>5 DEF RedisInv, ConnectingIsReal
<1>4. CASE DialFails(c)
  <2>1. /\ dial[c].state \in {"connect", "ping"} /\ instance' = 0 /\ isConnecting' = FALSE
        /\ link' = [link EXCEPT ![dial[c].client] = "reconnecting"]
        /\ forgotten' = forgotten \cup {dial[c].client}
        /\ dial' = [dial EXCEPT ![c] = [state |-> "threw", client |-> 0]]
    BY <1>1, <1>4 DEF DialFails
  <2>2. dial[c].client = instance
    BY <2>1 DEF RedisInv
  <2>3. dial' \in [RedisCallers -> Dials] /\ dial'[c].state = "threw" /\ 0 \in 0..MaxClients
    BY <2>1, ConnectionsAssumption DEF RedisInv, Dials
  <2>4. \A b \in RedisCallers : b # c => dial'[b] = dial[b] /\ dial[b].state \notin {"connect", "ping"}
    BY <2>1 DEF RedisInv
  <2>5. OnlyFailuresLeak'
    BY <2>1, <2>2 DEF RedisInv, OnlyFailuresLeak
  <2>6. QED
    BY <2>1, <2>3, <2>4, <2>5 DEF RedisInv, ConnectingIsReal
<1>5. CASE DialAgain(c)
  <2>1. /\ dial[c].state = "threw" /\ UNCHANGED <<instance, isConnecting, link, forgotten>>
        /\ dial' = [dial EXCEPT ![c].state = "idle"]
    BY <1>5 DEF DialAgain
  <2>2. dial' \in [RedisCallers -> Dials] /\ dial'[c].state = "idle"
    BY <1>1, <2>1 DEF RedisInv, Dials
  <2>3. \A b \in RedisCallers : b # c => dial'[b] = dial[b]
    BY <2>1 DEF RedisInv
  <2>4. ConnectingIsReal'
    BY <1>1, <2>1, <2>3 DEF RedisInv, ConnectingIsReal
  <2>5. OnlyFailuresLeak'
    BY <2>1 DEF RedisInv, OnlyFailuresLeak
  <2>6. QED
    BY <2>1, <2>2, <2>3, <2>4, <2>5 DEF RedisInv
<1>6. QED
  BY <1>2, <1>3, <1>4, <1>5

LEMMA ClientsKeep ==
    ASSUME RedisInv, AskForClient \/ DisconnectRedis \/ \E i \in Clients : LinkBreaks(i) \/ LinkReturns(i)
    PROVE  RedisInv'
<1>1. CASE AskForClient
  <2>1. UNCHANGED <<isConnecting, forgotten, dial>>
    BY <1>1 DEF AskForClient
  <2>2. CASE instance # 0
    <3>1. UNCHANGED <<instance, link>>
      BY <1>1, <2>2 DEF AskForClient, GetRedisClient
    <3>2. QED
      BY <2>1, <3>1 DEF RedisInv, ConnectingIsReal, OnlyFailuresLeak
  <2>3. CASE instance = 0
    <3>1. SomeFresh /\ instance' = Fresh /\ link' = [link EXCEPT ![Fresh] = "wait"]
      BY <1>1, <2>3 DEF AskForClient, GetRedisClient
    <3>2. Fresh \in Clients /\ Fresh \in 0..MaxClients
      BY <3>1, FreshFacts
    <3>3. \A c \in RedisCallers : dial[c].state \notin {"connect", "ping"}
      BY <2>3 DEF RedisInv
    <3>4. OnlyFailuresLeak'
      <4> SUFFICES ASSUME NEW i \in Clients, link'[i] \in {"connecting", "ready", "reconnecting"}
                   PROVE  i \in forgotten'
        BY DEF OnlyFailuresLeak
      <4>1. link'[i] = link[i] /\ i # 0
        BY <3>1, <3>2, ConnectionsAssumption DEF RedisInv, Clients
      <4>2. QED
        BY <2>1, <2>3, <4>1 DEF RedisInv, OnlyFailuresLeak
    <3>5. QED
      BY <2>1, <3>1, <3>2, <3>3, <3>4 DEF RedisInv, ConnectingIsReal
  <2>4. QED
    BY <2>2, <2>3
<1>2. CASE DisconnectRedis
  <2>1. /\ instance' = 0 /\ ~isConnecting /\ UNCHANGED <<isConnecting, forgotten, dial>>
        /\ link' = [link EXCEPT ![instance] = "ended"]
    BY <1>2 DEF DisconnectRedis
  <2>2. \A c \in RedisCallers : dial[c].state \notin {"connect", "ping"}
    BY <2>1 DEF RedisInv
  <2>3. OnlyFailuresLeak'
    BY <2>1 DEF RedisInv, OnlyFailuresLeak
  <2>4. 0 \in 0..MaxClients
    BY ConnectionsAssumption
  <2>5. QED
    BY <2>1, <2>2, <2>3, <2>4 DEF RedisInv, ConnectingIsReal
<1>3. ASSUME NEW i \in Clients, LinkBreaks(i) \/ LinkReturns(i) PROVE RedisInv'
  <2>1. PICK s : /\ link[i] \in {"ready", "reconnecting"} /\ link' = [link EXCEPT ![i] = s]
                 /\ UNCHANGED <<instance, isConnecting, forgotten, dial>>
    BY <1>3 DEF LinkBreaks, LinkReturns
  <2>2. OnlyFailuresLeak'
    BY <2>1 DEF RedisInv, OnlyFailuresLeak
  <2>3. QED
    BY <2>1, <2>2 DEF RedisInv, ConnectingIsReal
<1>4. QED
  BY <1>1, <1>2, <1>3

(***************************************************************************)
(* For any number of callers: an open connection that getRedisClient does  *)
(* not hand out was given up by a failed connectRedis or found not ready   *)
(* by a later one, and connectRedis refuses a start only while another one *)
(* is under way (redis-client.ts).                                         *)
(***************************************************************************)
THEOREM OneRedisClient == RedisSpec => [](OnlyFailuresLeak /\ ConnectingIsReal)
<1>1. RedisInit => RedisInv
  <2> SUFFICES ASSUME RedisInit PROVE RedisInv
    OBVIOUS
  <2>1. instance \in 0..MaxClients /\ 0 \in 0..MaxClients
    BY ConnectionsAssumption DEF RedisInit
  <2>2. dial \in [RedisCallers -> Dials] /\ \A c \in RedisCallers : dial[c].state = "idle"
    BY <2>1 DEF RedisInit, Dials
  <2>3. isConnecting = FALSE
    BY DEF RedisInit
  <2>4. isConnecting \in BOOLEAN
    BY <2>3
  <2>5. DOMAIN link = Clients /\ OnlyFailuresLeak
    BY DEF RedisInit, OnlyFailuresLeak
  <2>6. QED
    BY <2>1, <2>2, <2>3, <2>4, <2>5 DEF RedisInv, ConnectingIsReal
<1>2. RedisInv /\ [RedisNext]_redisVars => RedisInv'
  <2>1. RedisInv /\ UNCHANGED redisVars => RedisInv'
    BY DEF redisVars, RedisInv, ConnectingIsReal, OnlyFailuresLeak
  <2>2. QED
    BY <2>1, StartKeeps, DialKeeps, ClientsKeep DEF RedisNext
<1>3. RedisInv => OnlyFailuresLeak /\ ConnectingIsReal
  BY DEF RedisInv
<1>4. QED
  BY <1>1, <1>2, <1>3, PTL DEF RedisSpec

-----------------------------------------------------------------------------
(* Connections: the database client *)

DbSpec == DbInit /\ [][DbNext]_dbVars

\* Who is starting holds the client that getPrismaClient hands out.
DbInv ==
    /\ prisma \in Nat /\ made \in Nat
    /\ init \in [DbCallers -> {"idle", "query", "pause", "ready", "threw"}]
    /\ DOMAIN holds = DbCallers
    /\ \A c \in DbCallers : init[c] \in {"query", "pause"} => holds[c] = prisma /\ prisma # 0

(***************************************************************************)
(* For any number of callers and tries: all who start the database at the  *)
(* same time hold one client (getPrismaClient, initializeDatabase).        *)
(***************************************************************************)
THEOREM OnePrismaClient == DbSpec => []OnePool
<1>1. DbInit => DbInv
  BY DEF DbInit, DbInv
<1>2. DbInv /\ [DbNext]_dbVars => DbInv'
  <2> SUFFICES ASSUME DbInv, [DbNext]_dbVars PROVE DbInv'
    OBVIOUS
  <2>1. CASE UNCHANGED dbVars
    BY <2>1 DEF dbVars, DbInv
  <2>2. ASSUME NEW c \in DbCallers, InitializeDatabase(c) PROVE DbInv'
    <3>1. /\ holds' = [holds EXCEPT ![c] = prisma'] /\ init' = [init EXCEPT ![c] = "query"]
          /\ prisma' \in Nat /\ made' \in Nat /\ prisma' # 0
          /\ prisma # 0 => prisma' = prisma
      BY <2>2 DEF InitializeDatabase, GetPrismaClient, DbInv
    <3>2. QED
      BY <3>1 DEF DbInv
  <2>3. ASSUME NEW c \in DbCallers, DbSteps(c) PROVE DbInv'
    BY <2>3 DEF DbSteps, QueryAnswers, QueryFails, PauseEnds, DbInv
  <2>4. CASE DisconnectDatabase
    BY <2>4 DEF DisconnectDatabase, DbInv
  <2>5. QED
    BY <2>1, <2>2, <2>3, <2>4 DEF DbNext
<1>3. DbInv => OnePool
  BY DEF DbInv, OnePool
<1>4. QED
  BY <1>1, <1>2, <1>3, PTL DEF DbSpec

-----------------------------------------------------------------------------
(* Connections: the circuits of the HTTP client *)

HttpSpec == HttpInit /\ [][HttpNext]_httpVars

Windows == [state : {"closed", "open", "halfOpen"}, fires : Nat, failures : Nat]

HttpInv ==
    /\ circuit \in [Sites -> Windows]
    /\ unreached \in [Sites -> BOOLEAN]
    /\ HostsAreIsolated

LEMMA WindowFacts ==
    ASSUME NEW w \in Windows
    PROVE  /\ AfterAnswer(w) \in Windows /\ AfterAnswer(w).state = "closed"
           /\ AfterFailure(w) \in Windows
           /\ NewWindow \in Windows /\ [NewWindow EXCEPT !.state = "halfOpen"] \in Windows
           /\ NewWindow.state = "closed"
<1>0. PICK f \in Nat, g \in Nat : f = w.fires + 1 /\ g = w.failures + 1
  BY DEF Windows
<1>1. AfterAnswer(w) \in Windows /\ AfterAnswer(w).state = "closed"
  <2>1. AfterAnswer(w) = [w EXCEPT !.fires = f, !.state = "closed"]
    BY <1>0 DEF AfterAnswer
  <2>2. QED
    BY <2>1 DEF Windows
<1>2. AfterFailure(w) \in Windows
  <2> DEFINE next == [w EXCEPT !.fires = f, !.failures = g]
  <2>1. next \in Windows /\ [next EXCEPT !.state = "open"] \in Windows
    BY DEF Windows
  <2>2. AfterFailure(w) \in {next, [next EXCEPT !.state = "open"]}
    BY <1>0 DEF AfterFailure
  <2>3. QED
    BY <2>1, <2>2
<1>3. NewWindow \in Windows /\ [NewWindow EXCEPT !.state = "halfOpen"] \in Windows
  BY DEF NewWindow, Windows
<1>4. QED
  BY <1>1, <1>2, <1>3 DEF NewWindow

(***************************************************************************)
(* For any number of hosts and any thresholds: the circuit of a host opens *)
(* for failures of that host alone (CircuitBreakerHttpClient.post).        *)
(***************************************************************************)
THEOREM CircuitsStayIsolated == HttpSpec => []HostsAreIsolated
<1>1. HttpInit => HttpInv
  BY DEF HttpInit, HttpInv, HostsAreIsolated, Windows, NewWindow
<1>2. HttpInv /\ [HttpNext]_httpVars => HttpInv'
  <2> SUFFICES ASSUME HttpInv, [HttpNext]_httpVars PROVE HttpInv'
    OBVIOUS
  <2>1. CASE UNCHANGED httpVars
    BY <2>1 DEF httpVars, HttpInv, HostsAreIsolated
  <2>2. ASSUME NEW h \in Sites, PostAnswered(h) PROVE HttpInv'
    <3>1. /\ circuit' = [s \in Sites |-> IF s = h THEN AfterAnswer(circuit[s]) ELSE circuit[s]]
          /\ UNCHANGED unreached
      BY <2>2 DEF PostAnswered, Record, BreakerKey
    <3>2. \A s \in Sites : /\ circuit'[s] \in Windows
                           /\ circuit'[s].state # "closed" => circuit'[s] = circuit[s]
      BY <3>1, WindowFacts DEF HttpInv
    <3>3. circuit' \in [Sites -> Windows]
      BY <3>1, <3>2
    <3>4. QED
      BY <3>1, <3>2, <3>3 DEF HttpInv, HostsAreIsolated
  <2>3. ASSUME NEW h \in Sites, PostFails(h) PROVE HttpInv'
    <3>1. /\ circuit' = [s \in Sites |-> IF s = h THEN AfterFailure(circuit[s]) ELSE circuit[s]]
          /\ unreached' = [unreached EXCEPT ![h] = TRUE]
      BY <2>3 DEF PostFails, Record, BreakerKey
    <3>2. \A s \in Sites : /\ circuit'[s] \in Windows
                           /\ s # h => circuit'[s] = circuit[s] /\ unreached'[s] = unreached[s]
      BY <3>1, WindowFacts DEF HttpInv
    <3>3. circuit' \in [Sites -> Windows] /\ unreached' \in [Sites -> BOOLEAN]
      BY <3>1, <3>2 DEF HttpInv
    <3>4. unreached'[h]
      BY <3>1 DEF HttpInv
    <3>5. QED
      BY <3>2, <3>3, <3>4 DEF HttpInv, HostsAreIsolated
  <2>4. ASSUME NEW h \in Sites, WindowPasses(h) PROVE HttpInv'
    BY <2>4, WindowFacts DEF WindowPasses, HttpInv, HostsAreIsolated
  <2>5. ASSUME NEW h \in Sites, ResetElapses(h) PROVE HttpInv'
    BY <2>5, WindowFacts DEF ResetElapses, HttpInv, HostsAreIsolated
  <2>6. QED
    BY <2>1, <2>2, <2>3, <2>4, <2>5 DEF HttpNext
<1>3. HttpInv => HostsAreIsolated
  BY DEF HttpInv
<1>4. QED
  BY <1>1, <1>2, <1>3, PTL DEF HttpSpec
=============================================================================
