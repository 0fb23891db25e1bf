------------------------------ MODULE Retrying ------------------------------
(***************************************************************************)
(* RetryExecutor.execute for several concurrent callers of one executor,   *)
(* each with an operation that may run under TimeoutHandler.  Promise.race *)
(* abandons an operation without stopping it: it goes on running beside    *)
(* the next attempt.  Time is in fifths of a second, so that the jitter of *)
(* 20% is an integer; a timer fires at its time or later.  A call knows    *)
(* how long it has run, up to the first instant beyond the policy's        *)
(* timeout, and how far away its timer is.                                 *)
(***************************************************************************)
EXTENDS Classifiers, Integers, FiniteSets

CONSTANTS
    Callers,
    Guarded,        \* the callers whose operation runs under TimeoutHandler
    MaxAttempts,    \* policy.maxAttempts
    Timeout,        \* policy.timeout, 0 for none
    OpTimeout,      \* the timeout of TimeoutHandler
    Strategy,       \* "LINEAR", "FIXED" or "EXPONENTIAL"
    Errors          \* what an operation may reject with

ASSUME RetryAssumption ==
    /\ Guarded \subseteq Callers
    /\ MaxAttempts \in Nat \ {0} /\ Timeout \in Nat /\ OpTimeout \in Nat \ {0}
    /\ Strategy \in {"LINEAR", "FIXED", "EXPONENTIAL"}
    /\ Errors \subseteq Failures

VARIABLES
    call,       \* per caller: the state of its execute
    running,    \* per caller: the attempts whose operation has not settled
    metrics     \* RetryMetrics, shared by all callers

retryVars == <<call, running, metrics>>

TimedOut == [status |-> 0, word |-> "timeout"]
NoCall == [at |-> "idle"]
RetryCalls ==
    [at : {"calling", "sleeping", "returned", "thrown"}, attempt : 1..MaxAttempts,
     elapsed : 0..Timeout + 1, timer : Nat, waited : Nat,
     timeouts : 0..MaxAttempts, last : SUBSET (Errors \cup {TimedOut})]
Counters == {"total", "successful", "failed", "first", "retried", "exceeded"}

(***************************************************************************)
(* The type invariant of calls, operations and metrics.                    *)
(***************************************************************************)
RetryTypeOK ==
    /\ \A c \in Callers :
         /\ call[c] = NoCall \/ call[c] \in RetryCalls
         /\ running[c] \subseteq 1..MaxAttempts
    /\ metrics \in [Counters -> Nat]

RetryInit ==
    /\ call = [c \in Callers |-> NoCall]
    /\ running = [c \in Callers |-> {}]
    /\ metrics = [k \in Counters |-> 0]

-----------------------------------------------------------------------------
(* Delays *)

AtMost(limit, n) == IF n > limit THEN limit ELSE n
AtLeast(limit, n) == IF n < limit THEN limit ELSE n

\* Math.pow(2, n), for as many attempts as a policy has.
PowerOfTwo[n \in 0..MaxAttempts] == IF n = 0 THEN 1 ELSE 2 * PowerOfTwo[n - 1]

\* A second is five units.  Jitter adds up to a fifth.
ExponentialBackoff(attempt) ==
    LET raw == 5 * PowerOfTwo[AtLeast(0, attempt - 1)]
    IN  {AtMost(Timeout, raw + jitter) : jitter \in {0, raw \div 5}}
LinearBackoff(attempt) == {AtMost(Timeout, 5 * AtLeast(1, attempt))}
FixedBackoff == {5}

NextDelay(attempt) ==
    CASE Strategy = "LINEAR" -> LinearBackoff(attempt)
      [] Strategy = "FIXED" -> FixedBackoff
      [] OTHER -> ExponentialBackoff(attempt)

\* The domain's RetryStrategyVO.calculateDelay and calculateBackoff, with
\* the same base and cap, without jitter: the second is one power ahead.
CalculateDelay(attempt) == AtMost(Timeout, 5 * PowerOfTwo[AtLeast(1, attempt) - 1])
CalculateBackoff(attempt) ==
    IF attempt <= 1 THEN CalculateDelay(1) ELSE AtMost(Timeout, 5 * PowerOfTwo[attempt])

-----------------------------------------------------------------------------
(* RetryExecutor.execute *)

Counted(ks) == [k \in Counters |-> IF k \in ks THEN metrics[k] + 1 ELSE metrics[k]]

TimeIsUp(c) == Timeout > 0 /\ call[c].elapsed > Timeout
TimeRemains(c) == Timeout = 0 \/ call[c].elapsed < Timeout

ShouldRetry(c, failure) == call[c].attempt < MaxAttempts /\ IsTransient(failure)

Execute(c) ==
    /\ call[c] = NoCall
    /\ call' = [call EXCEPT ![c] = [at |-> "calling", attempt |-> 1, elapsed |-> 0,
                  timer |-> OpTimeout, waited |-> 0, timeouts |-> 0, last |-> {}]]
    /\ running' = [running EXCEPT ![c] = {1}]
    /\ metrics' = Counted({"total"})

\* The catch block: sleep before another attempt, or throw.
Sleep(c, failure, delay) ==
    call' = [call EXCEPT ![c] = [call[c] EXCEPT !.at = "sleeping", !.last = {failure},
              !.timer = delay, !.waited = delay,
              !.timeouts = IF c \in Guarded /\ failure = TimedOut THEN @ + 1 ELSE @]]

Catch(c, failure) ==
    \/ /\ ShouldRetry(c, failure) /\ TimeRemains(c)
       /\ \E delay \in NextDelay(call[c].attempt) : Sleep(c, failure, delay)
       /\ metrics' = Counted({"failed"})
    \/ /\ ~(ShouldRetry(c, failure) /\ TimeRemains(c))
       /\ call' = [call EXCEPT ![c] = [call[c] EXCEPT !.at = "thrown", !.last = {failure}]]
       /\ metrics' = Counted({"failed", "exceeded"})

NextAttemptUnawaited(c) ==
    /\ call[c] # NoCall /\ call[c].at \in {"calling", "sleeping"}
    /\ call[c].attempt < MaxAttempts
    /\ call' = [call EXCEPT ![c] = [call[c] EXCEPT !.at = "calling", !.attempt = @ + 1]]
    /\ running' = [running EXCEPT ![c] = @ \cup {call[c].attempt + 1}]
    /\ metrics' = Counted({"total", "failed"})

\* The sleep is over and the loop goes on: the attempt is counted and,
\* unless the time is up, the operation starts.
NextAttempt(c) ==
    /\ call[c] # NoCall /\ call[c].at = "sleeping"
    /\ call[c].timer = 0
    /\ \/ /\ ~TimeIsUp(c)
          /\ call' = [call EXCEPT ![c] = [call[c] EXCEPT !.at = "calling", !.attempt = @ + 1,
                                                          !.timer = OpTimeout]]
          /\ running' = [running EXCEPT ![c] = @ \cup {call[c].attempt + 1}]
          /\ metrics' = Counted({"total"})
       \/ /\ TimeIsUp(c)
          /\ call' = [call EXCEPT ![c] = [call[c] EXCEPT !.at = "thrown", !.attempt = @ + 1,
                                                          !.last = {TimedOut}]]
          /\ metrics' = Counted({"total", "failed", "exceeded"})
          /\ UNCHANGED running

Awaited(c, attempt) == call[c].at = "calling" /\ call[c].attempt = attempt

\* An operation resolves; only the awaited one is heard.
Resolve(c, attempt) ==
    /\ attempt \in running[c]
    /\ running' = [running EXCEPT ![c] = @ \ {attempt}]
    /\ IF Awaited(c, attempt)
       THEN /\ call' = [call EXCEPT ![c].at = "returned"]
            /\ metrics' = Counted({"successful", IF attempt = 1 THEN "first" ELSE "retried"})
       ELSE UNCHANGED <<call, metrics>>

Reject(c, attempt, failure) ==
    /\ attempt \in running[c]
    /\ running' = [running EXCEPT ![c] = @ \ {attempt}]
    /\ IF Awaited(c, attempt) THEN Catch(c, failure) ELSE UNCHANGED <<call, metrics>>

\* TimeoutHandler.executeWithTimeout: the timer wins the race.
TimerFires(c) ==
    /\ c \in Guarded
    /\ call[c] # NoCall /\ call[c].at = "calling"
    /\ call[c].timer = 0
    /\ Catch(c, TimedOut)
    /\ UNCHANGED running

\* Time passes for every open call.
Passing(r) ==
    IF r = NoCall \/ r.at \in {"returned", "thrown"} THEN r
    ELSE [r EXCEPT !.elapsed = AtMost(Timeout + 1, @ + 1), !.timer = AtLeast(0, @ - 1)]

RetryTick ==
    /\ call' = [c \in Callers |-> Passing(call[c])]
    /\ UNCHANGED <<running, metrics>>

RetryNext ==
    \/ RetryTick
    \/ \E c \in Callers :
         \/ Execute(c) \/ NextAttempt(c) \/ TimerFires(c)
         \/ \E attempt \in 1..MaxAttempts :
              Resolve(c, attempt) \/ \E failure \in Errors : Reject(c, attempt, failure)

RetrySpec == RetryInit /\ [][RetryNext]_retryVars

-----------------------------------------------------------------------------
Open(c) == call[c] # NoCall /\ call[c].at = "calling"
Settled(c) == call[c] # NoCall /\ call[c].at \in {"returned", "thrown"}

(***************************************************************************)
(* The shared counters of RetryMetrics add up whatever the interleaving:   *)
(* an attempt is successful, failed or still awaited, a success is a first *)
(* or a retried one, and maxRetriesExceeded counts the calls that threw.   *)
(***************************************************************************)
MetricsAddUp ==
    /\ metrics["total"] = metrics["successful"] + metrics["failed"]
                            + Cardinality({c \in Callers : Open(c)})
    /\ metrics["successful"] = metrics["first"] + metrics["retried"]
    /\ metrics["exceeded"] =
         Cardinality({c \in Callers : call[c] # NoCall /\ call[c].at = "thrown"})

(***************************************************************************)
(* An abandoned operation runs on beside the next attempt, but only after  *)
(* a timeout: a caller has at most one operation more than it had timeouts *)
(* (Promise.race in TimeoutHandler).                                       *)
(***************************************************************************)
OrphansNeedTimeouts ==
    \A c \in Callers : call[c] # NoCall /\ call[c].at # "thrown" =>
        Cardinality(running[c] \ {call[c].attempt}) <= call[c].timeouts

(***************************************************************************)
(* execute gives up only for a reason: the failure is not transient, the   *)
(* attempts are used up or the time of the policy is.                      *)
(***************************************************************************)
GivesUpForAReason ==
    \A c \in Callers : call[c] # NoCall /\ call[c].at = "thrown" =>
        \/ \E failure \in call[c].last : ~IsTransient(failure)
        \/ call[c].attempt = MaxAttempts
        \/ ~TimeRemains(c)

(***************************************************************************)
(* What holds of the metrics, the operations and the ends of all calls     *)
(* whatever the delays are.                                                *)
(***************************************************************************)
RetriesAreSafe == MetricsAddUp /\ OrphansNeedTimeouts /\ GivesUpForAReason

(***************************************************************************)
(* While a caller sleeps the delay is a real one, and no longer than what  *)
(* the domain's calculateBackoff would wait for the same attempt plus a    *)
(* fifth (two implementations of one formula).                             *)
(***************************************************************************)
DelaysAreSane ==
    \A c \in Callers : call[c] # NoCall /\ call[c].at = "sleeping" =>
        /\ call[c].waited > 0
        /\ Strategy = "EXPONENTIAL" =>
             /\ call[c].waited >= CalculateDelay(call[c].attempt)
             /\ call[c].waited <= (6 * CalculateBackoff(call[c].attempt)) \div 5

(***************************************************************************)
(* What a caller threw is judged alike by the connector and the classifier *)
(* of the worker, and the classifier gives up nothing that the guard or    *)
(* the domain error would retry.                                           *)
(***************************************************************************)
ClassifiersAgree ==
    \A c \in Callers : call[c] # NoCall =>
        \A failure \in call[c].last :
            /\ ConnectorAndClassifierAgree(failure)
            /\ ClassifierIsGenerous(failure) /\ UnansweredIsTransient(failure)

(***************************************************************************)
(* Under TimeoutHandler every execute settles, even if no operation does.  *)
(***************************************************************************)
GuardedCallsSettle ==
    \A c \in Guarded : Open(c) ~> Settled(c)

(***************************************************************************)
(* What RetryExecutor promises under TimeoutHandler: counters that add up, *)
(* no second operation without a timeout, no surrender without a reason,   *)
(* real delays, and an end.                                                *)
(***************************************************************************)
RetriesAreSound ==
    /\ [](RetryTypeOK /\ RetriesAreSafe /\ DelaysAreSane)
    /\ GuardedCallsSettle
=============================================================================
