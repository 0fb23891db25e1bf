----------------------------- MODULE QueueWatch -----------------------------
(***************************************************************************)
(* Who looks at the depth of the queue, and what they make of it:          *)
(* QueueMetricsCollector sums counts it reads one after the other,         *)
(* BackpressureMonitor and BackpressureHandler read the depth three times  *)
(* for one decision, AdaptiveLimiter computes a new concurrency from the   *)
(* one its caller had.  Jobs move between the reads.                       *)
(***************************************************************************)
EXTENDS Naturals, FiniteSets, FiniteSetsExt

CONSTANTS
    Threshold,      \* queueDepthThreshold
    MinConcurrency,
    MaxConcurrency,
    Adjusters,      \* calls of adjustConcurrency that can be under way
    MaxDepth        \* bound: jobs in the queue, and moves during a sample

ASSUME WatchAssumption ==
    /\ Threshold \in Nat \ {0} /\ MaxDepth \in Nat
    /\ MinConcurrency \in Nat \ {0} /\ MaxConcurrency \in Nat /\ MinConcurrency <= MaxConcurrency

VARIABLES
    look,           \* who looks in this execution: "sample", "check" or "adjust"
    waiting, active,
    sample,         \* the collector's reads, with the churn since they began
    gauge,          \* what it published last, with that churn
    lastDepth,      \* QueueMonitor.lastDepth
    peak,           \* history: largest depth since the reading before the check
    check,          \* the check under way, or the decision of the last one
    concurrency,    \* currentConcurrency
    adjust          \* per adjuster: the concurrency its caller passed, or 0

watchVars == <<look, waiting, active, sample, gauge, lastDepth, peak, check, concurrency, adjust>>

Depth == waiting + active
NoSample == [at |-> "idle"]

WatchInit ==
    /\ look \in {"sample", "check", "adjust"}
    /\ waiting = 0 /\ active = 0
    /\ sample = NoSample /\ gauge = NoSample
    /\ lastDepth = 0 /\ peak = 0
    /\ check = [at |-> 0, kind |-> "none", under |-> FALSE, verdict |-> 0]
    /\ concurrency = MinConcurrency /\ adjust = [a \in Adjusters |-> 0]

-----------------------------------------------------------------------------
(* The queue *)

Churn(kind) ==
    IF sample = NoSample THEN NoSample
    ELSE [sample EXCEPT ![kind] = @ + 1,
                        !.low = Min({@, waiting' + active'}),
                        !.high = Max({@, waiting' + active'})]
QueueMoves(w, a, kind) ==
    /\ sample # NoSample => sample[kind] < MaxDepth
    /\ waiting' = w /\ active' = a
    /\ sample' = Churn(kind)
    /\ peak' = IF look = "check" THEN Max({peak, w + a}) ELSE peak
    /\ UNCHANGED <<look, gauge, lastDepth, check, concurrency, adjust>>

\* Only the collector tells waiting jobs from active ones.
AddJob == Depth < MaxDepth /\ QueueMoves(waiting + 1, active, "missed")
TakeJob == look = "sample" /\ waiting > 0 /\ QueueMoves(waiting - 1, active + 1, "taken")
RetryJob == look = "sample" /\ active > 0 /\ QueueMoves(waiting + 1, active - 1, "missed")
EndJob ==
    \/ active > 0 /\ QueueMoves(waiting, active - 1, "ended")
    \/ look # "sample" /\ waiting > 0 /\ QueueMoves(waiting - 1, active, "ended")

-----------------------------------------------------------------------------
(* QueueMetricsCollector.collect *)

Reads(value) == [sample EXCEPT !.at = "half", !.part = value]
Published(value) == [sample EXCEPT !.at = "out", !.part = @ + value, !.ended = 0]

BeginSample ==
    /\ look = "sample" /\ sample = NoSample
    /\ sample' = [at |-> "begun", part |-> 0, low |-> Depth, high |-> Depth,
                  missed |-> 0, taken |-> 0, ended |-> 0]
    /\ gauge' = NoSample
    /\ UNCHANGED <<look, waiting, active, lastDepth, peak, check, concurrency, adjust>>

\* getWaitingCount, then getActiveCount; the sum is mainDepth.
WaitingFirst ==
    \/ /\ sample.at = "begun" /\ sample' = Reads(waiting) /\ UNCHANGED gauge
    \/ /\ sample.at = "half" /\ sample' = NoSample
       /\ gauge' = Published(active)

Sample ==
    /\ sample # NoSample /\ WaitingFirst
    /\ UNCHANGED <<look, waiting, active, lastDepth, peak, check, concurrency, adjust>>

-----------------------------------------------------------------------------
(* QueueMonitor, BackpressureMonitor and BackpressureHandler *)

LevelEarly(depth) ==
    LET pct == (depth * 100) \div Threshold IN
    CASE pct < 25 -> "low" [] pct \in 25..74 -> "high" [] OTHER -> "critical"

\* getPressureLevel
Level(depth) ==
    LET pct == (depth * 100) \div Threshold IN
    CASE pct < 25 -> "low" [] pct \in 25..49 -> "medium" [] pct \in 50..74 -> "high"
      [] OTHER -> "critical"

UnderPressure(depth) == depth * 100 >= 75 * Threshold
ShedPercentage(under, level) ==
    CASE ~under /\ level \notin {"high", "critical"} -> 0
      [] level = "critical" -> 25
      [] level = "high" -> 10
      [] OTHER -> 5

\* getQueueStats: if the counts cannot be read, the last depth stands.
Readings == {Depth, lastDepth}

BeginCheck(kind) ==
    /\ look = "check" /\ check.at = 0
    /\ check' = [at |-> 1, kind |-> kind, under |-> FALSE, verdict |-> 0]
    /\ UNCHANGED <<look, waiting, active, sample, gauge, lastDepth, peak, concurrency, adjust>>

(***************************************************************************)
(* checkAndShed awaits the depth, isUnderPressure and getPressureLevel,    *)
(* checkBackpressure the percentage, the depth and isUnderBackpressure.    *)
(***************************************************************************)
CheckReads ==
    /\ check.at \in 1..3
    /\ \E depth \in Readings :
         /\ lastDepth' = depth
         /\ check' = [check EXCEPT
                !.at = IF @ = 3 THEN 0 ELSE @ + 1,
                !.under = IF check.at = 2 THEN UnderPressure(depth) ELSE @,
                !.verdict = IF check.at < 3 THEN @
                            ELSE IF check.kind = "shed" THEN ShedPercentage(check.under, Level(depth))
                            ELSE IF UnderPressure(depth) THEN 100 ELSE 0]
         /\ peak' = IF check.at = 3 /\ check'.verdict = 0 THEN Max({depth, Depth}) ELSE peak
    /\ UNCHANGED <<look, waiting, active, sample, gauge, concurrency, adjust>>

-----------------------------------------------------------------------------
(* AdaptiveLimiter.adjustConcurrency *)

Ceil(n, d) == (n + d - 1) \div d
Grow(current) == Min({MaxConcurrency, Ceil(current * 11, 10)})

Target(current, level) ==
    CASE level = "critical" -> Max({MinConcurrency, current \div 2})
      [] level = "high" -> Max({MinConcurrency, (current * 8) \div 10})
      [] level = "low" -> Grow(current)
      [] OTHER -> current

BeginAdjust(a) ==
    /\ look = "adjust" /\ adjust[a] = 0
    /\ adjust' = [adjust EXCEPT ![a] = concurrency]
    /\ UNCHANGED <<look, waiting, active, sample, gauge, lastDepth, peak, check, concurrency>>

\* The level has been read.
Adjust(a) ==
    /\ adjust[a] # 0
    /\ \E depth \in Readings :
         /\ lastDepth' = depth
         /\ LET target == Target(adjust[a], Level(depth))
            IN  concurrency' = IF target # adjust[a] THEN target ELSE concurrency
    /\ adjust' = [adjust EXCEPT ![a] = 0]
    /\ UNCHANGED <<look, waiting, active, sample, gauge, peak, check>>

WatchNext ==
    \/ AddJob \/ TakeJob \/ EndJob \/ RetryJob
    \/ BeginSample \/ Sample
    \/ CheckReads \/ \E kind \in {"shed", "alarm"} : BeginCheck(kind)
    \/ \E a \in Adjusters : BeginAdjust(a) \/ Adjust(a)

-----------------------------------------------------------------------------
(* Properties *)

(***************************************************************************)
(* The depth the collector publishes was not necessarily ever there, but   *)
(* it is off by no more than the jobs that moved while it was reading: one *)
(* taken meanwhile is counted twice, one added or returned is missed.      *)
(***************************************************************************)
SampleIsNearlyTrue ==
    gauge # NoSample =>
        /\ gauge.part <= gauge.high + gauge.taken
        /\ gauge.low <= gauge.part + gauge.missed

(***************************************************************************)
(* Jobs are shed, or an alarm is raised, only if the queue really was that *)
(* deep at some time since the reading before: half the threshold to shed, *)
(* three quarters for the alarm.                                           *)
(***************************************************************************)
PressureIsReal ==
    check.at = 0 /\ check.verdict > 0 =>
        peak * 100 >= (IF check.kind = "shed" THEN 50 ELSE 75) * Threshold

(***************************************************************************)
(* A concurrency cut down under pressure comes back to its maximum when    *)
(* the queue stays empty and each adjuster keeps running, although they    *)
(* overwrite each other's value with one computed from an older one.       *)
(***************************************************************************)
ConcurrencyComesBack ==
    (/\ <>[](Depth = 0 /\ lastDepth = 0)
     /\ \A a \in Adjusters : []<>(adjust[a] = 0) /\ []<>(adjust[a] # 0))
        => <>[](look = "adjust" => concurrency = MaxConcurrency)

(***************************************************************************)
(* Readings of a queue that changes while it is read are near the truth,   *)
(* and so are the measures taken on them.                                  *)
(***************************************************************************)
LoadIsJudged ==
    /\ [](SampleIsNearlyTrue /\ PressureIsReal)
    /\ ConcurrencyComesBack
=============================================================================
