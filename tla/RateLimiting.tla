---------------------------- MODULE RateLimiting ----------------------------
(***************************************************************************)
(* The request limiters of src/security, for one key.  All keep their      *)
(* state in Redis and reach it with single commands, so the requests of    *)
(* several API processes interleave between reading and writing it; some   *)
(* fall back to the memory of their process when Redis fails:              *)
(*   "sliding"  SlidingWindowCounter: ZREMRANGEBYSCORE, ZADD, ZCARD        *)
(*   "advanced" AdvancedRateLimiter: ZADD of the time itself, then         *)
(*              ZREMRANGEBYSCORE, ZCARD                                    *)
(*   "legacy"   rate-limit/RateLimiter: GET, refill, SETEX                 *)
(*   "floor"    TokenBucket: GET, refill by at least refillRate, SETEX     *)
(*   "burst"    BurstAllowanceManager: GET, SETEX                          *)
(*   "quota"    QuotaTracker: GET in checkQuota, INCRBY in trackUsage      *)
(***************************************************************************)
EXTENDS Integers, FiniteSets, FiniteSetsExt

CONSTANTS
    Limiters,       \* the limiters looked at, each in executions of its own
    ApiNodes,       \* API processes
    Callers,        \* requests that can be under way at a time
    Limit,          \* requests per window
    Rate,           \* tokens refilled per tick
    Window,         \* ticks; a window refills an empty bucket
    Asks,           \* tokens a call may ask TokenBucket for
    MaxHits,        \* bound: requests
    MaxTime,        \* bound: ticks
    MaxOutages      \* bound: failed commands, and resets

ASSUME LimitAssumption ==
    /\ Limiters \subseteq {"sliding", "advanced", "legacy", "floor", "burst", "quota"}
    /\ "redis" \notin ApiNodes
    /\ Rate \in Nat \ {0} /\ Window \in Nat \ {0} /\ Limit \in Nat \ {0}
    /\ Asks \subseteq 1..Rate * Window /\ IsFiniteSet(Callers) /\ IsFiniteSet(ApiNodes)
    /\ MaxHits \in Nat /\ MaxTime \in Nat /\ MaxOutages \in Nat

VARIABLES
    limiter,    \* the limiter of this execution
    clock,
    redis,      \* its value in Redis: a set of hits, or at most one element
    memory,     \* per process: the fallback value
    call,       \* per caller: the check under way
    hits,       \* requests so far
    granted,    \* history: the granted requests
    refused,    \* history: what refused requests had asked for
    slack,      \* history: grants nobody paid for, see PutBack and Reset
    outages     \* failed commands and resets so far

limitVars == <<limiter, clock, redis, memory, call, hits, granted, refused, slack, outages>>

Capacity == Rate * Window       \* tokens of a full bucket
NoCall == [at |-> "idle"]
NoBucket == [tokens |-> 0, last |-> 0]  \* none read yet
InFlight == {c \in Callers : call[c] # NoCall}
Sources == ApiNodes \cup {"redis"}

LimitInit ==
    /\ limiter \in Limiters
    /\ clock = 0 /\ hits = 0 /\ slack = 0 /\ outages = 0
    /\ redis = {} /\ memory = [n \in ApiNodes |-> {}]
    /\ call = [c \in Callers |-> NoCall]
    /\ granted = {} /\ refused = {}

-----------------------------------------------------------------------------
(* Arithmetic of the limiters *)

\* The hits of a sorted set that zremrangebyscore(0, t - window) leaves.
Trimmed(window, t) == {h \in window : h.score > t - Window}

\* getRefilledBucket, tryConsume.
Refill(b, t) ==
    IF limiter = "floor" THEN Max({Rate, (t - b.last) * Rate}) ELSE (t - b.last) * Rate

\* A missing bucket is a full one.
Refilled(raw, t) ==
    IF raw = {} THEN [tokens |-> Capacity, last |-> t]
    ELSE LET b == CHOOSE x \in raw : TRUE
         IN  [tokens |-> IF limiter = "burst" THEN b.tokens
                         ELSE Min({Capacity, b.tokens + Refill(b, t)}),
              last |-> t]

Consumed(b, ask) == {[b EXCEPT !.tokens = @ - ask]}
Counted(raw) == IF raw = {} THEN 0 ELSE CHOOSE x \in raw : TRUE

-----------------------------------------------------------------------------
(* A request *)

Goes(c, to) == call' = [call EXCEPT ![c] = to]

Settle(c, ok, via) ==
    /\ Goes(c, NoCall)
    /\ granted' = IF ok THEN granted \cup {[id |-> call[c].id, at |-> call[c].t, via |-> via]}
                        ELSE granted
    /\ refused' = IF ok THEN refused ELSE refused \cup {call[c].ask}

Arrive(c, n, ask) ==
    /\ call[c] = NoCall /\ hits < MaxHits
    /\ ask = 1 \/ limiter = "floor"
    /\ hits' = hits + 1
    /\ Goes(c, [at |-> CASE limiter = "sliding" -> "trim" [] limiter = "advanced" -> "add"
                            [] OTHER -> "get",
                node |-> n, t |-> clock, id |-> hits, ask |-> ask, bucket |-> NoBucket])
    /\ UNCHANGED <<limiter, clock, redis, memory, granted, refused, slack, outages>>

Waits(c, at) == call[c].at = at
LimitRest == UNCHANGED <<limiter, clock, hits>>

\* Members of the sorted set: a request of its own, or its millisecond.
Member(c) ==
    [score |-> call[c].t, id |-> IF limiter = "sliding" THEN call[c].id ELSE call[c].t]

Trim(c) ==
    /\ Waits(c, "trim")
    /\ redis' = Trimmed(redis, call[c].t)
    /\ Goes(c, [call[c] EXCEPT !.at = IF limiter = "sliding" THEN "add" ELSE "count"])
    /\ UNCHANGED <<memory, granted, refused, slack, outages>> /\ LimitRest

\* pexpire follows: a set that expires holds no hit of the last window.
Add(c) ==
    /\ Waits(c, "add")
    /\ redis' = redis \cup {Member(c)}
    /\ Goes(c, [call[c] EXCEPT !.at = IF limiter = "sliding" THEN "count" ELSE "trim"])
    /\ UNCHANGED <<memory, granted, refused, slack, outages>> /\ LimitRest

CountLate(c) ==
    /\ Waits(c, "count")
    /\ Settle(c, Cardinality(redis \ {Member(c)}) <= Limit, "redis")
    /\ UNCHANGED <<redis, memory, slack, outages>> /\ LimitRest

\* checkLimit: a refused request stays in the set.
Count(c) ==
    /\ Waits(c, "count")
    /\ Settle(c, Cardinality(redis) <= Limit, "redis")
    /\ UNCHANGED <<redis, memory, slack, outages>> /\ LimitRest

\* isAllowed and consumeBurstTokens write only if they grant, tryConsume always.
GetBucket(c) ==
    /\ limiter \in {"legacy", "floor", "burst"} /\ Waits(c, "get")
    /\ LET b == Refilled(redis, call[c].t) IN
         IF b.tokens >= call[c].ask \/ limiter = "floor"
         THEN /\ Goes(c, [call[c] EXCEPT !.at = "set", !.bucket = b])
              /\ UNCHANGED <<granted, refused>>
         ELSE Settle(c, FALSE, "redis")
    /\ UNCHANGED <<redis, memory, slack, outages>> /\ LimitRest

\* Others took tokens since this request read the bucket: its write puts
\* them back, and they are granted once more.
PutBack(c) == Max({0, call[c].bucket.tokens - Refilled(redis, call[c].t).tokens})

SetBucket(c) ==
    /\ Waits(c, "set")
    /\ LET b == call[c].bucket
           ok == b.tokens >= call[c].ask
       IN  /\ redis' = IF ok THEN Consumed(b, call[c].ask) ELSE {b}
           /\ Settle(c, ok, "redis")
           /\ slack' = slack + PutBack(c)
    /\ UNCHANGED <<memory, outages>> /\ LimitRest

\* checkQuota and, when the request has been served, trackUsage.
CheckQuota(c) ==
    /\ limiter = "quota" /\ Waits(c, "get")
    /\ LET used == Counted(IF redis = {} THEN memory[call[c].node] ELSE redis) IN
         IF used < Limit THEN Goes(c, [call[c] EXCEPT !.at = "track"]) /\ UNCHANGED <<granted, refused>>
         ELSE Settle(c, FALSE, "redis")
    /\ UNCHANGED <<redis, memory, slack, outages>> /\ LimitRest

TrackUsage(c) ==
    /\ Waits(c, "track")
    /\ memory' = [memory EXCEPT ![call[c].node] = {Counted(@) + 1}]
    /\ redis' = {Counted(redis) + 1}
    /\ Settle(c, TRUE, "redis")
    /\ UNCHANGED <<slack, outages>> /\ LimitRest

-----------------------------------------------------------------------------
(* Redis fails, the key is reset, time passes *)

\* The catch of increment and of tryConsume: the same in memory, at once.
Fallback(c) ==
    LET n == call[c].node IN
    \/ /\ limiter = "sliding"
       /\ LET kept == Trimmed(memory[n], call[c].t) \cup {Member(c)}
          IN  /\ memory' = [memory EXCEPT ![n] = kept]
              /\ Settle(c, Cardinality(kept) <= Limit, n)
       /\ UNCHANGED slack
    \/ /\ limiter = "floor"
       /\ LET b == Refilled(memory[n], call[c].t)
              ok == b.tokens >= call[c].ask
          IN  /\ memory' = [memory EXCEPT ![n] = IF ok THEN Consumed(b, call[c].ask) ELSE {b}]
              /\ Settle(c, ok, n)
       /\ UNCHANGED slack
    \/ /\ limiter = "quota" /\ Waits(c, "get")          \* getCurrentCount from memory
       /\ IF Counted(memory[n]) < Limit
          THEN Goes(c, [call[c] EXCEPT !.at = "track"]) /\ UNCHANGED <<granted, refused>>
          ELSE Settle(c, FALSE, n)
       /\ UNCHANGED <<memory, slack>>
    \/ /\ limiter = "quota" /\ Waits(c, "track")        \* the INCRBY is lost
       /\ memory' = [memory EXCEPT ![n] = {Counted(@) + 1}]
       /\ Settle(c, TRUE, n)
       /\ UNCHANGED slack
    \/ /\ limiter \in {"legacy", "burst", "advanced"}   \* the check rejects
       /\ Goes(c, NoCall)
       /\ UNCHANGED <<memory, granted, refused, slack>>

RedisFails(c) ==
    /\ call[c] # NoCall /\ outages < MaxOutages
    /\ outages' = outages + 1
    /\ Fallback(c)
    /\ UNCHANGED redis /\ LimitRest

\* reset, refill and resetQuota, called on one process.
Reset(n) ==
    /\ limiter \notin {"burst", "advanced"} /\ outages < MaxOutages
    /\ outages' = outages + 1
    /\ LET full == IF limiter = "floor" THEN {[tokens |-> Capacity, last |-> clock]} ELSE {}
       IN  redis' = full /\ memory' = IF limiter = "legacy" THEN memory ELSE [memory EXCEPT ![n] = full]
    /\ granted' = IF limiter = "legacy" THEN granted
                  ELSE {g \in granted : g.via \notin {"redis", n}}
    /\ slack' = slack + IF limiter = "legacy" THEN Capacity ELSE Cardinality(InFlight)
    /\ UNCHANGED <<limiter, clock, call, hits, refused>>

Expires(b) == b.last + Window <= clock + 1

(***************************************************************************)
(* A tick is the time that Rate tokens take; the commands of a request     *)
(* take less.  SETEX lets an unused bucket expire.                         *)
(***************************************************************************)
LimitTick ==
    /\ clock < MaxTime /\ InFlight = {}
    /\ clock' = clock + 1
    /\ IF limiter \in {"legacy", "burst"} /\ \E b \in redis : Expires(b)
       THEN redis' = {} /\ slack' = slack + IF limiter = "burst" THEN Capacity ELSE 0
       ELSE UNCHANGED <<redis, slack>>
    /\ UNCHANGED <<limiter, memory, call, hits, granted, refused, outages>>

LimitNext ==
    \/ \E c \in Callers :
         \/ \E n \in ApiNodes, ask \in Asks : Arrive(c, n, ask)
         \/ Trim(c) \/ Add(c) \/ Count(c) \/ GetBucket(c) \/ SetBucket(c)
         \/ CheckQuota(c) \/ TrackUsage(c) \/ RedisFails(c)
    \/ \E n \in ApiNodes : Reset(n)
    \/ LimitTick

LimitSpec == LimitInit /\ [][LimitNext]_limitVars

-----------------------------------------------------------------------------
(* Properties *)

(***************************************************************************)
(* SlidingWindowCounter: although a request trims, adds and counts in      *)
(* three commands, no window sees more than Limit requests granted by      *)
(* Redis, nor by the memory of one process; only a reset lets those under  *)
(* way through.  AdvancedRateLimiter counts the moments of requests.       *)
(***************************************************************************)
SlidingWindowHolds ==
    \A v \in Sources, t \in 0..clock :
        LET window == {g \in granted : g.via = v /\ g.at \in (t - Window + 1)..t} IN
        /\ limiter = "sliding" => Cardinality(window) <= Limit + slack
        /\ limiter = "advanced" => Cardinality({g.at : g \in window}) <= Limit

(***************************************************************************)
(* The bucket of RateLimiter and the balance of BurstAllowanceManager:     *)
(* every grant is paid for by the full bucket or by the time since, except *)
(* the tokens that late writes put back.  Expiry refills nothing that      *)
(* time had not refilled.                                                  *)
(***************************************************************************)
BucketHolds ==
    limiter \in {"legacy", "burst"} =>
        Cardinality(granted) <=
            Capacity + slack + IF limiter = "legacy" THEN clock * Rate ELSE 0

(***************************************************************************)
(* TokenBucket refuses only calls for more than refillRate tokens, since   *)
(* every call refills that much first: calls for one token always pass.    *)
(***************************************************************************)
SmallCallsPass == limiter = "floor" => \A ask \in refused : ask > Rate

(***************************************************************************)
(* QuotaTracker checks and counts apart: uses exceed the limit by no more  *)
(* than the requests that were under way together, while Redis works.      *)
(***************************************************************************)
QuotaHolds ==
    limiter = "quota" /\ outages = 0 => Cardinality(granted) < Limit + Cardinality(Callers)

(***************************************************************************)
(* Every limiter grants what it is configured to grant, as far as its      *)
(* commands in between are separate.                                       *)
(***************************************************************************)
LimitsHold ==
    /\ SlidingWindowHolds
    /\ BucketHolds
    /\ SmallCallsPass
    /\ QuotaHolds
=============================================================================
