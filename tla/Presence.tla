------------------------------ MODULE Presence ------------------------------
(***************************************************************************)
(* How workers show that they live: Heartbeat sets heartbeat:<id> for 30 s *)
(* and repeats it on a timer, Heartbeat.isAlive looks for the key, and     *)
(* WorkerMonitor for the keys of the ids in the Redis set workers:all.     *)
(* Commands of one process reach Redis in order.                           *)
(***************************************************************************)
EXTENDS Naturals, FiniteSets

CONSTANTS
    Beaters,    \* workers
    KeyTtl,     \* ticks until a heartbeat key expires: 30 s
    BeatEvery   \* ticks between pings: a third of the configured ttl

ASSUME PresenceAssumption == KeyTtl \in Nat \ {0} /\ BeatEvery \in Nat \ {0}

VARIABLES
    redisOps,   \* what the heartbeats were constructed with, see Clients
    keyLeft,    \* per worker: ticks its key still lives, 0 if there is none
    state,      \* per worker: "off", "starting", "on", "stopped" or "crashed"
    beatIn,     \* per worker: ticks until its timer fires
    missed,     \* per worker: history, pings lost since one arrived
    left        \* workers whose key could not be deleted

presenceVars == <<redisOps, keyLeft, state, beatIn, missed, left>>

\* "none": worker.module.ts leaves the argument undefined.  "operations":
\* RedisOperations, whose third argument is a ttl and gets 'EX', so that it
\* sets the key without one.  "ioredis": a client, as the tests mock it.
Clients == {"none", "operations", "ioredis"}

PresenceInit ==
    /\ redisOps \in Clients
    /\ keyLeft = [w \in Beaters |-> 0] /\ state = [w \in Beaters |-> "off"]
    /\ beatIn = [w \in Beaters |-> BeatEvery] /\ missed = [w \in Beaters |-> KeyTtl]
    /\ left = {}

\* ping, by start or by the timer; a failure is only logged, and without
\* redisOps nothing is set.
Beat(w) ==
    \/ redisOps # "none" /\ keyLeft' = [keyLeft EXCEPT ![w] = KeyTtl] /\ missed' = [missed EXCEPT ![w] = 0]
    \/ missed' = [missed EXCEPT ![w] = IF @ < KeyTtl THEN @ + 1 ELSE @] /\ UNCHANGED keyLeft

\* start awaits the first ping before it sets the timer.
StartBeat(w) ==
    /\ state[w] = "off"
    /\ state' = [state EXCEPT ![w] = "starting"]
    /\ UNCHANGED <<redisOps, keyLeft, beatIn, missed, left>>

FirstPing(w) ==
    /\ state[w] = "starting"
    /\ Beat(w)
    /\ state' = [state EXCEPT ![w] = "on"] /\ beatIn' = [beatIn EXCEPT ![w] = BeatEvery]
    /\ UNCHANGED <<redisOps, left>>

Ping(w) ==
    /\ state[w] = "on" /\ beatIn[w] = 0
    /\ Beat(w)
    /\ beatIn' = [beatIn EXCEPT ![w] = BeatEvery]
    /\ UNCHANGED <<redisOps, state, left>>

\* stop clears the timer and deletes the key, after the pings sent before.
StopBeat(w) ==
    /\ state[w] = "on"
    /\ state' = [state EXCEPT ![w] = "stopped"]
    /\ \/ keyLeft' = [keyLeft EXCEPT ![w] = 0] /\ UNCHANGED left
       \/ left' = left \cup {w} /\ UNCHANGED keyLeft
    /\ UNCHANGED <<redisOps, beatIn, missed>>

CrashBeat(w) ==
    /\ state[w] \in {"starting", "on"}
    /\ state' = [state EXCEPT ![w] = "crashed"]
    /\ UNCHANGED <<redisOps, keyLeft, beatIn, missed, left>>

KeptForever(n) == n

\* The key is set with an expiry, or with none.
Kept(n) == IF n = 0 \/ redisOps = "operations" THEN n ELSE n - 1

\* A timer that is due fires before more time passes.
BeatTick ==
    /\ \A w \in Beaters : state[w] = "on" => beatIn[w] > 0
    /\ keyLeft' = [w \in Beaters |-> Kept(keyLeft[w])]
    /\ beatIn' = [w \in Beaters |-> IF state[w] = "on" THEN beatIn[w] - 1 ELSE beatIn[w]]
    /\ UNCHANGED <<redisOps, state, missed, left>>

PresenceNext ==
    BeatTick \/ \E w \in Beaters :
        StartBeat(w) \/ FirstPing(w) \/ Ping(w) \/ StopBeat(w) \/ CrashBeat(w)

HasKey(w) == keyLeft[w] > 0

\* isAlive: a read that fails, or cannot be made, answers no.
IsAlive(w, fails) == ~fails /\ redisOps # "none" /\ HasKey(w)

\* checkWorkerHealth over the ids in workers:all, which nothing under src
\* writes; it counts nobody if a command fails.
ActiveWorkers(registered, fails) == IF fails THEN {} ELSE {w \in registered : HasKey(w)}

-----------------------------------------------------------------------------
(* Properties *)

Beats(w) == state[w] = "on" /\ redisOps # "none" /\ (missed[w] + 1) * BeatEvery < KeyTtl

(***************************************************************************)
(* A worker whose heartbeat has a Redis looks alive to a read that works   *)
(* while it beats, unless so many pings in a row were lost that its key    *)
(* expired, and a monitor counts it if it is in the set; one that stopped  *)
(* never does, unless its key could not be deleted.  A worker without      *)
(* redisOps never looks alive, whatever it does.                           *)
(***************************************************************************)
PresenceIsTrue ==
    \A w \in Beaters, registered \in SUBSET Beaters, fails \in BOOLEAN :
        /\ Beats(w) => IsAlive(w, FALSE)
        /\ Beats(w) /\ w \in registered => w \in ActiveWorkers(registered, FALSE)
        /\ IsAlive(w, fails) \/ w \in ActiveWorkers(registered, fails)
             => /\ redisOps # "none" /\ state[w] # "off"
                /\ state[w] = "stopped" => w \in left

(***************************************************************************)
(* The key of a worker that crashed or stopped goes, if it was set with    *)
(* its expiry.                                                             *)
(***************************************************************************)
TheDeadVanish ==
    \A w \in Beaters :
        (redisOps = "ioredis" /\ state[w] \in {"stopped", "crashed"}) ~> ~HasKey(w)

(***************************************************************************)
(* Heartbeats tell of workers that beat, and in the end only of those.     *)
(***************************************************************************)
PresenceIsTold ==
    /\ [](PresenceIsTrue)
    /\ TheDeadVanish
=============================================================================
