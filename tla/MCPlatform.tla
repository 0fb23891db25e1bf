----------------------------- MODULE MCPlatform -----------------------------
(* The leader election of the daemons, the life of a process, the health   *)
(* daemon, heartbeats and the watchers of the queue share no state: each   *)
(* is explored in executions of its own.                                   *)
EXTENDS LeaderElection, Lifecycle, HealthWatch, Presence, QueueWatch

VARIABLE part

Parts == {"election", "life", "health", "presence", "watch"}

platformVars == <<part, vars, lifeVars, healthVars, presenceVars, watchVars>>

\* A part that is not explored has one initial state.
PlatformInit ==
    /\ part \in Parts
    /\ Init /\ LifeInit /\ HealthInit /\ PresenceInit /\ WatchInit
    /\ part # "life" => entry = "container"
    /\ part # "watch" => look = "sample"
    /\ part # "health" => wiring = "setup"
    /\ part # "presence" => redisOps = "none"

Only(p) ==
    /\ part = p /\ UNCHANGED part
    /\ p # "election" => UNCHANGED vars
    /\ p # "life" => UNCHANGED lifeVars
    /\ p # "health" => UNCHANGED healthVars
    /\ p # "presence" => UNCHANGED presenceVars
    /\ p # "watch" => UNCHANGED watchVars

PlatformNext ==
    \/ Only("election") /\ Next
    \/ Only("life") /\ LifeNext
    \/ Only("health") /\ HealthNext
    \/ Only("presence") /\ PresenceNext
    \/ Only("watch") /\ WatchNext

\* The interval timer fires again once no cycle is under way.
NextInterval ==
    /\ \A c \in Cycles : ~InFlight(c)
    /\ \E c \in Cycles : Interval(c)

\* Shutdown steps, cycles and timers go on; nothing else must happen.
PlatformSpec ==
    /\ PlatformInit /\ [][PlatformNext]_platformVars
    /\ WF_platformVars(Only("life") /\ LifeSteps)
    /\ \A c \in Cycles : WF_platformVars(Only("health") /\ CycleStep(c))
    /\ WF_platformVars(Only("health") /\ NextInterval)
    /\ WF_platformVars(Only("presence") /\ BeatTick)
    /\ \A w \in Beaters : WF_platformVars(Only("presence") /\ Ping(w))
=============================================================================
