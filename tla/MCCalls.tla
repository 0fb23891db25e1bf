------------------------------ MODULE MCCalls ------------------------------
(* What stands between the system and the parties it calls: the circuit    *)
(* breaker, the registry of breakers, the retry executor, the clients of   *)
(* Redis, database and HTTP, and the preparation of the database.  They    *)
(* share no state: each is explored in executions of its own.              *)
EXTENDS CircuitBreaker, BreakerRegistry, Retrying, Connections, SchemaSetup

VARIABLE part

MCErrors == {[status |-> 503, word |-> "none"], [status |-> 404, word |-> "none"],
             [status |-> 429, word |-> "reset"]}

callsVars == <<part, vars, registryVars, retryVars, redisVars, dbVars, httpVars, setupVars>>

CallsInit ==
    /\ part \in {"breaker", "registry", "retry", "redis", "db", "http", "setup"}
    /\ Init /\ RegistryInit /\ RetryInit /\ RedisInit /\ DbInit /\ HttpInit /\ SetupInit
    /\ part # "breaker" => healthy
    /\ part # "setup" => wiring = "container" /\ env = "test" /\ finished = 0

Only(p) ==
    /\ part = p /\ UNCHANGED part
    /\ p # "breaker" => UNCHANGED vars
    /\ p # "registry" => UNCHANGED registryVars
    /\ p # "retry" => UNCHANGED retryVars
    /\ p # "redis" => UNCHANGED redisVars
    /\ p # "db" => UNCHANGED dbVars
    /\ p # "http" => UNCHANGED httpVars
    /\ p # "setup" => UNCHANGED setupVars

CallsNext ==
    \/ Only("breaker") /\ Next
    \/ Only("registry") /\ RegistryNext
    \/ Only("retry") /\ RetryNext
    \/ Only("redis") /\ RedisNext
    \/ Only("db") /\ DbNext
    \/ Only("http") /\ HttpNext
    \/ Only("setup") /\ SetupNext

\* Time passes and timers fire.  Callers of the breaker keep coming and their
\* calls settle within their timeout; a retried operation need never settle.
CallsSpec ==
    /\ CallsInit /\ [][CallsNext]_callsVars
    /\ WF_callsVars(Only("breaker") /\ Tick)
    /\ \A c \in Calls : /\ WF_callsVars(Only("breaker") /\ Admit(c))
                        /\ WF_callsVars(Only("breaker") /\ (Succeed(c) \/ Fail(c)))
    /\ WF_callsVars(Only("retry") /\ RetryTick)
    /\ \A c \in Callers : /\ WF_callsVars(Only("retry") /\ NextAttempt(c))
                          /\ WF_callsVars(Only("retry") /\ TimerFires(c))
    /\ \A c \in DbCallers : WF_callsVars(Only("db") /\ DbSteps(c))
=============================================================================
