---------------------------- MODULE Connections ----------------------------
(***************************************************************************)
(* The clients a process shares: the Redis singleton (redis-client.ts),    *)
(* the database client and its first connection (database/client.ts), and  *)
(* the circuit per host of the HTTP client.  Three parts that share no     *)
(* state.                                                                  *)
(***************************************************************************)
EXTENDS Integers, FiniteSets

CONSTANTS
    RedisCallers,   \* calls of initializeRedis
    MaxClients,     \* bound on the Redis clients created
    DbCallers,      \* calls of initializeDatabase
    MaxTries,       \* config.database.retryAttempts
    Sites,          \* hosts the HTTP client posts to
    VolumeThreshold,\* requests before a circuit may open
    MaxWindow       \* bound on the requests of a statistics window

ASSUME ConnectionsAssumption ==
    /\ {MaxClients, MaxTries, VolumeThreshold, MaxWindow} \subseteq Nat \ {0}

-----------------------------------------------------------------------------
(* The Redis singleton.  A client is a number; 0 is null.  The flag        *)
(* isClientConnected only serves getConnectionStatus and is left out.      *)

VARIABLES
    instance,       \* clientInstance
    isConnecting,
    link,           \* per client: the status of its connection
    forgotten,      \* clients given up by a failed start or found not ready by one
    dial            \* per caller of initializeRedis: where it stands

redisVars == <<instance, isConnecting, link, forgotten, dial>>

Clients == 1..MaxClients
Fresh == CHOOSE i \in Clients : link[i] = "none"
SomeFresh == \E i \in Clients : link[i] = "none"
Dialling == [state : {"connect", "ping"}, client : Clients]

RedisInit ==
    /\ instance = 0 /\ isConnecting = FALSE
    /\ link = [i \in Clients |-> "none"]
    /\ forgotten = {}
    /\ dial = [c \in RedisCallers |-> [state |-> "idle", client |-> 0]]

Ready(i) == i # 0 /\ link[i] = "ready"

\* getRedisClient: the instance, or one without configuration ("wait").
GetRedisClient ==
    IF instance # 0 THEN UNCHANGED <<instance, link>>
    ELSE SomeFresh /\ instance' = Fresh /\ link' = [link EXCEPT ![Fresh] = "wait"]

Dial(c) ==
    /\ SomeFresh
    /\ isConnecting' = TRUE
    /\ instance' = Fresh
    /\ forgotten' = forgotten \cup (IF isConnecting THEN {} ELSE {instance} \ {0})
    /\ link' = [link EXCEPT ![Fresh] = "connecting"]
    /\ dial' = [dial EXCEPT ![c] = [state |-> "connect", client |-> Fresh]]

\* connectRedis up to its first await; both early returns leave the client
\* as it is, connected or not.
ConnectRedis(c) ==
    /\ dial[c].state = "idle"
    /\ IF Ready(instance) \/ isConnecting
       THEN dial' = [dial EXCEPT ![c].state = "returned"] /\ UNCHANGED <<instance, isConnecting, link, forgotten>>
       ELSE Dial(c)

Connected(c) ==
    /\ dial[c].state = "connect"
    /\ link' = [link EXCEPT ![dial[c].client] = "ready"]
    /\ dial' = [dial EXCEPT ![c].state = "ping"]
    /\ UNCHANGED <<instance, isConnecting, forgotten>>

\* PONG; initializeRedis returns getRedisClient().
Pong(c) ==
    /\ dial[c].state = "ping"
    /\ isConnecting' = FALSE
    /\ dial' = [dial EXCEPT ![c].state = "returned"]
    /\ GetRedisClient
    /\ UNCHANGED forgotten

\* The flag is lowered on success only.
DialFailsBusy(c) ==
    /\ dial[c] \in Dialling
    /\ instance' = 0
    /\ link' = [link EXCEPT ![dial[c].client] = "reconnecting"]
    /\ forgotten' = forgotten \cup {dial[c].client}
    /\ dial' = [dial EXCEPT ![c] = [state |-> "threw", client |-> 0]]
    /\ UNCHANGED isConnecting

\* The catch and finally of connectRedis: the client is forgotten, and goes
\* on reconnecting by itself.
DialFails(c) ==
    /\ dial[c] \in Dialling
    /\ instance' = 0 /\ isConnecting' = FALSE
    /\ link' = [link EXCEPT ![dial[c].client] = "reconnecting"]
    /\ forgotten' = forgotten \cup {dial[c].client}
    /\ dial' = [dial EXCEPT ![c] = [state |-> "threw", client |-> 0]]

\* A caller that threw tries again; a part asks for the client on its own.
DialAgain(c) ==
    /\ dial[c].state = "threw"
    /\ dial' = [dial EXCEPT ![c].state = "idle"]
    /\ UNCHANGED <<instance, isConnecting, link, forgotten>>

AskForClient ==
    /\ GetRedisClient
    /\ UNCHANGED <<isConnecting, forgotten, dial>>

\* The server goes away and comes back; ioredis reconnects by itself.
LinkBreaks(i) ==
    /\ link[i] = "ready"
    /\ link' = [link EXCEPT ![i] = "reconnecting"]
    /\ UNCHANGED <<instance, isConnecting, forgotten, dial>>

LinkReturns(i) ==
    /\ link[i] = "reconnecting"
    /\ link' = [link EXCEPT ![i] = "ready"]
    /\ UNCHANGED <<instance, isConnecting, forgotten, dial>>

\* disconnectRedis, once every start has come to its end.
DisconnectRedis ==
    /\ instance # 0 /\ ~isConnecting
    /\ link' = [link EXCEPT ![instance] = "ended"]
    /\ instance' = 0
    /\ UNCHANGED <<isConnecting, forgotten, dial>>

RedisNext ==
    \/ \E c \in RedisCallers : ConnectRedis(c) \/ Connected(c) \/ Pong(c) \/ DialFails(c) \/ DialAgain(c)
    \/ AskForClient \/ DisconnectRedis
    \/ \E i \in Clients : LinkBreaks(i) \/ LinkReturns(i)

(***************************************************************************)
(* An open connection that getRedisClient does not hand out was given up   *)
(* by a failed connectRedis, or found not ready by a later one; two starts *)
(* at once never lose one (isConnecting).                                  *)
(***************************************************************************)
OnlyFailuresLeak ==
    \A i \in Clients :
        link[i] \in {"connecting", "ready", "reconnecting"} => i = instance \/ i \in forgotten

(***************************************************************************)
(* connectRedis refuses a start only while another one is really under     *)
(* way; a failed one does not block those that follow (finally).           *)
(***************************************************************************)
ConnectingIsReal == isConnecting => \E c \in RedisCallers : dial[c] \in Dialling

-----------------------------------------------------------------------------
(* The database: getPrismaClient hands out one client, initializeDatabase  *)
(* tries it with pauses in between, disconnectDatabase drops it.           *)

VARIABLES
    prisma,     \* prismaInstance: a number that tells the clients apart, 0 for null
    made,       \* clients made so far
    tries,      \* per caller: failed attempts
    init,       \* per caller: where it stands
    holds       \* per caller: the client it asked for and returns

dbVars == <<prisma, made, tries, init, holds>>

DbInit ==
    /\ prisma = 0 /\ made = 0
    /\ tries = [c \in DbCallers |-> 0]
    /\ init = [c \in DbCallers |-> "idle"]
    /\ holds = [c \in DbCallers |-> 0]

GetPrismaClient ==
    IF prisma # 0 THEN UNCHANGED <<prisma, made>>
    ELSE prisma' = made + 1 /\ made' = made + 1

InitializeDatabase(c) ==
    /\ init[c] = "idle"
    /\ GetPrismaClient
    /\ holds' = [holds EXCEPT ![c] = prisma']
    /\ init' = [init EXCEPT ![c] = "query"]
    /\ UNCHANGED tries

QueryAnswers(c) ==
    /\ init[c] = "query"
    /\ init' = [init EXCEPT ![c] = "ready"]
    /\ UNCHANGED <<prisma, made, tries, holds>>

OutOfTries(n) == n >= MaxTries

QueryFails(c) ==
    /\ init[c] = "query"
    /\ tries' = [tries EXCEPT ![c] = IF @ < MaxTries THEN @ + 1 ELSE @]
    /\ init' = [init EXCEPT ![c] = IF OutOfTries(tries[c] + 1) THEN "threw" ELSE "pause"]
    /\ UNCHANGED <<prisma, made, holds>>

\* calculateBackoff of the time is over.
PauseEnds(c) ==
    /\ init[c] = "pause"
    /\ init' = [init EXCEPT ![c] = "query"]
    /\ UNCHANGED <<prisma, made, tries, holds>>

\* At shutdown, when no start is under way.
DisconnectDatabase ==
    /\ prisma # 0 /\ \A c \in DbCallers : init[c] \notin {"query", "pause"}
    /\ prisma' = 0
    /\ UNCHANGED <<made, tries, init, holds>>

DbSteps(c) == QueryAnswers(c) \/ QueryFails(c) \/ PauseEnds(c)

DbNext ==
    \/ \E c \in DbCallers : InitializeDatabase(c) \/ DbSteps(c)
    \/ DisconnectDatabase

(***************************************************************************)
(* Between two disconnects all who start the database hold one client, so  *)
(* that there is one connection pool (getPrismaClient).                    *)
(***************************************************************************)
OnePool ==
    \A c, e \in DbCallers :
        {init[c], init[e]} \subseteq {"query", "pause"} => holds[c] = holds[e]

(***************************************************************************)
(* initializeDatabase ends, with the client or with an error, also when    *)
(* the database never answers.                                             *)
(***************************************************************************)
StartsEnd ==
    \A c \in DbCallers : init[c] = "query" ~> init[c] \in {"ready", "threw"}

-----------------------------------------------------------------------------
(* CircuitBreakerHttpClient: a circuit of the opossum library per host.    *)
(* Answers of every status reach opossum as successes; post looks at the   *)
(* status after fire has returned.                                         *)

VARIABLES
    circuit,    \* per host: the state of its circuit and its window
    unreached   \* per host: has a request failed without an answer?

httpVars == <<circuit, unreached>>

NewWindow == [state |-> "closed", fires |-> 0, failures |-> 0]

HttpInit ==
    /\ circuit = [h \in Sites |-> NewWindow]
    /\ unreached = [h \in Sites |-> FALSE]

BreakerKey(h) == {h}

\* Window and circuit after a failure, as opossum counts.
AfterFailure(w) ==
    LET next == [w EXCEPT !.fires = @ + 1, !.failures = @ + 1] IN
    IF w.state = "halfOpen" \/ (next.fires >= VolumeThreshold /\ 2 * next.failures > next.fires)
    THEN [next EXCEPT !.state = "open"] ELSE next

Record(h, outcome(_)) ==
    circuit' = [s \in Sites |-> IF s \in BreakerKey(h) THEN outcome(circuit[s]) ELSE circuit[s]]

Fires(h) == circuit[h].state # "open" /\ circuit[h].fires < MaxWindow

\* Any answer counts for opossum, and closes a half-open circuit.
AfterAnswer(w) == [w EXCEPT !.fires = @ + 1, !.state = "closed"]

PostAnswered(h) ==
    /\ Fires(h)
    /\ Record(h, AfterAnswer)
    /\ UNCHANGED unreached

PostFails(h) ==
    /\ Fires(h)
    /\ Record(h, AfterFailure)
    /\ unreached' = [unreached EXCEPT ![h] = TRUE]

\* The statistics of the window run out; the reset timeout is over.
WindowPasses(h) ==
    /\ circuit[h].state = "closed" /\ circuit[h].fires > 0
    /\ circuit' = [circuit EXCEPT ![h] = NewWindow]
    /\ UNCHANGED unreached

ResetElapses(h) ==
    /\ circuit[h].state = "open"
    /\ circuit' = [circuit EXCEPT ![h] = [NewWindow EXCEPT !.state = "halfOpen"]]
    /\ UNCHANGED unreached

HttpNext ==
    \E h \in Sites :
        \/ PostAnswered(h)
        \/ PostFails(h) \/ WindowPasses(h) \/ ResetElapses(h)

(***************************************************************************)
(* The circuit of a host opens for failures of that host alone (the key of *)
(* post is the host of the URL).                                           *)
(***************************************************************************)
HostsAreIsolated == \A h \in Sites : circuit[h].state # "closed" => unreached[h]

(***************************************************************************)
(* However starts, failures and disconnects interleave, no client is lost  *)
(* unnoticed, nobody waits for a start that is over, and the circuit of    *)
(* one host is no other host's.                                            *)
(***************************************************************************)
ConnectionsAreSound ==
    /\ [](OnlyFailuresLeak /\ ConnectingIsReal /\ OnePool /\ HostsAreIsolated)
    /\ StartsEnd
=============================================================================
