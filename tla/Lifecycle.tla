----------------------------- MODULE Lifecycle -----------------------------
(***************************************************************************)
(* The life of a process, from either entry point: bootstrap/main runs the *)
(* ten initializers of the orchestrator and closes itself with             *)
(* bootstrap/server's GracefulShutdown and, for the worker module, with    *)
(* the handlers of worker/recovery's; main runs DependencyContainer's      *)
(* steps and closes itself with gracefulShutdown and container.shutdown.   *)
(* Signals arrive at any time, requests and daemon cycles are under way.   *)
(***************************************************************************)
EXTENDS Naturals, Sequences, SequencesExt, FiniteSets

CONSTANTS
    MaxRequests,    \* bound: requests in flight
    MaxSignals      \* bound: signals sent

VARIABLES
    entry,      \* "orchestrator" or "container"
    done,       \* startup steps completed
    phase,      \* "booting", "up", "failed" or "exited"
    provided,   \* what the completed steps have put into the container
    lacking,    \* history: steps that asked for something not provided
    live,       \* what runs: "http", "worker", "daemon"
    stores,     \* the open stores
    requests,   \* requests in flight
    cycling,    \* a daemon cycle is under way
    blind,      \* history: a cycle began, or a request ran, on closed stores
    once,       \* signals whose once-listeners have not fired
    flows,      \* the shutdown flows under way, by what started them
    signals,    \* signals received so far
    code        \* the exit code

lifeVars == <<entry, done, phase, provided, lacking, live, stores, requests, cycling, blind,
              once, flows, signals, code>>

Signals == {"SIGTERM", "SIGINT", "SIGHUP"}
Stores == {"db", "redis"}

-----------------------------------------------------------------------------
(* The steps: what they ask the container for and what they register *)

Step(name, needs, gives) == [name |-> name, needs |-> needs, gives |-> gives]
Base == {"config", "logger", "observability"}

ConfigInitializer == Step("config", {}, {"config"})
ObservabilityInitializer == Step("observability", {}, {"observability", "logger"})
InfrastructureInitializer ==
    Step("infrastructure", {"config", "logger"}, {"repositories", "redis", "queue", "db"})
DomainInitializer == Step("domain", {}, {})
ApplicationInitializer ==
    Step("application", {"repositories", "queue", "logger", "observability"}, {"application"})
SecurityInitializer == Step("security", {"config", "repositories", "redis", "logger"}, {"security"})
ResilienceInitializer == Step("resilience", Base \cup {"queue"}, {"resilience"})
ApiInitializer == Step("api", Base \cup {"application", "security", "resilience"}, {"api"})
WorkerInitializer == Step("worker", Base \cup {"application", "resilience"}, {"worker"})
DaemonInitializer == Step("daemon", Base \cup {"application", "redis", "queue"}, {"daemon"})

OrchestratorSteps ==
    <<ConfigInitializer, ObservabilityInitializer, InfrastructureInitializer, DomainInitializer,
      ApplicationInitializer, SecurityInitializer, ResilienceInitializer,
      ApiInitializer, WorkerInitializer, DaemonInitializer,
      Step("listen", {"config", "api", "logger"}, {})>>

SetupDatabase == Step("database", {}, {"db"})
SetupRedis == Step("redis", {}, {"redis"})
SetupQueue == Step("queue", {"redis"}, {"queue"})
SetupObservability == Step("observability", {}, {"observability"})
SetupSecurity == Step("security", {"redis"}, {"security"})
SetupResilience == Step("resilience", {"redis", "queue", "observability"}, {"resilience"})
SetupWorker ==
    Step("worker", {"queue", "repositories", "services", "resilience", "observability", "security"},
         {"worker"})
SetupDaemon ==
    Step("daemon", {"db", "redis", "queue", "repositories", "observability"}, {"daemon"})
SetupApi == Step("api", {"db", "redis", "queue", "observability", "security", "repositories", "services"},
                 {"api"})
StartupValidator == Step("validate", {"db", "redis"}, {})
WaitForHealthy == Step("healthy", {"db", "redis", "queue", "observability"}, {})

\* DependencyContainer.initialize, initializeApplication and main.
ContainerSteps ==
    <<SetupDatabase, SetupRedis, Step("repositories", {"db"}, {"repositories"}), SetupQueue,
      SetupObservability, SetupSecurity, SetupResilience,
      Step("services", {"repositories", "queue", "redis", "observability"}, {"services"}),
      SetupWorker, SetupDaemon, SetupApi, StartupValidator, WaitForHealthy,
      Step("listen", {"api"}, {})>>

Steps == IF entry = "orchestrator" THEN OrchestratorSteps ELSE ContainerSteps

\* What a completed step leaves running, and which stores it opened.
Started(step) ==
    CASE step.name \in {"worker", "daemon"} -> {step.name}
      [] step.name = "listen" -> {"http"}
      [] OTHER -> {}

LifeInit ==
    /\ entry \in {"orchestrator", "container"}
    /\ done = 0 /\ phase = "booting"
    /\ provided = {} /\ lacking = {} /\ live = {} /\ stores = {}
    /\ requests = 0 /\ cycling = FALSE /\ blind = {}
    /\ once = {} /\ flows = [f \in {} |-> "none"] /\ signals = {} /\ code = "none"

-----------------------------------------------------------------------------
(* Starting *)

Exits(with) == phase' = "exited" /\ code' = with

\* The listeners the worker module and main register.
RegisteredBy(step) ==
    IF step.name = (IF entry = "orchestrator" THEN "worker" ELSE "listen")
    THEN {"SIGTERM", "SIGINT"} ELSE {}

RunStep ==
    /\ phase = "booting"
    /\ LET step == Steps[done + 1] IN
         /\ step.needs \subseteq provided
         /\ done' = done + 1
         /\ provided' = provided \cup step.gives
         /\ stores' = stores \cup (step.gives \cap Stores)
         /\ live' = live \cup Started(step)
         /\ once' = once \cup RegisteredBy(step)
    /\ phase' = IF done + 1 = Len(Steps) THEN "up" ELSE "booting"
    /\ UNCHANGED <<entry, lacking, requests, cycling, blind, flows, signals, code>>

(***************************************************************************)
(* A step throws, or container.get does for what is not registered.  The   *)
(* orchestrator's main exits with 1; the other rejects and leaves what was *)
(* started as it is, the worker and the daemons included.                  *)
(***************************************************************************)
StepFails ==
    /\ phase = "booting"
    /\ LET step == Steps[done + 1] IN
         /\ step.name # "domain"
         /\ lacking' = IF step.needs \subseteq provided THEN lacking ELSE lacking \cup {step.name}
    /\ IF entry = "orchestrator" THEN Exits("error") ELSE phase' = "failed" /\ UNCHANGED code
    /\ UNCHANGED <<entry, done, provided, live, stores, requests, cycling, blind, once, flows, signals>>

-----------------------------------------------------------------------------
(* Serving *)

Serves == phase # "exited" /\ "http" \in live

Request ==
    /\ Serves /\ requests < MaxRequests
    /\ requests' = requests + 1
    /\ UNCHANGED <<entry, done, phase, provided, lacking, live, stores, cycling, blind, once, flows, signals, code>>

\* A request reads the stores until it is answered.
Respond ==
    /\ phase # "exited" /\ requests > 0
    /\ requests' = requests - 1
    /\ blind' = IF Stores \subseteq stores THEN blind ELSE blind \cup {"request"}
    /\ UNCHANGED <<entry, done, phase, provided, lacking, live, stores, cycling, once, flows, signals, code>>

\* BaseDaemon.runCycle by its interval timer.
CycleBegins ==
    /\ phase # "exited" /\ "daemon" \in live /\ ~cycling
    /\ cycling' = TRUE
    /\ blind' = IF Stores \subseteq stores THEN blind ELSE blind \cup {"cycle"}
    /\ UNCHANGED <<entry, done, phase, provided, lacking, live, stores, requests, once, flows, signals, code>>

CycleEnds ==
    /\ phase # "exited" /\ cycling
    /\ cycling' = FALSE
    /\ UNCHANGED <<entry, done, phase, provided, lacking, live, stores, requests, blind, once, flows, signals, code>>

-----------------------------------------------------------------------------
(* Signals *)

FlowAt(f) == IF f \in DOMAIN flows THEN flows[f] ELSE "none"
With(fs, f, at) == [g \in DOMAIN fs \cup {f} |-> IF g = f THEN at ELSE fs[g]]
Listening == entry = "orchestrator" /\ phase = "up"        \* SignalHandler.setup was called

\* setupEnvironment: main only logs a SIGHUP.
Ignored(s) == entry = "container" /\ s = "SIGHUP"

\* GracefulShutdown.shutdown returns at once when it is shutting down already.
HandleSignal(fs) ==
    IF Listening /\ FlowAt("server") = "none" THEN With(fs, "server", "close") ELSE fs

(***************************************************************************)
(* A signal runs its listeners; a once-listener is used up.  Without a     *)
(* listener the process dies.                                              *)
(***************************************************************************)
Signal(s) ==
    /\ phase # "exited" /\ Cardinality(signals) < MaxSignals
    /\ signals' = signals \cup {s}
    /\ once' = once \ {s}
    /\ IF s \in once \/ Listening \/ Ignored(s)
       THEN /\ flows' = HandleSignal(IF s \in once THEN With(flows, s, "start") ELSE flows)
            /\ UNCHANGED <<phase, code>>
       ELSE Exits("killed") /\ UNCHANGED flows
    /\ UNCHANGED <<entry, done, provided, lacking, live, stores, requests, cycling, blind>>

Moves(f, from, to) ==
    /\ phase # "exited" /\ FlowAt(f) = from
    /\ flows' = With(flows, f, to)
ShutdownRest == UNCHANGED <<entry, done, provided, lacking, requests, cycling, blind, once, signals>>

\* registerSignalHandlers of worker/recovery: stop the worker and exit(0).
WorkerHandler(s) ==
    /\ entry = "orchestrator"
    /\ \/ /\ Moves(s, "start", "stopped")
          /\ live' = live \ {"worker"}
          /\ UNCHANGED <<phase, code>>
       \/ /\ Moves(s, "stopped", "done")
          /\ Exits("clean")
          /\ UNCHANGED live
    /\ UNCHANGED stores /\ ShutdownRest

(***************************************************************************)
(* bootstrap/server: close the HTTP server.  None of the modules it was    *)
(* given has a stop, close or $disconnect, so the other steps are skipped  *)
(* and nothing exits; after 30 s without an end force does.                *)
(***************************************************************************)
CloseServer ==
    /\ \/ Moves("server", "close", "closing") /\ live' = live \ {"http"}
       \/ requests = 0 /\ Moves("server", "closing", "done") /\ UNCHANGED live
    /\ UNCHANGED <<phase, code, stores>> /\ ShutdownRest

(***************************************************************************)
(* gracefulShutdown: server.close fails if the server is closed already,   *)
(* which ends in exit(1); its callback waits for the requests in flight.   *)
(***************************************************************************)
CloseListener(s) ==
    /\ entry = "container" /\ Moves(s, "start", "draining")
    /\ IF "http" \in live THEN live' = live \ {"http"} /\ UNCHANGED <<phase, code>>
       ELSE Exits("error") /\ UNCHANGED live
    /\ UNCHANGED stores /\ ShutdownRest

Drained(s) ==
    /\ entry = "container" /\ requests = 0 /\ Moves(s, "draining", "worker")
    /\ UNCHANGED <<live, phase, code, stores>> /\ ShutdownRest

Stops(s, what, next) ==
    /\ Moves(s, what, next)
    /\ live' = live \ {what} /\ stores' = stores \ {what}
    /\ UNCHANGED <<phase, code>> /\ ShutdownRest

ShutdownStoresFirst(s) ==
    /\ entry = "container"
    /\ \/ Stops(s, "worker", "tracer") \/ Stops(s, "tracer", "redis")
       \/ Stops(s, "redis", "db") \/ Stops(s, "db", "daemon") \/ Stops(s, "daemon", "exit")

\* container.shutdown; every stop that rejects is only logged.
Shutdown(s) ==
    /\ entry = "container"
    /\ \/ Stops(s, "worker", "daemon") \/ Stops(s, "daemon", "tracer")
       \/ Stops(s, "tracer", "redis") \/ Stops(s, "redis", "db") \/ Stops(s, "db", "exit")

Exit(s) ==
    /\ entry = "container" /\ Moves(s, "exit", "done")
    /\ Exits("clean")
    /\ UNCHANGED <<live, stores>> /\ ShutdownRest

\* forceExitTimeout and shutdownTimeout.
ForceExit(f) ==
    /\ phase # "exited"
    /\ f = "server" \/ entry = "container"
    /\ FlowAt(f) \notin {"none", "start", "close", "done"}
    /\ Exits("error")
    /\ UNCHANGED <<flows, live, stores>> /\ ShutdownRest

LifeSteps ==
    \/ CloseServer
    \/ \E s \in Signals : \/ WorkerHandler(s) \/ CloseListener(s) \/ Drained(s) \/ Shutdown(s)
                          \/ Exit(s)
    \/ \E f \in Signals \cup {"server"} : ForceExit(f)

LifeNext ==
    \/ RunStep \/ StepFails \/ Request \/ Respond \/ CycleBegins \/ CycleEnds
    \/ \E s \in Signals : Signal(s)
    \/ LifeSteps

-----------------------------------------------------------------------------
(* Properties *)

(***************************************************************************)
(* Each of the two startup orders provides what a step asks its container  *)
(* for before the step runs.                                               *)
(***************************************************************************)
StepsFindTheirNeeds == lacking = {}

(***************************************************************************)
(* Whatever signals arrive, no request runs and no daemon cycle begins     *)
(* with a store closed: the listener is drained and the daemons stopped    *)
(* first.                                                                  *)
(***************************************************************************)
NothingRunsBlind == blind = {}

(***************************************************************************)
(* The container's process exits with 0 only when every request has been   *)
(* answered and all it started was stopped; a second signal or the timeout *)
(* shows as another code.  The orchestrator's worker handler exits with 0  *)
(* in the middle of requests.                                              *)
(***************************************************************************)
CleanExitsAreClean ==
    phase = "exited" /\ code = "clean" /\ entry = "container" =>
        requests = 0 /\ live = {} /\ stores = {}

(***************************************************************************)
(* SIGTERM and SIGINT end the process, in every phase and although a       *)
(* request may never be answered.  SIGHUP alone need not.                  *)
(***************************************************************************)
SignalsEndIt == signals \cap {"SIGTERM", "SIGINT"} # {} ~> phase = "exited"

(***************************************************************************)
(* A process starts in an order that works, and a signal ends it without   *)
(* cutting off what runs.                                                  *)
(***************************************************************************)
ShutdownsAreOrderly ==
    /\ [](StepsFindTheirNeeds /\ NothingRunsBlind /\ CleanExitsAreClean)
    /\ SignalsEndIt
=============================================================================
