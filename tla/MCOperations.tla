---------------------------- MODULE MCOperations ----------------------------
(* The instruments, the pages of the dashboard and the daemons share no    *)
(* state: each is explored in executions of its own.                       *)
EXTENDS Telemetry, Dashboard, Daemons

VARIABLE part

MCItems == <<"i1", "i2", "i3">>

vars == <<part, sloVars, gaugeVars, scoreVars, auditVars, traceVars, contextVars,
          pageVars, explorerVars, dlqVars, bootVars, coordVars, cycleVars, collectVars>>

\* A dashboard that is left on a page without a timer.
PageLeft ==
    /\ page = "dlq" /\ mount = MaxMounts /\ timers = {} /\ polls = {}
    /\ shown = SampleData /\ backend = "healthy"

Init ==
    /\ part \in {"slo", "gauge", "score", "audit", "trace", "context", "page", "explorer", "dlq",
                "boot", "coord", "cycle", "collect"}
    /\ SloInit /\ GaugeInit /\ ScoreInit /\ AuditInit /\ TraceInit /\ ContextInit
    /\ IF part = "page" THEN PageInit ELSE PageLeft
    /\ ExplorerInit /\ DlqInit /\ BootInit /\ CoordInit /\ CycleInit /\ CollectInit
    /\ part # "slo" => availabilityTarget = 999
    /\ part # "audit" => storage = "memory"
    /\ part # "trace" => root = [id |-> "none", sampled |-> TRUE]
    /\ part # "cycle" => built = "bare"
    /\ part # "collect" => replies = "record"

Only(p) ==
    /\ part = p /\ UNCHANGED part
    /\ p # "slo" => UNCHANGED sloVars
    /\ p # "gauge" => UNCHANGED gaugeVars
    /\ p # "score" => UNCHANGED scoreVars
    /\ p # "audit" => UNCHANGED auditVars
    /\ p # "trace" => UNCHANGED traceVars
    /\ p # "context" => UNCHANGED contextVars
    /\ p # "page" => UNCHANGED pageVars
    /\ p # "explorer" => UNCHANGED explorerVars
    /\ p # "dlq" => UNCHANGED dlqVars
    /\ p # "boot" => UNCHANGED bootVars
    /\ p # "coord" => UNCHANGED coordVars
    /\ p # "cycle" => UNCHANGED cycleVars
    /\ p # "collect" => UNCHANGED collectVars

Next ==
    \/ Only("slo") /\ SloNext
    \/ Only("gauge") /\ GaugeNext
    \/ Only("score") /\ ScoreNext
    \/ Only("audit") /\ AuditNext
    \/ Only("trace") /\ TraceNext
    \/ Only("context") /\ ContextNext
    \/ Only("page") /\ PageNext
    \/ Only("explorer") /\ ExplorerNext
    \/ Only("dlq") /\ DlqNext
    \/ Only("boot") /\ BootNext
    \/ Only("coord") /\ CoordNext
    \/ Only("cycle") /\ CycleNext
    \/ Only("collect") /\ CollectNext

\* Timers fire again, requests are answered and cycles go on.
Spec ==
    /\ Init /\ [][Next]_vars
    /\ WF_vars(Only("page") /\ PollTimer)
    /\ \A n \in 1..MaxPolls : WF_vars(Only("page") /\ PollSettles(n))
    /\ \A c \in RecoveryCycles :
          /\ WF_vars(Only("cycle") /\ CycleBegins(c))
          /\ WF_vars(Only("cycle") /\ CycleGoesOn(c))
=============================================================================
