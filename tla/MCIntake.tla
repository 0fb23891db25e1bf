------------------------------ MODULE MCIntake ------------------------------
(* Results coming in and the queues their deliveries are put into; neither *)
(* reads the other's state, so each is explored in executions of its own.  *)
EXTENDS Ingestion, QueueControl

CONSTANTS q1, q2, q3, k1, e1

\* Three requests with one key, one of which the validators refuse.
MCRoute == [q \in Requests |-> IF q = q3 THEN "presentation" ELSE "api"]
MCKeyOf == [q \in Requests |-> k1]
MCEventOf == [q \in Requests |-> e1]
MCFlawsOf == [q \in Requests |-> IF q = q2 THEN {"latency"} ELSE {}]

VARIABLE part

intakeVars == <<part, vars, queueVars>>

IntakeInit == part \in {"ingest", "queues"} /\ Init /\ QueueInit

Only(p) ==
    /\ part = p /\ UNCHANGED part
    /\ p # "ingest" => UNCHANGED vars
    /\ p # "queues" => UNCHANGED queueVars

IntakeNext ==
    \/ Only("ingest") /\ Next
    \/ Only("queues") /\ QueueNext

\* The worker of the main queue goes on unless the queue is paused.
IntakeSpec ==
    /\ IntakeInit /\ [][IntakeNext]_intakeVars
    /\ \A id \in 1..MaxId :
         WF_intakeVars(Only("queues") /\ \E j \in WithId("main", id) : WorkerStep(j))
=============================================================================
