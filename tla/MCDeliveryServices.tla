------------------------- MODULE MCDeliveryServices -------------------------
(* Instances of DeliveryServices: every service with one delivery, and in  *)
(* executions of their own a recovery of two rows whose workers have died. *)
EXTENDS DeliveryServices, TLC

VARIABLES part, prow, paged, pjob, pcall, pspoiled, paccepted, pcondemned, pfaults

MCServes == ("worker" :> {"process", "failure", "cancel"})
         @@ ("daemon" :> {"recover", "retry", "sync", "rebuild"})

PairServes == ("worker" :> {"failure", "cancel"}) @@ ("daemon" :> {"recover"})

PairDeliveries == {"d1", "d2"}

Pair == INSTANCE DeliveryServices
            WITH Deliveries <- PairDeliveries, Serves <- PairServes, JobIds <- {},
                 MaxFaults <- 2,
                 row <- prow, aged <- paged, job <- pjob, call <- pcall, spoiled <- pspoiled,
                 accepted <- paccepted, condemned <- pcondemned, faults <- pfaults

pairVars == <<prow, paged, pjob, pcall, pspoiled, paccepted, pcondemned, pfaults>>
allVars == <<part, vars, pairVars>>

\* Two workers have died while they waited for an answer.
PairInit ==
    /\ prow = [d \in PairDeliveries |-> MarkAsProcessing(Created)]
    /\ paged = PairDeliveries
    /\ pjob = <<>> /\ pcall = [c \in Callers |-> Idle]
    /\ pspoiled = {} /\ paccepted = {} /\ pcondemned = {} /\ pfaults = 0

MCInit == part \in {"services", "pair"} /\ Init /\ PairInit

Only(p) ==
    /\ part = p /\ UNCHANGED part
    /\ p # "services" => UNCHANGED vars
    /\ p # "pair" => UNCHANGED pairVars

MCNext ==
    \/ Only("services") /\ Next
    \/ Only("pair") /\ Pair!Next

MCSpec == MCInit /\ [][MCNext]_allVars

(***************************************************************************)
(* FoundRowsMoveOn of a recovery that finds two rows and may fail for one  *)
(* of them, while a worker reports failures and an operator gives up.      *)
(***************************************************************************)
PairMovesOn == Pair!FoundRowsMoveOn
=============================================================================
