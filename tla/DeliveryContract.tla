-------------------------- MODULE DeliveryContract --------------------------
(***************************************************************************)
(* What the delivery side promises about a delivery, whichever service,    *)
(* worker or daemon handles it: it may be reopened or given up at any      *)
(* time, but it is reported as delivered only after its destination took   *)
(* the payload.                                                            *)
(***************************************************************************)
CONSTANT Deliveries

VARIABLES
    report,     \* per delivery: "open", "delivered" or "dead"
    accepted    \* the deliveries whose payload the destination took

cvars == <<report, accepted>>

ContractInit ==
    /\ report = [d \in Deliveries |-> "open"]
    /\ accepted = {}

DestinationAccepts(d) ==
    /\ accepted' = accepted \cup {d}
    /\ UNCHANGED report

ReportDelivered(d) ==
    /\ d \in accepted
    /\ report' = [report EXCEPT ![d] = "delivered"]
    /\ UNCHANGED accepted

GiveUp(d) ==
    /\ report' = [report EXCEPT ![d] = "dead"]
    /\ UNCHANGED accepted

Reopen(d) ==
    /\ report' = [report EXCEPT ![d] = "open"]
    /\ UNCHANGED accepted

ContractNext ==
    \E d \in Deliveries :
        DestinationAccepts(d) \/ ReportDelivered(d) \/ GiveUp(d) \/ Reopen(d)

ContractSpec == ContractInit /\ [][ContractNext]_cvars
=============================================================================
