------------------------- MODULE MCDeliveryPipeline -------------------------
(* Instances of DeliveryPipeline for TLC, one per deployment. *)
EXTENDS DeliveryPipeline, TLC

CONSTANTS d1, d2, w1, w2

OneDelivery == {d1}
TwoDeliveries == {d1, d2}
OneWorker == {w1}
TwoWorkers == {w1, w2}

\* What daemon-setup.ts starts, the daemons that write rows or add jobs a
\* worker can resolve, and everything there is.
SetupDaemons == {"delayed", "sync"}
RowDaemons == {"delayed", "stale", "reconstruct"}
EveryDaemon == AllDaemons

\* Faults after which BullMQ hands no job to two workers at a time, and all of them.
NoDuplicates == {"query", "crash", "daemon"}
EveryFault == {"query", "crash", "lock", "daemon"}

WorkerSymmetry == Permutations(Workers)

=============================================================================
