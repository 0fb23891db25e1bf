--------------------------- MODULE LeaderElection ---------------------------
(***************************************************************************)
(* The Redis lease that decides which node runs the recovery daemon        *)
(* (leader-election.ts), with the registration, shutdown and start of that *)
(* daemon around it (daemon-coordinator.ts, daemon.module.ts).             *)
(*                                                                         *)
(* A tick is the refresh interval of 10s.  A node has one connection to    *)
(* Redis, which runs its commands in the order they were sent; an action   *)
(* is one command with the code that runs on its reply, up to the next     *)
(* command it sends, so what a GET said may be out of date when the next   *)
(* command runs.  A process takes a fresh random id when it starts: a node *)
(* that comes back is another member of Nodes.                             *)
(***************************************************************************)
EXTENDS Integers, Sequences, FiniteSets

CONSTANTS
    Nodes,          \* process ids
    None,           \* no id: the key does not exist
    LeaseTicks,     \* leaseTtlMs over the refresh interval
    MaxWire,        \* bound on the commands of a node under way
    Timely,         \* do Redis and timers take less than a tick to answer?
    Flaky           \* the nodes whose Redis commands may fail

ASSUME ElectionAssumption ==
    /\ None \notin Nodes
    /\ LeaseTicks \in Nat /\ LeaseTicks > 1
    /\ MaxWire \in Nat \ {0}
    /\ Timely \in BOOLEAN
    /\ Flaky \subseteq Nodes

VARIABLES
    holder,     \* the value of the leader key
    ttl,        \* ticks until the key expires
    status,     \* per node: life of the process and of its registration
    flag,       \* per node: isLeaderFlag
    timer,      \* per node: is refreshTimer set?
    due,        \* per node: has the interval passed since the last refresh?
    wire,       \* per node: the commands sent to Redis, oldest first
    recovery    \* per node: does RecoveryDaemon run?

vars == <<holder, ttl, status, flag, timer, due, wire, recovery>>

Life == {"new", "registering", "registered", "up", "resigning", "resigned", "dead"}

\* participate sends SET, GET and PEXPIRE; resign sends its own GET and DEL.
ParticipateCommands == {"SET", "GET", "PEXPIRE"}
Commands == ParticipateCommands \cup {"resign GET", "DEL"}

(***************************************************************************)
(* The type invariant of the lease and of the nodes.                       *)
(***************************************************************************)
TypeOK ==
    /\ holder \in Nodes \cup {None}
    /\ ttl \in 0..LeaseTicks
    /\ status \in [Nodes -> Life]
    /\ flag \in [Nodes -> BOOLEAN]
    /\ timer \in [Nodes -> BOOLEAN]
    /\ due \in [Nodes -> BOOLEAN]
    /\ wire \in [Nodes -> Seq(Commands)]
    /\ recovery \in [Nodes -> BOOLEAN]

Init ==
    /\ holder = None
    /\ ttl = 0
    /\ status = [n \in Nodes |-> "new"]
    /\ flag = [n \in Nodes |-> FALSE]
    /\ timer = [n \in Nodes |-> FALSE]
    /\ due = [n \in Nodes |-> FALSE]
    /\ wire = [n \in Nodes |-> <<>>]
    /\ recovery = [n \in Nodes |-> FALSE]

-----------------------------------------------------------------------------
(* participate *)

Runs(n, command) == wire[n] # <<>> /\ Head(wire[n]) = command
Answered(n) == wire' = [wire EXCEPT ![n] = Tail(@)]
ThenSend(n, command) == wire' = [wire EXCEPT ![n] = Append(Tail(@), command)]
Send(n, command) == wire' = [wire EXCEPT ![n] = Append(@, command)]

\* participate returns: the flag, and the refresh timer with it.
Settle(n, acquired) ==
    /\ flag' = [flag EXCEPT ![n] = acquired]
    /\ timer' = [timer EXCEPT ![n] = acquired]
    /\ due' = [due EXCEPT ![n] = @ /\ acquired]
    /\ status' = [status EXCEPT ![n] = IF @ = "registering" THEN "registered" ELSE @]
    /\ Answered(n)

\* SET key id PX ttl NX
SetNX(n) ==
    /\ Runs(n, "SET")
    /\ IF holder = None
       THEN holder' = n /\ ttl' = LeaseTicks /\ Settle(n, TRUE)
       ELSE ThenSend(n, "GET") /\ UNCHANGED <<holder, ttl, status, flag, timer, due>>
    /\ UNCHANGED recovery

GetUnchecked(n) ==
    /\ Runs(n, "GET")
    /\ ThenSend(n, "PEXPIRE")
    /\ UNCHANGED <<holder, ttl, status, flag, timer, due, recovery>>

Get(n) ==
    /\ Runs(n, "GET")
    /\ IF holder = n
       THEN ThenSend(n, "PEXPIRE") /\ UNCHANGED <<status, flag, timer, due>>
       ELSE Settle(n, FALSE)
    /\ UNCHANGED <<holder, ttl, recovery>>

\* PEXPIRE extends the key, whoever holds it now; its reply is not looked at.
PExpire(n) ==
    /\ Runs(n, "PEXPIRE")
    /\ ttl' = IF holder = None THEN ttl ELSE LeaseTicks
    /\ Settle(n, TRUE)
    /\ UNCHANGED <<holder, recovery>>

\* The catch block of participate.
CommandFails(n) ==
    /\ n \in Flaky
    /\ \E command \in ParticipateCommands : Runs(n, command)
    /\ Settle(n, FALSE)
    /\ UNCHANGED <<holder, ttl, recovery>>

\* The refresh timer fires: a new call, even while an old one is under way.
Refresh(n) ==
    /\ timer[n] /\ due[n]
    /\ Len(wire[n]) < MaxWire
    /\ Send(n, "SET")
    /\ due' = [due EXCEPT ![n] = FALSE]
    /\ UNCHANGED <<holder, ttl, status, flag, timer, recovery>>

-----------------------------------------------------------------------------
(* Registration, start and shutdown *)

Register(n) ==
    /\ status[n] = "new"
    /\ status' = [status EXCEPT ![n] = "registering"]
    /\ Send(n, "SET")
    /\ UNCHANGED <<holder, ttl, flag, timer, due, recovery>>

\* initializeDaemonModule goes on: "Recovery runs if node is PRIMARY".
StartDaemons(n) ==
    /\ status[n] = "registered"
    /\ status' = [status EXCEPT ![n] = "up"]
    /\ recovery' = [recovery EXCEPT ![n] = flag[n]]
    /\ UNCHANGED <<holder, ttl, flag, timer, due, wire>>

ResignOnly(n) ==
    /\ status[n] = "up"
    /\ timer' = [timer EXCEPT ![n] = FALSE]
    /\ due' = [due EXCEPT ![n] = FALSE]
    /\ IF flag[n]
       THEN status' = [status EXCEPT ![n] = "resigning"] /\ Send(n, "resign GET")
       ELSE status' = [status EXCEPT ![n] = "resigned"] /\ UNCHANGED wire
    /\ UNCHANGED <<holder, ttl, flag, recovery>>

\* shutdown: stop the daemon, which waits for nothing, then resign.
Resign(n) ==
    /\ status[n] = "up"
    /\ recovery' = [recovery EXCEPT ![n] = FALSE]
    /\ timer' = [timer EXCEPT ![n] = FALSE]
    /\ due' = [due EXCEPT ![n] = FALSE]
    /\ IF flag[n]
       THEN status' = [status EXCEPT ![n] = "resigning"] /\ Send(n, "resign GET")
       ELSE status' = [status EXCEPT ![n] = "resigned"] /\ UNCHANGED wire
    /\ UNCHANGED <<holder, ttl, flag>>

LeaveOffice(n) ==
    /\ flag' = [flag EXCEPT ![n] = FALSE]
    /\ status' = [status EXCEPT ![n] = "resigned"]
    /\ Answered(n)

ResignGet(n) ==
    /\ Runs(n, "resign GET")
    /\ IF holder = n
       THEN ThenSend(n, "DEL") /\ UNCHANGED <<status, flag>>
       ELSE LeaveOffice(n)
    /\ UNCHANGED <<holder, ttl, timer, due, recovery>>

ResignDel(n) ==
    /\ Runs(n, "DEL")
    /\ holder' = None /\ ttl' = 0
    /\ LeaveOffice(n)
    /\ UNCHANGED <<timer, due, recovery>>

\* A Redis error inside resign is swallowed.
ResignFails(n) ==
    /\ n \in Flaky
    /\ Runs(n, "resign GET") \/ Runs(n, "DEL")
    /\ LeaveOffice(n)
    /\ UNCHANGED <<holder, ttl, timer, due, recovery>>

\* The process ends, after a shutdown or without one.
Crash(n) ==
    /\ status[n] \notin {"new", "dead"}
    /\ status' = [status EXCEPT ![n] = "dead"]
    /\ flag' = [flag EXCEPT ![n] = FALSE]
    /\ timer' = [timer EXCEPT ![n] = FALSE]
    /\ due' = [due EXCEPT ![n] = FALSE]
    /\ wire' = [wire EXCEPT ![n] = <<>>]
    /\ recovery' = [recovery EXCEPT ![n] = FALSE]
    /\ UNCHANGED <<holder, ttl>>

-----------------------------------------------------------------------------
(* Time *)

Tick ==
    /\ Timely => \A n \in Nodes : ~due[n] /\ wire[n] = <<>>
    /\ ttl' = IF ttl > 0 THEN ttl - 1 ELSE 0
    /\ holder' = IF ttl <= 1 THEN None ELSE holder
    /\ due' = timer
    /\ UNCHANGED <<status, flag, timer, wire, recovery>>

Next ==
    \/ \E n \in Nodes :
          \/ SetNX(n) \/ Get(n) \/ PExpire(n) \/ CommandFails(n) \/ Refresh(n)
          \/ Register(n) \/ StartDaemons(n)
          \/ Resign(n) \/ ResignGet(n) \/ ResignDel(n) \/ ResignFails(n)
          \/ Crash(n)
    \/ Tick

Spec == Init /\ [][Next]_vars

-----------------------------------------------------------------------------
(* Properties *)

\* The nodes in service: no shutdown has begun.
Serving == {n \in Nodes : status[n] \in {"registering", "registered", "up"}}

(***************************************************************************)
(* While Redis and the timers are timely, at most one node in service      *)
(* believes that it is PRIMARY, and the lease in Redis backs its belief:   *)
(* crashes, shutdowns and registrations in any order do not make two       *)
(* leaders (leader-election.ts, participate and resign).                   *)
(***************************************************************************)
OneLeader ==
    \A m, n \in Serving : (flag[m] /\ flag[n]) => (m = n /\ holder = n)

(***************************************************************************)
(* A DEL removes no lease but the node's own, and a node in service        *)
(* extends no other: the GET before it is still true when the command      *)
(* runs (leader-election.ts, resign and the refresh branch of participate).*)
(***************************************************************************)
OnlyOwnLease ==
    [][\A n \in Nodes :
          (ResignDel(n) \/ (n \in Serving /\ PExpire(n))) => holder = n]_vars

(***************************************************************************)
(* The recovery daemon is a "cluster-wide singleton (only 1 node acts as   *)
(* PRIMARY)" (coordination.ts:15) among the nodes whose Redis commands do  *)
(* not fail: no two of them run it, although the role is read only once,   *)
(* when a node starts (daemon.module.ts:104).                              *)
(***************************************************************************)
RecoverySingleton == \A m, n \in Nodes \ Flaky : (recovery[m] /\ recovery[n]) => m = n

(***************************************************************************)
(* One node leads, and one node recovers.                                  *)
(***************************************************************************)
LeadersAreUnique ==
    /\ OneLeader
    /\ RecoverySingleton
=============================================================================
