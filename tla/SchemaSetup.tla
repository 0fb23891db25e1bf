---------------------------- MODULE SchemaSetup ----------------------------
(***************************************************************************)
(* How processes that start side by side prepare the database: the way of  *)
(* the container (setupDatabase: deploy, verify, seed what is missing) and *)
(* the way of the orchestrator (initializeDatabaseModule: MigrationRunner, *)
(* then prisma/seed, which clears the tables first).  Each query ends an   *)
(* action; a process may be killed between two of them and started again.  *)
(***************************************************************************)
EXTENDS Naturals, Sequences, TLC

CONSTANTS
    Starters,       \* processes of one deployment
    Migrations,     \* number of migration directories; the first has the tables
    MaxMishaps      \* bound: rejected queries and killed processes

ASSUME SetupAssumption ==
    Migrations \in Nat \ {0} /\ MaxMishaps \in Nat /\ "nobody" \notin Starters

VARIABLES
    wiring,     \* how processes are started: "container" or "orchestrator"
    env,        \* NODE_ENV
    recorded, finished, broken,
                \* _prisma_migrations: how many have a row, how many are done,
                \* and whether the last row is of one that failed
    deployer,   \* who holds the lock of prisma migrate
    starter,    \* per process: where its start is, and the seeds to come
    rows,       \* rows of the database, by kind and author
    stored,     \* history: has a client stored a result?
    seeded, late, created,
                \* history: has a start seeded to the end, which processes
                \* began to seed after that, and what each has created
    mishaps

schema == <<recorded, finished, broken, deployer>>
notes == <<seeded, late, created>>
setupVars == <<wiring, env, schema, starter, rows, stored, notes, mishaps>>

Environments == {"development", "test", "staging", "production"}
Nobody == "nobody"
Off == [at |-> "off", seeds |-> <<>>]

SetupInit ==
    /\ wiring \in {"container", "orchestrator"} /\ env \in Environments
    /\ finished \in 0..Migrations /\ recorded = finished /\ broken = FALSE
    /\ deployer = Nobody
    /\ starter = [n \in Starters |-> Off]
    /\ rows = {} /\ stored = FALSE /\ mishaps = 0
    /\ seeded = FALSE /\ late = {} /\ created = [n \in Starters |-> {}]

-----------------------------------------------------------------------------
Stands(n, place) == starter[n].at = place
Goes(n, place) == starter' = [starter EXCEPT ![n].at = place]

Migrates == env \in IF wiring = "container" THEN {"development", "test"}
                                            ELSE {"development", "staging"}

Seeds == env = "development"

\* seedDatabase looks for each kind in turn; the seed script clears first.
SeedOrder == <<"webhook", "database", "result">>

ScriptOrder == <<"clear deliveries", "clear destinations", "clear results",
                 "webhook", "database", "result", "delivery">>

BeginStart(n) ==
    /\ starter[n].at \in {"off", "failed"}
    /\ Goes(n, IF ~Migrates THEN (IF wiring = "container" THEN "verify" ELSE "up")
               ELSE IF wiring = "container" THEN "deploy" ELSE "status")
    /\ created' = [created EXCEPT ![n] = {}]
    /\ late' = late \ {n}
    /\ UNCHANGED <<wiring, env, schema, rows, stored, seeded, mishaps>>

\* What follows the migrations: setupDatabase counts the rows of its tables,
\* the orchestrator's module does not.
SeedOrServe(n, order) ==
    IF Seeds
    THEN /\ starter' = [starter EXCEPT ![n] = [at |-> "seed", seeds |-> order]]
         /\ late' = IF seeded THEN late \cup {n} ELSE late
    ELSE Goes(n, "up") /\ UNCHANGED late

Migrated(n) ==
    IF wiring = "container" THEN Goes(n, "verify") /\ UNCHANGED late
                            ELSE SeedOrServe(n, ScriptOrder)

PendingButLast == recorded + 1 < Migrations

\* A row counts as applied unless it is marked as rolled back, so one whose
\* migration is under way or has failed counts too.
Pending == recorded < Migrations

GetMigrationStatus(n) ==
    /\ Stands(n, "status")
    /\ IF Pending THEN Goes(n, "deploy") /\ UNCHANGED late ELSE Migrated(n)
    /\ UNCHANGED <<wiring, env, schema, rows, stored, seeded, created, mishaps>>

\* prisma migrate deploy: refused after a failed migration, otherwise one
\* migration after the other under a lock; waiting for the lock ends in time.
Deploy(n) ==
    /\ Stands(n, "deploy")
    /\ \/ deployer = Nobody /\ broken /\ Goes(n, "failed") /\ UNCHANGED <<schema, late>>
       \/ deployer = Nobody /\ ~broken /\ finished = Migrations
          /\ Migrated(n) /\ UNCHANGED schema
       \/ /\ deployer = Nobody /\ ~broken /\ finished < Migrations
          /\ deployer' = n /\ recorded' = finished + 1 /\ Goes(n, "migrate")
          /\ UNCHANGED <<finished, broken, late>>
       \/ deployer # Nobody /\ Goes(n, "failed") /\ UNCHANGED <<schema, late>>
    /\ UNCHANGED <<wiring, env, rows, stored, seeded, created, mishaps>>

MigrationDone(n) ==
    /\ Stands(n, "migrate")
    /\ finished' = recorded
    /\ IF recorded < Migrations
       THEN recorded' = recorded + 1 /\ UNCHANGED <<deployer, starter, late>>
       ELSE deployer' = Nobody /\ Migrated(n) /\ UNCHANGED recorded
    /\ UNCHANGED <<wiring, env, broken, rows, stored, seeded, created, mishaps>>

Verify(n) ==
    /\ Stands(n, "verify")
    /\ IF finished = 0 THEN Goes(n, "failed") /\ UNCHANGED late
       ELSE SeedOrServe(n, SeedOrder)
    /\ UNCHANGED <<wiring, env, schema, rows, stored, seeded, created, mishaps>>

-----------------------------------------------------------------------------
Kinds(set) == {r.kind : r \in set}

Missing(kind) ==
    IF kind = "webhook" THEN Kinds(rows) \cap {"webhook", "database"} = {}
                        ELSE kind \notin Kinds(rows)

\* seedDatabase: the count; nothing of the kind leads to its create.
CountSeed(n) ==
    /\ wiring = "container" /\ Stands(n, "seed") /\ starter[n].seeds # <<>>
    /\ IF Missing(Head(starter[n].seeds)) THEN Goes(n, "create")
       ELSE starter' = [starter EXCEPT ![n].seeds = Tail(@)]
    /\ UNCHANGED <<wiring, env, schema, rows, stored, notes, mishaps>>

Create(n, place) ==
    /\ Stands(n, place)
    /\ rows' = rows \cup {[kind |-> Head(starter[n].seeds), by |-> n]}
    /\ created' = [created EXCEPT ![n] = @ \cup {Head(starter[n].seeds)}]
    /\ starter' = [starter EXCEPT ![n] = [at |-> "seed", seeds |-> Tail(@.seeds)]]
    /\ UNCHANGED <<wiring, env, schema, stored, seeded, late, mishaps>>

CreateSeed(n) == wiring = "container" /\ Create(n, "create")

ScriptAt(n) == wiring = "orchestrator" /\ Stands(n, "seed") /\ starter[n].seeds # <<>>

Cleared == ("clear deliveries" :> {"delivery"})
        @@ ("clear destinations" :> {"webhook", "database", "delivery"})
        @@ ("clear results" :> {"result", "delivery"})

\* seed: deleteMany, which cascades to the deliveries.
ClearTable(n) ==
    /\ ScriptAt(n) /\ Head(starter[n].seeds) \in DOMAIN Cleared
    /\ rows' = {r \in rows : r.kind \notin Cleared[Head(starter[n].seeds)]}
    /\ starter' = [starter EXCEPT ![n].seeds = Tail(@)]
    /\ UNCHANGED <<wiring, env, schema, stored, notes, mishaps>>

\* seed: the sample deliveries refer to the rows created before them.
Referred(n) ==
    \A k \in {"webhook", "database", "result"} : [kind |-> k, by |-> n] \in rows

CreateSample(n) ==
    /\ ScriptAt(n) /\ Head(starter[n].seeds) \notin DOMAIN Cleared
    /\ Head(starter[n].seeds) = "delivery" => Referred(n)
    /\ Create(n, "seed")

SampleRefused(n) ==
    /\ ScriptAt(n) /\ Head(starter[n].seeds) = "delivery" /\ ~Referred(n)
    /\ Goes(n, "failed")
    /\ UNCHANGED <<wiring, env, schema, rows, stored, notes, mishaps>>

SeedingDone(n) ==
    /\ Stands(n, "seed") /\ starter[n].seeds = <<>>
    /\ Goes(n, "up")
    /\ seeded' = TRUE
    /\ UNCHANGED <<wiring, env, schema, rows, stored, late, created, mishaps>>

-----------------------------------------------------------------------------
ClientStores(n) ==
    /\ Stands(n, "up") /\ ~stored /\ finished > 0
    /\ rows' = rows \cup {[kind |-> "result", by |-> "client"]}
    /\ stored' = TRUE
    /\ UNCHANGED <<wiring, env, schema, starter, notes, mishaps>>

\* A query is rejected, or the process is killed; a migration under way then
\* keeps its row and is not finished.
Mishap(n, end) ==
    /\ mishaps < MaxMishaps /\ mishaps' = mishaps + 1
    /\ starter[n].at \notin IF end = "off" THEN {"off", "failed"} ELSE {"off", "failed", "up"}
    /\ starter' = [starter EXCEPT ![n] = [at |-> end, seeds |-> <<>>]]
    /\ IF Stands(n, "migrate") THEN broken' = TRUE /\ deployer' = Nobody
                               ELSE UNCHANGED <<broken, deployer>>
    /\ UNCHANGED <<wiring, env, recorded, finished, rows, stored, notes>>

SetupNext ==
    \E n \in Starters :
        \/ BeginStart(n) \/ GetMigrationStatus(n) \/ Deploy(n) \/ MigrationDone(n)
        \/ Verify(n) \/ CountSeed(n) \/ CreateSeed(n) \/ ClearTable(n)
        \/ CreateSample(n) \/ SampleRefused(n) \/ SeedingDone(n) \/ ClientStores(n)
        \/ Mishap(n, "off") \/ Mishap(n, "failed")

SetupSpec == SetupInit /\ [][SetupNext]_setupVars

-----------------------------------------------------------------------------
(***************************************************************************)
(* A process that serves finds its schema.  After setupDatabase the tables *)
(* exist and, where it migrates, every migration is done, whoever deployed *)
(* it; MigrationRunner also starts serving while another process is still  *)
(* migrating or after a migration has failed, because getMigrationStatus   *)
(* takes such a row for an applied one.                                    *)
(***************************************************************************)
ServesOnASchema ==
    \A n \in Starters : Stands(n, "up") =>
        /\ wiring = "container" => finished > 0
        /\ Migrates => \/ finished = Migrations
                       \/ wiring = "orchestrator" /\ (broken \/ deployer # Nobody)

(***************************************************************************)
(* seedDatabase tests and creates in two queries, so processes that start  *)
(* together may both create; one that starts to seed after another has     *)
(* finished creates nothing.                                               *)
(***************************************************************************)
LateStartersSeedNothing ==
    wiring = "container" => \A n \in late : created[n] = {}

(***************************************************************************)
(* A development start that ends well leaves every kind of sample, though  *)
(* an earlier one was cut off between two creates (the order of            *)
(* seedDatabase, whose first test is for any destination at all).          *)
(***************************************************************************)
DevelopmentIsSeeded ==
    wiring = "container" /\ seeded => {"webhook", "database", "result"} \subseteq Kinds(rows)

(***************************************************************************)
(* Restarting a process keeps what clients have stored.  The exception is  *)
(* the orchestrator in development, whose seed script clears the tables.   *)
(***************************************************************************)
StoredResultsSurvive ==
    stored /\ ~(wiring = "orchestrator" /\ env = "development")
        => [kind |-> "result", by |-> "client"] \in rows

(***************************************************************************)
(* Processes that prepare the database side by side, are killed and start  *)
(* again serve on a schema and harm no data.                               *)
(***************************************************************************)
SetupIsSafe ==
    /\ ServesOnASchema
    /\ LateStartersSeedNothing
    /\ DevelopmentIsSeeded
    /\ StoredResultsSurvive
=============================================================================
