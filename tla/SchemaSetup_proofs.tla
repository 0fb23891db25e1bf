------------------------- MODULE SchemaSetup_proofs -------------------------
(***************************************************************************)
(* Proofs about SchemaSetup for any number of starting processes and any   *)
(* migrations: whoever serves has the schema it needs, results survive the *)
(* seeding, and no process seeds what another one has seeded.              *)
(*                                                                         *)
(* The argument: the lock of prisma migrate makes the migrations those of  *)
(* one process at a time, and what they have finished is never undone.     *)
(*                                                                         *)
(* Then about the rest of such a process's life (Lifecycle): from either   *)
(* entry point the steps find what they need, nothing runs on a closed     *)
(* store, and a clean exit of the container leaves nothing running.  Of    *)
(* the shutdown flows that signals start, one gets past the listener; what *)
(* it has passed is stopped for good.                                      *)
(*                                                                         *)
(* And about Telemetry, for any instruments: what they tell happened.      *)
(***************************************************************************)
EXTENDS SchemaSetup, Lifecycle, Telemetry, FunctionTheorems, FiniteSetTheorems, SequenceTheorems, TLAPS

Places == {"off", "failed", "status", "deploy", "migrate", "verify", "seed", "create", "up"}

\* The shape of the state.
Shaped ==
    /\ starter = [n \in Starters |-> starter[n]] /\ created = [n \in Starters |-> created[n]]
    /\ \A n \in Starters : DOMAIN starter[n] = {"at", "seeds"} /\ starter[n].at \in Places
    /\ recorded \in Nat /\ finished \in Nat /\ recorded <= Migrations
    /\ deployer \in Starters \cup {Nobody} /\ wiring \in {"container", "orchestrator"}

(***************************************************************************)
(* The lock of prisma migrate is held by the one process that migrates,    *)
(* and a row is ahead of its migration only while one is under way or      *)
(* after one has failed.                                                   *)
(***************************************************************************)
Locked ==
    /\ \A n \in Starters : Stands(n, "migrate") <=> deployer = n
    /\ deployer # Nobody => ~broken
    /\ recorded = IF broken \/ deployer # Nobody THEN finished + 1 ELSE finished

\* What a process has made sure of when it seeds and serves.
SchemaReady ==
    /\ wiring = "container" => finished > 0
    /\ Migrates => \/ finished = Migrations
                   \/ wiring = "orchestrator" /\ (broken \/ deployer # Nobody)

Prepared ==
    \A n \in Starters :
        /\ starter[n].at \in {"seed", "create", "up"} => SchemaReady
        /\ Stands(n, "status") => wiring # "container"
        /\ Stands(n, "verify") => wiring = "container" /\ (Migrates => finished = Migrations)
        /\ starter[n].at \in {"seed", "create"} => Seeds
        /\ starter[n].at \in {"status", "deploy", "migrate", "verify"} => created[n] = {}

SeedSuffixes == {<<"webhook", "database", "result">>, <<"database", "result">>, <<"result">>, <<>>}

\* What seedDatabase has found or created before the seeds to come.
Behind(seeds, kinds) ==
    /\ seeds \in SeedSuffixes
    /\ Len(seeds) < 3 => "webhook" \in kinds
    /\ Len(seeds) < 2 => "database" \in kinds
    /\ Len(seeds) < 1 => "result" \in kinds

Seeding ==
    wiring = "container" =>
        /\ \A n \in Starters : starter[n].at \in {"seed", "create"} =>
             Behind(starter[n].seeds, Kinds(rows))
        /\ \A n \in Starters : Stands(n, "create") => starter[n].seeds # <<>>
        /\ "database" \in Kinds(rows) => "webhook" \in Kinds(rows)
        /\ seeded => {"webhook", "database", "result"} \subseteq Kinds(rows)
        /\ \A n \in late : n \in Starters /\ seeded /\ ~Stands(n, "create") /\ created[n] = {}

(***************************************************************************)
(* The inductive invariant.                                                *)
(***************************************************************************)
SetupInv == Shaped /\ Locked /\ Prepared /\ Seeding /\ StoredResultsSurvive

\* A seed that is there, or has been created, is behind.
LEMMA SeedsGoOn ==
    ASSUME NEW s, NEW k, NEW k2, Behind(s, k), s # <<>>, k \subseteq k2
    PROVE  /\ Head(s) \in {"webhook", "database", "result"}
           /\ Head(s) = "database" => "webhook" \in k
           /\ Head(s) \in k2 => Behind(Tail(s), k2)
<1> DEFINE a == <<"webhook", "database", "result">>
           b == <<"database", "result">>
           c == <<"result">>
<1>1. /\ Len(a) = 3 /\ Len(b) = 2 /\ Len(c) = 1 /\ Len(<<>>) = 0
      /\ Head(a) = "webhook" /\ Head(b) = "database" /\ Head(c) = "result"
  OBVIOUS
<1>2. Tail(a) = b
  OBVIOUS
<1>3. Tail(b) = c
  OBVIOUS
<1>4. Tail(c) = <<>>
  OBVIOUS
<1>5. SeedSuffixes = {a, b, c, <<>>} /\ s \in SeedSuffixes
  BY Zenon DEF SeedSuffixes, Behind
<1>6. /\ Len(s) < 3 => "webhook" \in k
      /\ Len(s) < 2 => "database" \in k
  BY Zenon DEF Behind
<1> HIDE DEF a, b, c
<1>7. CASE s = a
  <2>1. Head(s) = "webhook" /\ Tail(s) = b
    BY <1>1, <1>2, <1>7, Zenon
  <2>2. b \in SeedSuffixes /\ Len(b) < 3 /\ ~(Len(b) < 2) /\ ~(Len(b) < 1)
    BY <1>1, <1>5
  <2>3. "webhook" \in k2 => Behind(b, k2)
    BY <2>2, Zenon DEF Behind
  <2>4. QED
    BY <2>1, <2>3
<1>8. CASE s = b
  <2>1. "webhook" \in k
    <3>1. Len(s) = 2
      BY <1>1, <1>8, Zenon
    <3>2. Len(s) < 3
      BY <3>1
    <3>3. QED
      BY <1>6, <3>2, Zenon
  <2>2. Head(s) = "database" /\ Tail(s) = c
    BY <1>1, <1>3, <1>8, Zenon
  <2>3. c \in SeedSuffixes /\ Len(c) = 1
    BY <1>1, <1>5, Zenon
  <2>4. ASSUME "database" \in k2 PROVE Behind(c, k2)
    <3>1. Len(c) < 3 /\ Len(c) < 2 /\ ~(Len(c) < 1) /\ "webhook" \in k2
      BY <2>1, <2>3
    <3>2. QED
      BY <2>3, <2>4, <3>1, Zenon DEF Behind
  <2>5. QED
    BY <2>1, <2>2, <2>4
<1>9. CASE s = c
  <2>1. {"webhook", "database"} \subseteq k
    <3>1. Len(s) = 1
      BY <1>1, <1>9, Zenon
    <3>2. Len(s) < 3 /\ Len(s) < 2
      BY <3>1
    <3>3. QED
      BY <1>6, <3>2, Zenon
  <2>2. Head(s) = "result" /\ Tail(s) = <<>>
    BY <1>1, <1>4, <1>9, Zenon
  <2>3. "result" \in k2 => Behind(<<>>, k2)
    <3>1. {"webhook", "database"} \subseteq k2 /\ <<>> \in SeedSuffixes
      BY <1>5, <2>1, Zenon
    <3>2. QED
      BY <3>1, Zenon DEF Behind
  <2>4. QED
    BY <2>1, <2>2, <2>3
<1>10. QED
  BY <1>5, <1>7, <1>8, <1>9

LEMMA KindsStay ==
    ASSUME NEW s, NEW k, NEW k2, Behind(s, k), k \subseteq k2
    PROVE  Behind(s, k2)
  BY DEF Behind

LEMMA KindsGrow ==
    ASSUME NEW R, NEW k, NEW b
    PROVE  Kinds(R \cup {[kind |-> k, by |-> b]}) = Kinds(R) \cup {k}
<1> DEFINE x == [kind |-> k, by |-> b]
<1>1. x.kind = k
  OBVIOUS
<1> HIDE DEF x
<1>2. Kinds(R \cup {x}) = Kinds(R) \cup {k}
  BY <1>1, Zenon DEF Kinds
<1>3. QED
  BY <1>2 DEF x

LEMMA SetupInvInit == SetupInit => SetupInv
<1> SUFFICES ASSUME SetupInit PROVE SetupInv
  OBVIOUS
<1>1. /\ starter = [n \in Starters |-> starter[n]] /\ created = [n \in Starters |-> created[n]]
      /\ \A n \in Starters : DOMAIN starter[n] = {"at", "seeds"} /\ starter[n].at = "off"
  BY DEF SetupInit, Off
<1>2. Shaped
  BY <1>1, SetupAssumption DEF SetupInit, Shaped, Places
<1>3. Locked
  BY <1>1, SetupAssumption DEF SetupInit, Locked, Stands, Nobody
<1>4. Prepared
  BY <1>1 DEF Prepared, Stands
<1>5. Seeding
  BY <1>1 DEF SetupInit, Seeding, Stands, Kinds
<1>6. StoredResultsSurvive
  BY DEF SetupInit, StoredResultsSurvive
<1>7. QED
  BY <1>2, <1>3, <1>4, <1>5, <1>6 DEF SetupInv

\* A step that leaves the schema and the rows alone.
LEMMA BeginStartKeeps ==
    ASSUME SetupInv, NEW n \in Starters, BeginStart(n)
    PROVE  SetupInv'
<1>1. /\ starter' = [m \in Starters |-> starter'[m]] /\ created' = [m \in Starters |-> created'[m]]
      /\ DOMAIN starter'[n] = {"at", "seeds"}
      /\ starter'[n].at \in {"verify", "up", "deploy", "status"}
      /\ \A m \in Starters : m # n => starter'[m] = starter[m] /\ created'[m] = created[m]
      /\ created'[n] = {}
      /\ starter'[n].at = "verify" => wiring = "container" /\ ~Migrates
      /\ starter'[n].at = "up" => wiring # "container" /\ ~Migrates
      /\ starter'[n].at = "status" => wiring # "container"
  BY DEF SetupInv, Shaped, BeginStart, Goes
<1>2. UNCHANGED <<wiring, env, recorded, finished, broken, deployer, rows, stored, seeded>>
  BY DEF BeginStart, schema
<1>3. starter[n].at \in {"off", "failed"} /\ late' = late \ {n}
  BY DEF BeginStart
<1>4. Shaped'
  BY <1>1, <1>2 DEF SetupInv, Shaped, Places
<1>5. Locked'
  BY <1>1, <1>2, <1>3 DEF SetupInv, Locked, Stands
<1>6. Prepared'
  BY <1>1, <1>2, <1>3 DEF SetupInv, Prepared, SchemaReady, Stands, Migrates, Seeds
<1>7. Seeding'
  BY <1>1, <1>2, <1>3 DEF SetupInv, Seeding, Stands
<1>8. StoredResultsSurvive'
  BY <1>2 DEF SetupInv, StoredResultsSurvive
<1>9. QED
  BY <1>4, <1>5, <1>6, <1>7, <1>8 DEF SetupInv

\* Only process n moves.
Advances(n) ==
    /\ starter' = [m \in Starters |-> starter'[m]] /\ DOMAIN starter'[n] = {"at", "seeds"}
    /\ starter'[n].at \in Places
    /\ \A m \in Starters : m # n => starter'[m] = starter[m]

(***************************************************************************)
(* What there is to show of a process that moves and leaves the schema and *)
(* the rows alone.                                                         *)
(***************************************************************************)
LEMMA MoveKeeps ==
    ASSUME SetupInv, NEW n \in Starters, Advances(n),
           UNCHANGED <<wiring, env, recorded, finished, broken, deployer, rows, stored, seeded, created>>,
           starter[n].at # "migrate", starter'[n].at # "migrate",
           starter'[n].at \in {"seed", "create", "up"} => SchemaReady,
           starter'[n].at = "status" => wiring # "container",
           starter'[n].at = "verify" => wiring = "container" /\ (Migrates => finished = Migrations),
           starter'[n].at \in {"seed", "create"} => Seeds,
           starter'[n].at \in {"status", "deploy", "verify"} => created[n] = {},
           wiring = "container" /\ starter'[n].at \in {"seed", "create"}
             => Behind(starter'[n].seeds, Kinds(rows)),
           wiring = "container" /\ starter'[n].at = "create" => starter'[n].seeds # <<>> /\ n \notin late,
           \/ late' = late
           \/ late' = late \cup {n} /\ seeded /\ created[n] = {} /\ starter'[n].at # "create"
    PROVE  SetupInv'
<1>1. /\ starter' = [m \in Starters |-> starter'[m]] /\ DOMAIN starter'[n] = {"at", "seeds"}
      /\ starter'[n].at \in Places
      /\ \A m \in Starters : m # n => starter'[m] = starter[m]
  BY DEF Advances
<1>2. Shaped'
  BY <1>1 DEF SetupInv, Shaped
<1>3. Locked'
  BY <1>1 DEF SetupInv, Locked, Stands
<1>4. Prepared'
  BY <1>1 DEF SetupInv, Prepared, SchemaReady, Stands, Migrates, Seeds
<1>5. Seeding'
  BY <1>1 DEF SetupInv, Seeding, Stands
<1>6. StoredResultsSurvive'
  BY DEF SetupInv, StoredResultsSurvive
<1>7. QED
  BY <1>2, <1>3, <1>4, <1>5, <1>6 DEF SetupInv

LEMMA SeedOrServeMoves ==
    ASSUME SetupInv, NEW n \in Starters, NEW order, SeedOrServe(n, order)
    PROVE  /\ Advances(n) /\ starter'[n].at \in {"seed", "up"}
           /\ starter'[n].at = "seed" => Seeds /\ starter'[n].seeds = order
           /\ late' = late \/ (late' = late \cup {n} /\ seeded)
  BY DEF SetupInv, Shaped, SeedOrServe, Goes, Advances, Places

LEMMA MigratedMoves ==
    ASSUME SetupInv, NEW n \in Starters, Migrated(n)
    PROVE  /\ Advances(n)
           /\ wiring = "container" => starter'[n].at = "verify" /\ late' = late
           /\ wiring # "container" => /\ starter'[n].at \in {"seed", "up"}
                                      /\ starter'[n].at = "seed" => Seeds
                                      /\ late' = late \/ (late' = late \cup {n} /\ seeded)
<1>1. CASE wiring = "container"
  BY <1>1 DEF SetupInv, Shaped, Migrated, Goes, Advances, Places
<1>2. CASE wiring # "container"
  BY <1>2, SeedOrServeMoves DEF Migrated
<1>3. QED
  BY <1>1, <1>2

LEMMA StatusKeeps ==
    ASSUME SetupInv, NEW n \in Starters, GetMigrationStatus(n)
    PROVE  SetupInv'
<1>1. UNCHANGED <<wiring, env, recorded, finished, broken, deployer, rows, stored, seeded, created>>
  BY DEF GetMigrationStatus, schema
<1>2. starter[n].at = "status" /\ created[n] = {}
  BY DEF GetMigrationStatus, Stands, SetupInv, Prepared
<1>3. CASE Pending
  <2>1. Advances(n) /\ starter'[n].at = "deploy" /\ late' = late
    BY <1>3 DEF GetMigrationStatus, Goes, Advances, SetupInv, Shaped, Places
  <2>2. QED
    BY <1>1, <1>2, <2>1, MoveKeeps
<1>4. CASE ~Pending
  <2>1. Migrated(n)
    BY <1>4 DEF GetMigrationStatus
  <2>2. recorded = Migrations
    BY <1>4, SetupAssumption DEF Pending, SetupInv, Shaped
  <2>3. finished = Migrations \/ broken \/ deployer # Nobody
    BY <2>2 DEF SetupInv, Locked
  <2>4. wiring = "orchestrator"
    BY <1>2 DEF SetupInv, Shaped, Prepared, Stands
  <2>5. SchemaReady
    BY <2>3, <2>4 DEF SchemaReady
  <2>6. /\ Advances(n) /\ starter'[n].at \in {"seed", "up"}
        /\ starter'[n].at = "seed" => Seeds
        /\ late' = late \/ (late' = late \cup {n} /\ seeded)
    BY <2>1, <2>4, MigratedMoves
  <2>7. QED
    BY <1>1, <1>2, <2>4, <2>5, <2>6, MoveKeeps
<1>5. QED
  BY <1>3, <1>4

LEMMA VerifyKeeps ==
    ASSUME SetupInv, NEW n \in Starters, Verify(n)
    PROVE  SetupInv'
<1>1. UNCHANGED <<wiring, env, recorded, finished, broken, deployer, rows, stored, seeded, created>>
  BY DEF Verify, schema
<1>2. /\ starter[n].at = "verify" /\ created[n] = {} /\ wiring = "container"
      /\ Migrates => finished = Migrations
  BY DEF Verify, Stands, SetupInv, Prepared
<1>3. CASE finished = 0
  <2>1. Advances(n) /\ starter'[n].at = "failed" /\ late' = late
    BY <1>3 DEF Verify, Goes, Advances, SetupInv, Shaped, Places
  <2>2. QED
    BY <1>1, <1>2, <2>1, MoveKeeps
<1>4. CASE finished # 0
  <2>1. SchemaReady
    BY <1>2, <1>4 DEF SchemaReady, SetupInv, Shaped
  <2>2. SeedOrServe(n, SeedOrder)
    BY <1>4 DEF Verify
  <2>3. /\ Advances(n) /\ starter'[n].at \in {"seed", "up"}
        /\ starter'[n].at = "seed" => Seeds /\ starter'[n].seeds = SeedOrder
        /\ late' = late \/ (late' = late \cup {n} /\ seeded)
    BY <2>2, SeedOrServeMoves
  <2>4. Behind(SeedOrder, Kinds(rows))
    BY DEF Behind, SeedOrder, SeedSuffixes
  <2>5. QED
    BY <1>1, <1>2, <2>1, <2>3, <2>4, MoveKeeps
<1>5. QED
  BY <1>3, <1>4

LEMMA DeployKeeps ==
    ASSUME SetupInv, NEW n \in Starters, Deploy(n)
    PROVE  SetupInv'
<1>1. UNCHANGED <<wiring, env, rows, stored, seeded, created>>
  BY DEF Deploy
<1>2. starter[n].at = "deploy" /\ created[n] = {}
  BY DEF Deploy, Stands, SetupInv, Prepared
<1>3. CASE Goes(n, "failed") /\ UNCHANGED <<schema, late>>
  <2>1. Advances(n) /\ starter'[n].at = "failed" /\ late' = late
    BY <1>3 DEF Goes, Advances, SetupInv, Shaped, Places
  <2>2. QED
    BY <1>1, <1>2, <1>3, <2>1, MoveKeeps DEF schema
<1>4. CASE finished = Migrations /\ Migrated(n) /\ UNCHANGED schema
  <2>1. /\ Advances(n)
        /\ wiring = "container" => starter'[n].at = "verify" /\ late' = late
        /\ wiring # "container" => /\ starter'[n].at \in {"seed", "up"}
                                   /\ starter'[n].at = "seed" => Seeds
                                   /\ late' = late \/ (late' = late \cup {n} /\ seeded)
    BY <1>4, MigratedMoves
  <2>2. SchemaReady
    BY <1>4, SetupAssumption DEF SchemaReady
  <2>3. QED
    BY <1>1, <1>2, <1>4, <2>1, <2>2, MoveKeeps DEF schema
<1>5. CASE /\ deployer = Nobody /\ ~broken /\ finished < Migrations
           /\ deployer' = n /\ recorded' = finished + 1 /\ Goes(n, "migrate")
           /\ UNCHANGED <<finished, broken, late>>
  <2>1. Advances(n) /\ starter'[n].at = "migrate"
    BY <1>5 DEF Goes, Advances, SetupInv, Shaped, Places
  <2>2. /\ starter' = [m \in Starters |-> starter'[m]] /\ DOMAIN starter'[n] = {"at", "seeds"}
        /\ \A m \in Starters : m # n => starter'[m] = starter[m]
    BY <2>1 DEF Advances
  <2>3. n # Nobody
    BY SetupAssumption DEF Nobody
  <2>4. Shaped'
    BY <1>1, <1>5, <2>1, <2>2, SetupAssumption DEF SetupInv, Shaped, Places
  <2>5. Locked'
    <3>1. \A m \in Starters : starter[m].at # "migrate"
      BY <1>5, SetupAssumption DEF SetupInv, Locked, Stands, Nobody
    <3>2. QED
      BY <1>5, <2>1, <2>2, <2>3, <3>1 DEF Locked, Stands
  <2>6. Prepared'
    BY <1>1, <1>2, <1>5, <2>1, <2>2 DEF SetupInv, Prepared, SchemaReady, Stands, Migrates, Seeds
  <2>7. Seeding'
    BY <1>1, <1>5, <2>1, <2>2 DEF SetupInv, Seeding, Stands
  <2>8. StoredResultsSurvive'
    BY <1>1 DEF SetupInv, StoredResultsSurvive
  <2>9. QED
    BY <2>4, <2>5, <2>6, <2>7, <2>8 DEF SetupInv
<1>6. QED
  BY <1>3, <1>4, <1>5 DEF Deploy

LEMMA MigrationDoneKeeps ==
    ASSUME SetupInv, NEW n \in Starters, MigrationDone(n)
    PROVE  SetupInv'
<1>1. UNCHANGED <<wiring, env, broken, rows, stored, seeded, created>>
  BY DEF MigrationDone
<1>2. /\ starter[n].at = "migrate" /\ created[n] = {} /\ deployer = n /\ n # Nobody /\ ~broken
      /\ \A m \in Starters : starter[m].at = "migrate" => m = n
  BY SetupAssumption DEF MigrationDone, Stands, SetupInv, Prepared, Locked, Nobody
<1>3. /\ recorded = finished + 1 /\ finished \in Nat /\ recorded <= Migrations /\ finished' = recorded
      /\ finished # Migrations
  BY <1>2, SetupAssumption DEF SetupInv, Locked, Shaped, MigrationDone
<1>4. StoredResultsSurvive'
  BY <1>1 DEF SetupInv, StoredResultsSurvive
<1>5. CASE recorded < Migrations
  <2>1. recorded' = recorded + 1 /\ UNCHANGED <<deployer, starter, late>>
    BY <1>5 DEF MigrationDone
  <2>2. Shaped'
    BY <1>1, <1>3, <1>5, <2>1, SetupAssumption DEF SetupInv, Shaped
  <2>3. Locked'
    BY <1>1, <1>2, <1>3, <2>1 DEF SetupInv, Locked, Stands
  <2>4. Prepared'
    BY <1>1, <1>2, <1>3, <2>1 DEF SetupInv, Prepared, SchemaReady, Stands, Migrates, Seeds
  <2>5. Seeding'
    BY <1>1, <2>1 DEF SetupInv, Seeding, Stands
  <2>6. QED
    BY <1>4, <2>2, <2>3, <2>4, <2>5 DEF SetupInv
<1>6. CASE ~(recorded < Migrations)
  <2>1. deployer' = Nobody /\ Migrated(n) /\ recorded' = recorded
    BY <1>6 DEF MigrationDone
  <2>2. finished' = Migrations /\ recorded' = Migrations /\ Migrations > 0
    BY <1>3, <1>6, <2>1, SetupAssumption
  <2>3. /\ Advances(n)
        /\ wiring = "container" => starter'[n].at = "verify" /\ late' = late
        /\ wiring # "container" => /\ starter'[n].at \in {"seed", "up"}
                                   /\ starter'[n].at = "seed" => Seeds
    BY <2>1, MigratedMoves
  <2>4. /\ starter' = [m \in Starters |-> starter'[m]] /\ DOMAIN starter'[n] = {"at", "seeds"}
        /\ starter'[n].at \in {"verify", "seed", "up"}
        /\ \A m \in Starters : m # n => starter'[m] = starter[m]
    BY <2>3 DEF Advances
  <2>5. Shaped'
    BY <1>1, <2>1, <2>2, <2>4, SetupAssumption DEF SetupInv, Shaped, Places
  <2>6. Locked'
    <3>1. \A m \in Starters : starter'[m].at # "migrate"
      BY <1>2, <2>4
    <3>2. QED
      BY <1>1, <1>2, <2>1, <2>2, <3>1, SetupAssumption DEF Locked, Stands, Nobody
  <2>7. Prepared'
    BY <1>1, <1>2, <2>2, <2>3, <2>4 DEF SetupInv, Prepared, SchemaReady, Stands, Migrates, Seeds
  <2>8. Seeding'
    BY <1>1, <2>3, <2>4 DEF SetupInv, Seeding, Stands
  <2>9. QED
    BY <1>4, <2>5, <2>6, <2>7, <2>8 DEF SetupInv
<1>7. QED
  BY <1>5, <1>6

LEMMA CountKeeps ==
    ASSUME SetupInv, NEW n \in Starters, CountSeed(n)
    PROVE  SetupInv'
<1> DEFINE k == Kinds(rows)
           s == starter[n].seeds
<1>1. UNCHANGED <<wiring, env, recorded, finished, broken, deployer, rows, stored, seeded, created, late>>
  BY DEF CountSeed, schema, notes
<1>2. starter[n].at = "seed" /\ wiring = "container" /\ s # <<>> /\ SchemaReady /\ Seeds
  BY DEF CountSeed, Stands, SetupInv, Prepared
<1>3. /\ Behind(s, k) /\ ("database" \in k => "webhook" \in k)
      /\ n \in late => {"webhook", "database", "result"} \subseteq k
  BY <1>2 DEF SetupInv, Seeding
<1>4. /\ Head(s) \in {"webhook", "database", "result"}
      /\ Head(s) \in k => Behind(Tail(s), k)
  BY <1>2, <1>3, SeedsGoOn
<1>5. CASE Missing(Head(s))
  <2>1. Advances(n) /\ starter'[n].at = "create" /\ starter'[n].seeds = s
    BY <1>5 DEF CountSeed, Goes, Advances, SetupInv, Shaped, Places
  <2>2. n \notin late
    BY <1>3, <1>4, <1>5 DEF Missing
  <2>3. QED
    BY <1>1, <1>2, <1>3, <2>1, <2>2, MoveKeeps
<1>6. CASE ~Missing(Head(s))
  <2> DEFINE t == Tail(s)
  <2>6. starter' = [starter EXCEPT ![n].seeds = t]
    BY <1>6 DEF CountSeed
  <2> HIDE DEF t
  <2>7. Advances(n) /\ starter'[n].at = "seed" /\ starter'[n].seeds = t
    BY <1>2, <2>6 DEF Advances, SetupInv, Shaped, Places
  <2>1. Advances(n) /\ starter'[n].at = "seed" /\ starter'[n].seeds = Tail(s)
    BY <2>7 DEF t
  <2> HIDE DEF s, k
  <2>2. Head(s) \in k
    BY <1>3, <1>4, <1>6 DEF Missing, k
  <2>3. Behind(Tail(s), k)
    BY <1>4, <2>2
  <2>4. Behind(starter'[n].seeds, Kinds(rows))
    BY <2>1, <2>3 DEF k
  <2>5. QED
    BY <1>1, <1>2, <2>1, <2>4, MoveKeeps
<1>7. QED
  BY <1>5, <1>6

\* One more row of kind k, by a seed or by a client.
LEMMA RowsGrow ==
    ASSUME NEW k, NEW b, rows' = rows \cup {[kind |-> k, by |-> b]}
    PROVE  Kinds(rows') = Kinds(rows) \cup {k} /\ rows \subseteq rows'
  BY KindsGrow

LEMMA CreateKeeps ==
    ASSUME SetupInv, NEW n \in Starters, starter[n].at \in {"seed", "create"},
           wiring = "container" => starter[n].at = "create",
           rows' = rows \cup {[kind |-> Head(starter[n].seeds), by |-> n]},
           created' = [created EXCEPT ![n] = @ \cup {Head(starter[n].seeds)}],
           starter' = [starter EXCEPT ![n] = [at |-> "seed", seeds |-> Tail(@.seeds)]],
           UNCHANGED <<wiring, env, schema, stored, seeded, late, mishaps>>
    PROVE  SetupInv'
<1> DEFINE k == Kinds(rows)
           s == starter[n].seeds
           k2 == Kinds(rows')
<1>1. UNCHANGED <<wiring, env, recorded, finished, broken, deployer, stored, seeded, late>>
  BY DEF schema
<1>2. SchemaReady /\ Seeds
  BY DEF SetupInv, Prepared
<1>3. /\ starter' = [m \in Starters |-> starter'[m]] /\ DOMAIN starter'[n] = {"at", "seeds"}
      /\ starter'[n].at = "seed" /\ starter'[n].seeds = Tail(s)
      /\ created' = [m \in Starters |-> created'[m]]
      /\ \A m \in Starters : m # n => starter'[m] = starter[m] /\ created'[m] = created[m]
  BY DEF SetupInv, Shaped
<1>4. k2 = k \cup {Head(s)} /\ rows \subseteq rows'
  BY RowsGrow
<1>5. Shaped'
  BY <1>1, <1>3 DEF SetupInv, Shaped, Places
<1>6. Locked'
  BY <1>1, <1>3 DEF SetupInv, Locked, Stands
<1>7. Prepared'
  BY <1>1, <1>2, <1>3 DEF SetupInv, Prepared, SchemaReady, Stands, Migrates, Seeds
<1>8. Seeding'
  <2> SUFFICES ASSUME wiring = "container" PROVE Seeding'
    BY <1>1 DEF Seeding
  <2>1. starter[n].at = "create" /\ s # <<>> /\ Behind(s, k) /\ n \notin late
    BY DEF SetupInv, Seeding, Stands
  <2> HIDE DEF s, k, k2
  <2>2. k \subseteq k2 /\ Head(s) \in k2
    BY <1>4
  <2>3. Behind(Tail(s), k2) /\ (Head(s) = "database" => "webhook" \in k)
    BY <2>1, <2>2, SeedsGoOn
  <2>4. \A m \in Starters : Behind(starter[m].seeds, k) => Behind(starter[m].seeds, k2)
    BY <2>2, KindsStay
  <2>5. "database" \in k2 => "webhook" \in k2
    BY <1>4, <2>3 DEF SetupInv, Seeding, k
  <2>6. \A m \in Starters : starter'[m].at \in {"seed", "create"} => Behind(starter'[m].seeds, k2)
    BY <1>3, <2>3, <2>4 DEF SetupInv, Seeding, k
  <2>7. \A m \in Starters : starter'[m].at = "create" => starter'[m].seeds # <<>>
    BY <1>3 DEF SetupInv, Seeding, Stands
  <2>8. seeded => {"webhook", "database", "result"} \subseteq k2
    BY <1>4 DEF SetupInv, Seeding, k
  <2>9. \A m \in late : m \in Starters /\ seeded /\ starter'[m].at # "create" /\ created'[m] = {}
    BY <1>3, <2>1 DEF SetupInv, Seeding, Stands
  <2>10. QED
    <3>1. Kinds(rows)' = k2 /\ late' = late /\ seeded' = seeded
      BY <1>1 DEF k2, Kinds
    <3>2. QED
      BY <2>5, <2>6, <2>7, <2>8, <2>9, <3>1 DEF Seeding, Stands
<1>9. StoredResultsSurvive'
  BY <1>1, <1>4 DEF SetupInv, StoredResultsSurvive
<1>10. QED
  BY <1>5, <1>6, <1>7, <1>8, <1>9 DEF SetupInv

LEMMA CreateSeedKeeps ==
    ASSUME SetupInv, NEW n \in Starters, CreateSeed(n) \/ CreateSample(n)
    PROVE  SetupInv'
<1>1. CASE CreateSeed(n)
  BY <1>1, CreateKeeps DEF CreateSeed, Create, Stands
<1>2. CASE CreateSample(n)
  BY <1>2, CreateKeeps DEF CreateSample, ScriptAt, Create, Stands
<1>3. QED
  BY <1>1, <1>2

\* The seed script clears tables, but only in development and only there.
LEMMA ClearKeeps ==
    ASSUME SetupInv, NEW n \in Starters, ClearTable(n)
    PROVE  SetupInv'
<1> DEFINE t == Tail(starter[n].seeds)
<1>1. /\ UNCHANGED <<wiring, env, recorded, finished, broken, deployer, stored, seeded, created, late>>
      /\ starter' = [starter EXCEPT ![n].seeds = t]
  BY DEF ClearTable, schema, notes
<1>2. starter[n].at = "seed" /\ wiring = "orchestrator" /\ SchemaReady /\ Seeds
  BY DEF ClearTable, ScriptAt, Stands, SetupInv, Prepared
<1> HIDE DEF t
<1>3. /\ starter' = [m \in Starters |-> starter'[m]]
      /\ \A m \in Starters : DOMAIN starter'[m] = {"at", "seeds"} /\ starter'[m].at = starter[m].at
  BY <1>1 DEF SetupInv, Shaped
<1>4. Shaped'
  BY <1>1, <1>3 DEF SetupInv, Shaped
<1>5. Locked'
  BY <1>1, <1>3 DEF SetupInv, Locked, Stands
<1>6. Prepared'
  BY <1>1, <1>3 DEF SetupInv, Prepared, SchemaReady, Stands, Migrates, Seeds
<1>7. Seeding' /\ StoredResultsSurvive'
  BY <1>1, <1>2 DEF Seeding, StoredResultsSurvive, Seeds
<1>8. QED
  BY <1>4, <1>5, <1>6, <1>7 DEF SetupInv

LEMMA SampleRefusedKeeps ==
    ASSUME SetupInv, NEW n \in Starters, SampleRefused(n)
    PROVE  SetupInv'
<1>1. UNCHANGED <<wiring, env, recorded, finished, broken, deployer, rows, stored, seeded, created, late>>
  BY DEF SampleRefused, schema, notes
<1>2. starter[n].at = "seed"
  BY DEF SampleRefused, ScriptAt, Stands
<1>3. Advances(n) /\ starter'[n].at = "failed"
  BY DEF SampleRefused, Goes, Advances, SetupInv, Shaped, Places
<1>4. QED
  BY <1>1, <1>2, <1>3, MoveKeeps

LEMMA SeedingDoneKeeps ==
    ASSUME SetupInv, NEW n \in Starters, SeedingDone(n)
    PROVE  SetupInv'
<1>1. UNCHANGED <<wiring, env, recorded, finished, broken, deployer, rows, stored, created, late>>
  BY DEF SeedingDone, schema
<1>2. starter[n].at = "seed" /\ SchemaReady /\ starter[n].seeds = <<>> /\ seeded'
  BY DEF SeedingDone, Stands, SetupInv, Prepared
<1>3. Advances(n) /\ starter'[n].at = "up"
  BY DEF SeedingDone, Goes, Advances, SetupInv, Shaped, Places
<1>4. /\ starter' = [m \in Starters |-> starter'[m]] /\ DOMAIN starter'[n] = {"at", "seeds"}
      /\ \A m \in Starters : m # n => starter'[m] = starter[m]
  BY <1>3 DEF Advances
<1>5. wiring = "container" => {"webhook", "database", "result"} \subseteq Kinds(rows)
  BY <1>2 DEF SetupInv, Seeding, Behind
<1>6. Shaped'
  BY <1>1, <1>3, <1>4 DEF SetupInv, Shaped, Places
<1>7. Locked'
  BY <1>1, <1>2, <1>3, <1>4 DEF SetupInv, Locked, Stands
<1>8. Prepared'
  BY <1>1, <1>2, <1>3, <1>4 DEF SetupInv, Prepared, SchemaReady, Stands, Migrates, Seeds
<1>9. Seeding'
  BY <1>1, <1>2, <1>3, <1>4, <1>5 DEF SetupInv, Seeding, Stands
<1>10. StoredResultsSurvive'
  BY <1>1 DEF SetupInv, StoredResultsSurvive
<1>11. QED
  BY <1>6, <1>7, <1>8, <1>9, <1>10 DEF SetupInv

LEMMA ClientStoresKeeps ==
    ASSUME SetupInv, NEW n \in Starters, ClientStores(n)
    PROVE  SetupInv'
<1> DEFINE k == Kinds(rows)
           k2 == Kinds(rows')
<1>1. UNCHANGED <<wiring, env, recorded, finished, broken, deployer, starter, seeded, created, late>>
  BY DEF ClientStores, schema, notes
<1>2. rows' = rows \cup {[kind |-> "result", by |-> "client"]}
  BY DEF ClientStores
<1>3. k2 = k \cup {"result"}
  BY <1>2, KindsGrow, Zenon
<1>4. Shaped' /\ Locked'
  BY <1>1 DEF SetupInv, Shaped, Locked, Stands
<1>5. Prepared'
  BY <1>1 DEF SetupInv, Prepared, SchemaReady, Stands, Migrates, Seeds
<1>6. Seeding'
  <2> HIDE DEF k, k2
  <2>1. Kinds(rows)' = k2 /\ k \subseteq k2
    BY <1>3 DEF k2, Kinds
  <2>2. \A m \in Starters : Behind(starter[m].seeds, k) => Behind(starter[m].seeds, k2)
    BY <2>1, KindsStay
  <2>3. QED
    <3> SUFFICES ASSUME wiring = "container" PROVE Seeding'
      BY <1>1 DEF Seeding
    <3>1. \A m \in Starters : starter[m].at \in {"seed", "create"} => Behind(starter[m].seeds, k2)
      BY <2>2 DEF SetupInv, Seeding, k
    <3>2. /\ "database" \in k2 => "webhook" \in k2
          /\ seeded => {"webhook", "database", "result"} \subseteq k2
      BY <1>3, <2>1 DEF SetupInv, Seeding, k
    <3>3. /\ \A m \in Starters : starter[m].at = "create" => starter[m].seeds # <<>>
          /\ \A m \in late : m \in Starters /\ seeded /\ starter[m].at # "create" /\ created[m] = {}
      BY DEF SetupInv, Seeding, Stands
    <3>4. QED
      BY <1>1, <2>1, <3>1, <3>2, <3>3 DEF Seeding, Stands
<1>7. StoredResultsSurvive'
  BY <1>2 DEF StoredResultsSurvive
<1>8. QED
  BY <1>4, <1>5, <1>6, <1>7 DEF SetupInv

LEMMA MishapKeeps ==
    ASSUME SetupInv, NEW n \in Starters, NEW end \in {"off", "failed"}, Mishap(n, end)
    PROVE  SetupInv'
<1>1. /\ UNCHANGED <<wiring, env, recorded, finished, rows, stored, seeded, created, late>>
      /\ starter' = [starter EXCEPT ![n] = [at |-> end, seeds |-> <<>>]]
  BY DEF Mishap, notes
<1>2. Advances(n) /\ starter'[n].at \in {"off", "failed"}
  BY <1>1 DEF Advances, SetupInv, Shaped, Places
<1>3. CASE ~Stands(n, "migrate")
  <2>1. UNCHANGED <<broken, deployer>> /\ starter[n].at # "migrate"
    BY <1>3 DEF Mishap, Stands
  <2>2. QED
    BY <1>1, <1>2, <2>1, MoveKeeps
<1>4. CASE Stands(n, "migrate")
  <2>1. broken' = TRUE /\ deployer' = Nobody
    BY <1>4 DEF Mishap
  <2>2. /\ starter' = [m \in Starters |-> starter'[m]] /\ DOMAIN starter'[n] = {"at", "seeds"}
        /\ \A m \in Starters : m # n => starter'[m] = starter[m]
    BY <1>2 DEF Advances
  <2>3. /\ deployer = n /\ n # Nobody /\ recorded = finished + 1
        /\ \A m \in Starters : starter'[m].at # "migrate"
    BY <1>2, <1>4, <2>2, SetupAssumption DEF SetupInv, Locked, Stands, Nobody
  <2>4. Shaped'
    BY <1>1, <1>2, <2>1, <2>2 DEF SetupInv, Shaped, Places
  <2>5. Locked'
    BY <1>1, <2>1, <2>3, SetupAssumption DEF Locked, Stands, Nobody
  <2>6. Prepared'
    BY <1>1, <1>2, <2>1, <2>2 DEF SetupInv, Prepared, SchemaReady, Stands, Migrates, Seeds
  <2>7. Seeding'
    BY <1>1, <1>2, <2>2 DEF SetupInv, Seeding, Stands
  <2>8. StoredResultsSurvive'
    BY <1>1 DEF SetupInv, StoredResultsSurvive
  <2>9. QED
    BY <2>4, <2>5, <2>6, <2>7, <2>8 DEF SetupInv
<1>5. QED
  BY <1>3, <1>4

LEMMA SetupInvNext == SetupInv /\ [SetupNext]_setupVars => SetupInv'
<1> SUFFICES ASSUME SetupInv, [SetupNext]_setupVars PROVE SetupInv'
  OBVIOUS
<1>1. ASSUME NEW n \in Starters, BeginStart(n) PROVE SetupInv'
  BY <1>1, BeginStartKeeps
<1>2. ASSUME NEW n \in Starters, GetMigrationStatus(n) PROVE SetupInv'
  BY <1>2, StatusKeeps
<1>3. ASSUME NEW n \in Starters, Deploy(n) PROVE SetupInv'
  BY <1>3, DeployKeeps
<1>4. ASSUME NEW n \in Starters, MigrationDone(n) PROVE SetupInv'
  BY <1>4, MigrationDoneKeeps
<1>5. ASSUME NEW n \in Starters, Verify(n) PROVE SetupInv'
  BY <1>5, VerifyKeeps
<1>6. ASSUME NEW n \in Starters, CountSeed(n) PROVE SetupInv'
  BY <1>6, CountKeeps
<1>7. ASSUME NEW n \in Starters, CreateSeed(n) \/ CreateSample(n) PROVE SetupInv'
  BY <1>7, CreateSeedKeeps
<1>8. ASSUME NEW n \in Starters, ClearTable(n) PROVE SetupInv'
  BY <1>8, ClearKeeps
<1>9. ASSUME NEW n \in Starters, SampleRefused(n) PROVE SetupInv'
  BY <1>9, SampleRefusedKeeps
<1>10. ASSUME NEW n \in Starters, SeedingDone(n) PROVE SetupInv'
  BY <1>10, SeedingDoneKeeps
<1>11. ASSUME NEW n \in Starters, ClientStores(n) PROVE SetupInv'
  BY <1>11, ClientStoresKeeps
<1>12. ASSUME NEW n \in Starters, NEW end \in {"off", "failed"}, Mishap(n, end) PROVE SetupInv'
  BY <1>12, MishapKeeps
<1>13. CASE UNCHANGED setupVars
  BY <1>13 DEF setupVars, schema, notes, SetupInv, Shaped, Locked, Prepared, Seeding, SchemaReady,
               Stands, Migrates, Seeds, Kinds, StoredResultsSurvive
<1>14. QED
  BY <1>1, <1>2, <1>3, <1>4, <1>5, <1>6, <1>7, <1>8, <1>9, <1>10, <1>11, <1>12, <1>13, Zenon
     DEF SetupNext

(***************************************************************************)
(* However many processes prepare the database side by side, are killed    *)
(* and start again, and however many migrations there are: who serves      *)
(* finds its schema, a late starter seeds nothing, a start that ends well  *)
(* leaves every sample, and what clients stored survives.                  *)
(***************************************************************************)
THEOREM SetupStaysSafe == SetupSpec => []SetupIsSafe
<1>1. ASSUME SetupInv PROVE SetupIsSafe
  <2>1. ServesOnASchema
    BY <1>1 DEF SetupInv, Prepared, SchemaReady, ServesOnASchema, Stands
  <2>2. LateStartersSeedNothing /\ DevelopmentIsSeeded
    BY <1>1 DEF SetupInv, Seeding, LateStartersSeedNothing, DevelopmentIsSeeded
  <2>3. QED
    BY <1>1, <2>1, <2>2 DEF SetupInv, SetupIsSafe
<1>2. QED
  BY <1>1, SetupInvInit, SetupInvNext, PTL DEF SetupSpec

-----------------------------------------------------------------------------
(* Lifecycle *)

LifeSpec == LifeInit /\ [][LifeNext]_lifeVars

FromExit == {"exit", "done"}
FromDb == {"db"} \cup FromExit
FromRedis == {"redis"} \cup FromDb
FromTracer == {"tracer"} \cup FromRedis
FromDaemon == {"daemon"} \cup FromTracer
FromWorker == {"worker"} \cup FromDaemon
FromDraining == {"draining"} \cup FromWorker

LifeTyped ==
    /\ entry \in {"orchestrator", "container"}
    /\ phase \in {"booting", "up", "failed", "exited"}
    /\ done \in 0..Len(Steps) /\ (phase = "booting" => done < Len(Steps))
    /\ live \subseteq {"http", "worker", "daemon"} /\ stores \subseteq Stores
    /\ requests \in Nat /\ once \subseteq Signals

\* What has been set up is there, and nothing serves before the stores are.
BootInv ==
    /\ \A i \in 1..done : Steps[i].gives \subseteq provided
    /\ "http" \in live \/ "daemon" \in live \/ requests > 0 => done >= 3

\* A flow that has passed a stage of container.shutdown leaves nothing of it.
FlowInv(s) ==
    /\ FlowAt(s) \in {"none", "start"} \cup FromDraining
    /\ s \in once => FlowAt(s) = "none"
    /\ FlowAt(s) \in FromDraining => "http" \notin live
    /\ FlowAt(s) \in FromWorker => requests = 0
    /\ FlowAt(s) \in FromDaemon => "worker" \notin live
    /\ FlowAt(s) \in FromTracer => "daemon" \notin live
    /\ FlowAt(s) \in FromDb => "redis" \notin stores
    /\ FlowAt(s) \in FromExit => "db" \notin stores

\* Of two flows, the one that finds the listener closed does not go on.
OneFlow ==
    phase # "exited" =>
        \A s, t \in Signals : FlowAt(s) \in FromDraining /\ FlowAt(t) \in FromDraining => s = t

ContainerInv ==
    entry = "container" =>
        /\ phase = "booting" => once = {} /\ \A s \in Signals : FlowAt(s) = "none"
        /\ FlowAt("server") = "none" /\ \A s \in Signals : FlowInv(s)
        /\ OneFlow

StoresInv ==
    (entry = "orchestrator" \/ \A s \in Signals : FlowAt(s) \notin FromRedis) =>
        \A i \in 1..done : Steps[i].gives \cap Stores \subseteq stores

LifeInv ==
    /\ LifeTyped /\ BootInv /\ ContainerInv /\ StoresInv
    /\ StepsFindTheirNeeds /\ NothingRunsBlind /\ CleanExitsAreClean

LEMMA WithFacts ==
    ASSUME NEW f, NEW at, flows' = With(flows, f, at), NEW g
    PROVE  FlowAt(g)' = IF g = f THEN at ELSE FlowAt(g)
  BY DEF FlowAt, With

\* The steps one by one.
LEMMA OrchestratorStepFacts ==
    ASSUME entry = "orchestrator"
    PROVE  /\ Len(Steps) = 11
           /\ Steps[1] = ConfigInitializer /\ Steps[2] = ObservabilityInitializer
           /\ Steps[3] = InfrastructureInitializer /\ Steps[4] = DomainInitializer
           /\ Steps[5] = ApplicationInitializer /\ Steps[6] = SecurityInitializer
           /\ Steps[7] = ResilienceInitializer /\ Steps[8] = ApiInitializer
           /\ Steps[9] = WorkerInitializer /\ Steps[10] = DaemonInitializer
           /\ Steps[11] = Step("listen", {"config", "api", "logger"}, {})
  BY DEF Steps, OrchestratorSteps

LEMMA ContainerStepFacts ==
    ASSUME entry = "container"
    PROVE  /\ Len(Steps) = 14
           /\ Steps[1] = SetupDatabase /\ Steps[2] = SetupRedis
           /\ Steps[3] = Step("repositories", {"db"}, {"repositories"})
           /\ Steps[4] = SetupQueue /\ Steps[5] = SetupObservability
           /\ Steps[6] = SetupSecurity /\ Steps[7] = SetupResilience
           /\ Steps[8] = Step("services", {"repositories", "queue", "redis", "observability"},
                              {"services"})
           /\ Steps[9] = SetupWorker /\ Steps[10] = SetupDaemon /\ Steps[11] = SetupApi
           /\ Steps[12] = StartupValidator /\ Steps[13] = WaitForHealthy
           /\ Steps[14] = Step("listen", {"api"}, {})
  BY DEF Steps, ContainerSteps

\* Whatever a step of the orchestrator asks for, an earlier step has provided.
LEMMA OrchestratorOrder ==
    ASSUME entry = "orchestrator", done \in 0..Len(Steps), done < Len(Steps),
           \A i \in 1..done : Steps[i].gives \subseteq provided
    PROVE  Steps[done + 1].needs \subseteq provided
<1>1. done \in 0..10 /\ done \in Nat
  <2>1. Len(Steps) = 11
    BY OrchestratorStepFacts
  <2>2. QED
    BY <2>1
<1>2. /\ Steps[1].gives = {"config"}
      /\ Steps[2].gives = {"observability", "logger"}
      /\ Steps[3].gives = {"repositories", "redis", "queue", "db"}
      /\ Steps[5].gives = {"application"}
      /\ Steps[6].gives = {"security"}
      /\ Steps[7].gives = {"resilience"}
      /\ Steps[8].gives = {"api"}
  BY OrchestratorStepFacts DEF Step, ConfigInitializer, ObservabilityInitializer, InfrastructureInitializer, ApplicationInitializer, SecurityInitializer, ResilienceInitializer, ApiInitializer
<1>3. /\ done >= 1 => "config" \in provided
      /\ done >= 2 => "observability" \in provided /\ "logger" \in provided
      /\ done >= 3 => "repositories" \in provided /\ "redis" \in provided /\ "queue" \in provided /\ "db" \in provided
      /\ done >= 5 => "application" \in provided
      /\ done >= 6 => "security" \in provided
      /\ done >= 7 => "resilience" \in provided
      /\ done >= 8 => "api" \in provided
  BY <1>1, <1>2
<1>4. CASE done = 0
  <2>1. Steps[done + 1].needs = {}
    BY <1>4, OrchestratorStepFacts DEF Step, ConfigInitializer
  <2>2. QED
    BY <1>3, <1>4, <2>1
<1>5. CASE done = 1
  <2>1. Steps[done + 1].needs = {}
    BY <1>5, OrchestratorStepFacts DEF Step, ObservabilityInitializer
  <2>2. QED
    BY <1>3, <1>5, <2>1
<1>6. CASE done = 2
  <2>1. Steps[done + 1].needs = {"config", "logger"}
    BY <1>6, OrchestratorStepFacts DEF Step, InfrastructureInitializer
  <2>2. QED
    BY <1>3, <1>6, <2>1
<1>7. CASE done = 3
  <2>1. Steps[done + 1].needs = {}
    BY <1>7, OrchestratorStepFacts DEF Step, DomainInitializer
  <2>2. QED
    BY <1>3, <1>7, <2>1
<1>8. CASE done = 4
  <2>1. Steps[done + 1].needs = {"repositories", "queue", "logger", "observability"}
    BY <1>8, OrchestratorStepFacts DEF Step, ApplicationInitializer
  <2>2. QED
    BY <1>3, <1>8, <2>1
<1>9. CASE done = 5
  <2>1. Steps[done + 1].needs = {"config", "repositories", "redis", "logger"}
    BY <1>9, OrchestratorStepFacts DEF Step, SecurityInitializer
  <2>2. QED
    BY <1>3, <1>9, <2>1
<1>10. CASE done = 6
  <2>1. Steps[done + 1].needs = {"config", "logger", "observability", "queue"}
    BY <1>10, OrchestratorStepFacts DEF Step, ResilienceInitializer, Base
  <2>2. QED
    BY <1>3, <1>10, <2>1
<1>11. CASE done = 7
  <2>1. Steps[done + 1].needs = {"config", "logger", "observability", "application", "security", "resilience"}
    BY <1>11, OrchestratorStepFacts DEF Step, ApiInitializer, Base
  <2>2. QED
    BY <1>3, <1>11, <2>1
<1>12. CASE done = 8
  <2>1. Steps[done + 1].needs = {"config", "logger", "observability", "application", "resilience"}
    BY <1>12, OrchestratorStepFacts DEF Step, WorkerInitializer, Base
  <2>2. QED
    BY <1>3, <1>12, <2>1
<1>13. CASE done = 9
  <2>1. Steps[done + 1].needs = {"config", "logger", "observability", "application", "redis", "queue"}
    BY <1>13, OrchestratorStepFacts DEF Step, DaemonInitializer, Base
  <2>2. QED
    BY <1>3, <1>13, <2>1
<1>14. CASE done = 10
  <2>1. Steps[done + 1].needs = {"config", "api", "logger"}
    BY <1>14, OrchestratorStepFacts DEF Step
  <2>2. QED
    BY <1>3, <1>14, <2>1
<1>15. QED
  BY <1>1, <1>4, <1>5, <1>6, <1>7, <1>8, <1>9, <1>10, <1>11, <1>12, <1>13, <1>14

\* Whatever a step of the container asks for, an earlier step has provided.
LEMMA ContainerOrder ==
    ASSUME entry = "container", done \in 0..Len(Steps), done < Len(Steps),
           \A i \in 1..done : Steps[i].gives \subseteq provided
    PROVE  Steps[done + 1].needs \subseteq provided
<1>1. done \in 0..13 /\ done \in Nat
  <2>1. Len(Steps) = 14
    BY ContainerStepFacts
  <2>2. QED
    BY <2>1
<1>2. /\ Steps[1].gives = {"db"}
      /\ Steps[2].gives = {"redis"}
      /\ Steps[3].gives = {"repositories"}
      /\ Steps[4].gives = {"queue"}
      /\ Steps[5].gives = {"observability"}
      /\ Steps[6].gives = {"security"}
      /\ Steps[7].gives = {"resilience"}
      /\ Steps[8].gives = {"services"}
      /\ Steps[11].gives = {"api"}
  BY ContainerStepFacts DEF Step, SetupDatabase, SetupRedis, SetupQueue, SetupObservability, SetupSecurity, SetupResilience, SetupApi
<1>3. /\ done >= 1 => "db" \in provided
      /\ done >= 2 => "redis" \in provided
      /\ done >= 3 => "repositories" \in provided
      /\ done >= 4 => "queue" \in provided
      /\ done >= 5 => "observability" \in provided
      /\ done >= 6 => "security" \in provided
      /\ done >= 7 => "resilience" \in provided
      /\ done >= 8 => "services" \in provided
      /\ done >= 11 => "api" \in provided
  <2>1. done >= 1 => "db" \in provided
    BY <1>1, <1>2
  <2>2. done >= 2 => "redis" \in provided
    BY <1>1, <1>2
  <2>3. done >= 3 => "repositories" \in provided
    BY <1>1, <1>2
  <2>4. done >= 4 => "queue" \in provided
    BY <1>1, <1>2
  <2>5. done >= 5 => "observability" \in provided
    BY <1>1, <1>2
  <2>6. done >= 6 => "security" \in provided
    BY <1>1, <1>2
  <2>7. done >= 7 => "resilience" \in provided
    BY <1>1, <1>2
  <2>8. done >= 8 => "services" \in provided
    BY <1>1, <1>2
  <2>9. done >= 11 => "api" \in provided
    BY <1>1, <1>2
  <2>10. QED
    BY <2>1, <2>2, <2>3, <2>4, <2>5, <2>6, <2>7, <2>8, <2>9
<1>4. CASE done = 0
  <2>1. Steps[done + 1].needs = {}
    BY <1>4, ContainerStepFacts DEF Step, SetupDatabase
  <2>2. QED
    BY <1>3, <1>4, <2>1
<1>5. CASE done = 1
  <2>1. Steps[done + 1].needs = {}
    BY <1>5, ContainerStepFacts DEF Step, SetupRedis
  <2>2. QED
    BY <1>3, <1>5, <2>1
<1>6. CASE done = 2
  <2>1. Steps[done + 1].needs = {"db"}
    BY <1>6, ContainerStepFacts DEF Step
  <2>2. QED
    BY <1>3, <1>6, <2>1
<1>7. CASE done = 3
  <2>1. Steps[done + 1].needs = {"redis"}
    BY <1>7, ContainerStepFacts DEF Step, SetupQueue
  <2>2. QED
    BY <1>3, <1>7, <2>1
<1>8. CASE done = 4
  <2>1. Steps[done + 1].needs = {}
    BY <1>8, ContainerStepFacts DEF Step, SetupObservability
  <2>2. QED
    BY <1>3, <1>8, <2>1
<1>9. CASE done = 5
  <2>1. Steps[done + 1].needs = {"redis"}
    BY <1>9, ContainerStepFacts DEF Step, SetupSecurity
  <2>2. QED
    BY <1>3, <1>9, <2>1
<1>10. CASE done = 6
  <2>1. Steps[done + 1].needs = {"redis", "queue", "observability"}
    BY <1>10, ContainerStepFacts DEF Step, SetupResilience
  <2>2. QED
    BY <1>3, <1>10, <2>1
<1>11. CASE done = 7
  <2>1. Steps[done + 1].needs = {"repositories", "queue", "redis", "observability"}
    BY <1>11, ContainerStepFacts DEF Step
  <2>2. QED
    BY <1>3, <1>11, <2>1
<1>12. CASE done = 8
  <2>1. Steps[done + 1].needs = {"queue", "repositories", "services", "resilience", "observability", "security"}
    BY <1>12, ContainerStepFacts DEF Step, SetupWorker
  <2>2. QED
    BY <1>3, <1>12, <2>1
<1>13. CASE done = 9
  <2>1. Steps[done + 1].needs = {"db", "redis", "queue", "repositories", "observability"}
    BY <1>13, ContainerStepFacts DEF Step, SetupDaemon
  <2>2. QED
    BY <1>3, <1>13, <2>1
<1>14. CASE done = 10
  <2>1. Steps[done + 1].needs = {"db", "redis", "queue", "observability", "security", "repositories", "services"}
    BY <1>14, ContainerStepFacts DEF Step, SetupApi
  <2>2. QED
    BY <1>3, <1>14, <2>1
<1>15. CASE done = 11
  <2>1. Steps[done + 1].needs = {"db", "redis"}
    BY <1>15, ContainerStepFacts DEF Step, StartupValidator
  <2>2. QED
    BY <1>3, <1>15, <2>1
<1>16. CASE done = 12
  <2>1. Steps[done + 1].needs = {"db", "redis", "queue", "observability"}
    BY <1>16, ContainerStepFacts DEF Step, WaitForHealthy
  <2>2. QED
    BY <1>3, <1>16, <2>1
<1>17. CASE done = 13
  <2>1. Steps[done + 1].needs = {"api"}
    BY <1>17, ContainerStepFacts DEF Step
  <2>2. QED
    BY <1>3, <1>17, <2>1
<1>18. QED
  BY <1>1, <1>4, <1>5, <1>6, <1>7, <1>8, <1>9, <1>10, <1>11, <1>12, <1>13, <1>14, <1>15, <1>16, <1>17

LEMMA NeedsAreThere ==
    ASSUME LifeTyped, BootInv, done < Len(Steps)
    PROVE  Steps[done + 1].needs \subseteq provided
<1>1. /\ done \in 0..Len(Steps) /\ entry \in {"orchestrator", "container"}
      /\ \A i \in 1..done : Steps[i].gives \subseteq provided
  BY DEF LifeTyped, BootInv
<1>2. QED
  BY <1>1, OrchestratorOrder, ContainerOrder

LEMMA StepsStay ==
    ASSUME entry' = entry
    PROVE  Steps' = Steps /\ Len(Steps)' = Len(Steps)
  BY DEF Steps, OrchestratorSteps, ContainerSteps

\* The first two steps leave nothing running.
LEMMA EarlyStepsAreQuiet ==
    ASSUME LifeTyped, done < 2
    PROVE  Started(Steps[done + 1]) = {}
<1>1. CASE entry = "orchestrator"
  <2>1. /\ Steps[1].name = "config" /\ Steps[2].name = "observability"
    BY <1>1, OrchestratorStepFacts DEF ConfigInitializer, ObservabilityInitializer, Step
  <2>2. CASE done = 0
    BY <2>1, <2>2 DEF Started
  <2>3. CASE done = 1
    BY <2>1, <2>3 DEF Started
  <2>4. QED
    BY <2>2, <2>3 DEF LifeTyped
<1>2. CASE entry = "container"
  <2>1. /\ Steps[1].name = "database" /\ Steps[2].name = "redis"
    BY <1>2, ContainerStepFacts DEF SetupDatabase, SetupRedis, Step
  <2>2. CASE done = 0
    BY <2>1, <2>2 DEF Started
  <2>3. CASE done = 1
    BY <2>1, <2>3 DEF Started
  <2>4. QED
    BY <2>2, <2>3 DEF LifeTyped
<1>3. QED
  BY <1>1, <1>2 DEF LifeTyped

LEMMA OnlyKindsStart ==
    ASSUME NEW step
    PROVE  Started(step) \subseteq {"http", "worker", "daemon"}
<1>1. CASE step.name \in {"worker", "daemon"}
  <2>1. step.name # "listen"
    BY <1>1
  <2>2. Started(step) = {step.name}
    BY <1>1, <2>1, Zenon DEF Started
  <2>3. QED
    BY <1>1, <2>2
<1>2. CASE step.name = "listen"
  <2>1. step.name \notin {"worker", "daemon"}
    BY <1>2
  <2>2. Started(step) = {"http"}
    BY <1>2, <2>1, Zenon DEF Started
  <2>3. QED
    BY <2>2
<1>3. CASE step.name \notin {"worker", "daemon"} /\ step.name # "listen"
  <2>1. Started(step) = {}
    BY <1>3, Zenon DEF Started
  <2>2. QED
    BY <2>1
<1>4. QED
  BY <1>1, <1>2, <1>3

\* main listens for signals when everything has been set up.
LEMMA ContainerListensLast ==
    ASSUME LifeTyped, entry = "container", done + 1 < Len(Steps)
    PROVE  RegisteredBy(Steps[done + 1]) = {}
<1>1. Len(Steps) = 14
  BY ContainerStepFacts
<1>2. done \in 0..12
  BY <1>1 DEF LifeTyped
<1>3. /\ Steps[1].name = "database" /\ Steps[2].name = "redis" /\ Steps[3].name = "repositories"
      /\ Steps[4].name = "queue" /\ Steps[5].name = "observability"
      /\ Steps[6].name = "security" /\ Steps[7].name = "resilience"
      /\ Steps[8].name = "services" /\ Steps[9].name = "worker" /\ Steps[10].name = "daemon"
      /\ Steps[11].name = "api" /\ Steps[12].name = "validate" /\ Steps[13].name = "healthy"
  BY ContainerStepFacts DEF Step, SetupDatabase, SetupRedis, SetupQueue, SetupObservability,
     SetupSecurity, SetupResilience, SetupWorker, SetupDaemon, SetupApi, StartupValidator,
     WaitForHealthy
<1>4. Steps[done + 1].name # "listen"
  BY <1>2, <1>3
<1>5. QED
  BY <1>4 DEF RegisteredBy

\* The stores are opened by the first three steps.
LEMMA StoresAreOpen ==
    ASSUME LifeTyped, done >= 3, \A i \in 1..done : Steps[i].gives \cap Stores \subseteq stores
    PROVE  Stores \subseteq stores
<1>1. 1 \in 1..done /\ 2 \in 1..done /\ 3 \in 1..done
  BY DEF LifeTyped
<1>2. CASE entry = "orchestrator"
  <2>1. {"db", "redis"} \subseteq Steps[3].gives
    BY <1>2, OrchestratorStepFacts DEF InfrastructureInitializer, Step
  <2>2. QED
    BY <1>1, <2>1 DEF Stores
<1>3. CASE entry = "container"
  <2>1. "db" \in Steps[1].gives /\ "redis" \in Steps[2].gives
    BY <1>3, ContainerStepFacts DEF SetupDatabase, SetupRedis, Step
  <2>2. QED
    BY <1>1, <2>1 DEF Stores
<1>4. QED
  BY <1>2, <1>3 DEF LifeTyped

LEMMA BootKeeps ==
    ASSUME LifeInv, RunStep
    PROVE  LifeInv'
<1>1. LifeTyped /\ BootInv /\ ContainerInv /\ StoresInv
  BY DEF LifeInv
<1>2. PICK step : step = Steps[done + 1]
  OBVIOUS
<1>3. /\ phase = "booting" /\ done' = done + 1
      /\ provided' = provided \cup step.gives /\ stores' = stores \cup (step.gives \cap Stores)
      /\ live' = live \cup Started(step) /\ once' = once \cup RegisteredBy(step)
      /\ phase' = IF done + 1 = Len(Steps) THEN "up" ELSE "booting"
      /\ UNCHANGED <<entry, lacking, requests, cycling, blind, flows, signals, code>>
  BY <1>2 DEF RunStep
<1>4. Steps' = Steps /\ Len(Steps)' = Len(Steps)
  BY <1>3, StepsStay
<1>5. /\ Len(Steps) \in Nat /\ done \in Nat /\ done < Len(Steps)
      /\ done + 1 \in 0..Len(Steps) /\ (done + 1 # Len(Steps) => done + 1 < Len(Steps))
  <2>1. Len(Steps) \in {11, 14}
    BY <1>1, OrchestratorStepFacts, ContainerStepFacts DEF LifeTyped
  <2>2. QED
    BY <1>1, <1>3, <2>1 DEF LifeTyped
<1>6. LifeTyped'
  <2>1. live' \subseteq {"http", "worker", "daemon"}
    BY <1>1, <1>3, OnlyKindsStart DEF LifeTyped
  <2>2. once' \subseteq Signals
    BY <1>1, <1>3 DEF LifeTyped, RegisteredBy, Signals
  <2>3. QED
    BY <1>1, <1>3, <1>4, <1>5, <2>1, <2>2 DEF LifeTyped
<1>7. ASSUME NEW i \in 1..done' PROVE i \in 1..done \/ Steps[i] = step
  <2>1. i \in 1..done \/ i = done + 1
    BY <1>3, <1>5
  <2>2. QED
    BY <1>2, <2>1
<1>8. BootInv'
  <2>1. \A i \in 1..done' : Steps'[i].gives \subseteq provided'
    BY <1>1, <1>3, <1>4, <1>7 DEF BootInv
  <2>2. ASSUME "http" \in live' \/ "daemon" \in live' \/ requests' > 0 PROVE done' >= 3
    <3>1. CASE done < 2
      <4>1. live' = live
        BY <1>1, <1>2, <1>3, <3>1, EarlyStepsAreQuiet
      <4>2. done >= 3
        BY <1>1, <1>3, <2>2, <4>1 DEF BootInv
      <4>3. QED
        BY <1>5, <3>1, <4>2
    <3>2. QED
      BY <1>3, <1>5, <3>1
  <2>3. QED
    BY <2>1, <2>2 DEF BootInv
<1>9. FlowAt("server")' = FlowAt("server") /\ \A s \in Signals : FlowAt(s)' = FlowAt(s)
  BY <1>3 DEF FlowAt
<1>10. ContainerInv'
  <2> SUFFICES ASSUME entry = "container"
               PROVE  /\ phase' = "booting" => once' = {} /\ \A s \in Signals : FlowAt(s)' = "none"
                      /\ FlowAt("server")' = "none" /\ (\A s \in Signals : FlowInv(s)') /\ OneFlow'
    BY <1>3 DEF ContainerInv
  <2>1. once = {} /\ FlowAt("server") = "none" /\ \A s \in Signals : FlowAt(s) = "none"
    BY <1>1, <1>3 DEF ContainerInv
  <2>2. ASSUME phase' = "booting" PROVE once' = {}
    <3>1. done + 1 < Len(Steps)
      BY <1>3, <1>5, <2>2
    <3>2. QED
      BY <1>1, <1>2, <1>3, <2>1, <3>1, ContainerListensLast
  <2>3. \A s \in Signals : FlowInv(s)'
    BY <1>9, <2>1 DEF FlowInv, FromDraining, FromWorker, FromDaemon, FromTracer, FromRedis, FromDb,
                      FromExit
  <2>4. OneFlow'
    BY <1>9, <2>1 DEF OneFlow, FromDraining, FromWorker, FromDaemon, FromTracer, FromRedis, FromDb,
                      FromExit
  <2>5. QED
    BY <1>9, <2>1, <2>2, <2>3, <2>4
<1>11. StoresInv'
  <2> SUFFICES ASSUME entry' = "orchestrator" \/ \A s \in Signals : FlowAt(s)' \notin FromRedis,
                      NEW i \in 1..done'
               PROVE  Steps'[i].gives \cap Stores \subseteq stores'
    BY DEF StoresInv, FromRedis, FromDb, FromExit, Stores
  <2>1. entry = "orchestrator" \/ \A s \in Signals : FlowAt(s) \notin FromRedis
    BY <1>3, <1>9
  <2>2. i \in 1..done => Steps[i].gives \cap Stores \subseteq stores
    BY <1>1, <2>1 DEF StoresInv
  <2>3. QED
    BY <1>3, <1>4, <1>7, <2>2
<1>12. StepsFindTheirNeeds' /\ NothingRunsBlind' /\ CleanExitsAreClean'
  BY <1>3 DEF LifeInv, StepsFindTheirNeeds, NothingRunsBlind, CleanExitsAreClean
<1>13. QED
  BY <1>6, <1>8, <1>10, <1>11, <1>12 DEF LifeInv

\* What every step after the start leaves alone.
Rest == UNCHANGED <<entry, done, provided, once>>

LEMMA LateSteps ==
    ASSUME LifeInv, Rest, lacking' = lacking, phase' \in {phase, "exited", "failed"},
           live' \subseteq live, stores' \subseteq Stores, requests' \in Nat,
           requests' > 0 => requests > 0 \/ "http" \in live
    PROVE  LifeTyped' /\ BootInv' /\ StepsFindTheirNeeds'
<1>1. LifeTyped /\ BootInv /\ StepsFindTheirNeeds
  BY DEF LifeInv
<1>2. Steps' = Steps /\ Len(Steps)' = Len(Steps)
  BY StepsStay DEF Rest
<1>3. LifeTyped'
  BY <1>1, <1>2 DEF LifeTyped, Rest, Stores, Signals
<1>4. BootInv'
  BY <1>1, <1>2 DEF BootInv, Rest, LifeTyped
<1>5. QED
  BY <1>1, <1>3, <1>4 DEF StepsFindTheirNeeds

LEMMA FailKeeps ==
    ASSUME LifeInv, StepFails
    PROVE  LifeInv'
<1>1. LifeTyped /\ BootInv /\ ContainerInv /\ StoresInv
  BY DEF LifeInv
<1>2. /\ phase = "booting" /\ phase' \in {"failed", "exited"}
      /\ phase' = "exited" => entry = "orchestrator"
      /\ UNCHANGED <<entry, done, provided, live, stores, requests, cycling, blind, once, flows,
                     signals>>
  BY DEF StepFails, Exits
<1>3. lacking' = lacking
  <2>1. Steps[done + 1].needs \subseteq provided
    BY <1>1, <1>2, NeedsAreThere DEF LifeTyped
  <2>2. QED
    BY <2>1 DEF StepFails
<1>4. LifeTyped' /\ BootInv' /\ StepsFindTheirNeeds'
  BY <1>1, <1>2, <1>3, LateSteps DEF Rest, LifeTyped
<1>5. Steps' = Steps
  BY <1>2, StepsStay
<1>6. \A f : FlowAt(f)' = FlowAt(f)
  BY <1>2 DEF FlowAt
<1>7. ContainerInv'
  BY <1>1, <1>2, <1>6 DEF ContainerInv, FlowInv, OneFlow, FromDraining, FromWorker, FromDaemon,
                          FromTracer, FromRedis, FromDb, FromExit
<1>8. StoresInv'
  BY <1>1, <1>2, <1>5, <1>6 DEF StoresInv, FromRedis, FromDb, FromExit, Stores
<1>9. NothingRunsBlind' /\ CleanExitsAreClean'
  BY <1>2 DEF LifeInv, NothingRunsBlind, CleanExitsAreClean
<1>10. QED
  BY <1>4, <1>7, <1>8, <1>9 DEF LifeInv

\* A step that leaves the flows and the stores alone.
LEMMA ServingKeeps ==
    ASSUME LifeInv, Request \/ Respond \/ CycleBegins \/ CycleEnds
    PROVE  LifeInv'
<1>1. LifeTyped /\ BootInv /\ ContainerInv /\ StoresInv /\ NothingRunsBlind
  BY DEF LifeInv
<1>2. /\ phase # "exited"
      /\ UNCHANGED <<entry, done, phase, provided, lacking, live, stores, once, flows, signals, code>>
  BY DEF Request, Respond, CycleBegins, CycleEnds, Serves
<1>3. /\ requests' \in Nat /\ (requests' > 0 => requests > 0 \/ "http" \in live)
      /\ requests' > requests => "http" \in live
  BY <1>1 DEF Request, Respond, CycleBegins, CycleEnds, Serves, LifeTyped
<1>4. LifeTyped' /\ BootInv' /\ StepsFindTheirNeeds'
  BY <1>1, <1>2, <1>3, LateSteps DEF Rest, LifeTyped
<1>5. Steps' = Steps
  BY <1>2, StepsStay
<1>6. \A f : FlowAt(f)' = FlowAt(f)
  BY <1>2 DEF FlowAt
<1>7. ContainerInv'
  <2> SUFFICES ASSUME entry = "container"
               PROVE  /\ phase' = "booting" => once' = {} /\ \A s \in Signals : FlowAt(s)' = "none"
                      /\ FlowAt("server")' = "none" /\ (\A s \in Signals : FlowInv(s)') /\ OneFlow'
    BY <1>2 DEF ContainerInv
  <2>1. ASSUME NEW s \in Signals PROVE FlowInv(s)'
    <3>1. FlowInv(s)
      BY <1>1 DEF ContainerInv
    <3>2. FlowAt(s) \in FromWorker => requests' = 0
      <4>1. FlowAt(s) \in FromWorker => requests = 0 /\ "http" \notin live
        BY <3>1 DEF FlowInv, FromDraining
      <4>2. QED
        BY <1>1, <1>3, <4>1 DEF LifeTyped
    <3>3. QED
      BY <1>2, <1>6, <3>1, <3>2 DEF FlowInv, FromDraining, FromWorker, FromDaemon, FromTracer,
                                    FromRedis, FromDb, FromExit
  <2>2. OneFlow'
    BY <1>1, <1>2, <1>6 DEF ContainerInv, OneFlow, FromDraining, FromWorker, FromDaemon, FromTracer,
                      FromRedis, FromDb, FromExit
  <2>3. QED
    BY <1>1, <1>2, <1>6, <2>1, <2>2 DEF ContainerInv
<1>8. StoresInv'
  BY <1>1, <1>2, <1>5, <1>6 DEF StoresInv, FromRedis, FromDb, FromExit, Stores
<1>9. ASSUME requests > 0 \/ "daemon" \in live PROVE Stores \subseteq stores
  <2>1. done >= 3
    BY <1>1, <1>9 DEF BootInv
  <2>2. entry = "orchestrator" \/ \A s \in Signals : FlowAt(s) \notin FromRedis
    <3>1. ASSUME entry = "container", NEW s \in Signals PROVE FlowAt(s) \notin FromRedis
      <4>1. FlowInv(s)
        BY <1>1, <3>1 DEF ContainerInv
      <4>2. FlowAt(s) \in FromRedis => requests = 0 /\ "daemon" \notin live
        BY <4>1 DEF FlowInv, FromWorker, FromDaemon, FromTracer
      <4>3. QED
        BY <1>1, <1>9, <4>2 DEF LifeTyped
    <3>2. QED
      BY <1>1, <3>1 DEF LifeTyped
  <2>3. \A i \in 1..done : Steps[i].gives \cap Stores \subseteq stores
    BY <1>1, <2>2 DEF StoresInv
  <2>4. QED
    BY <1>1, <2>1, <2>3, StoresAreOpen
<1>10. NothingRunsBlind'
  BY <1>1, <1>9 DEF Request, Respond, CycleBegins, CycleEnds, NothingRunsBlind
<1>11. CleanExitsAreClean'
  BY <1>2 DEF CleanExitsAreClean
<1>12. QED
  BY <1>4, <1>7, <1>8, <1>10, <1>11 DEF LifeInv

LEMMA SignalKeeps ==
    ASSUME LifeInv, NEW s \in Signals, Signal(s)
    PROVE  LifeInv'
<1>1. LifeTyped /\ BootInv /\ ContainerInv /\ StoresInv
  BY DEF LifeInv
<1>2. /\ phase # "exited" /\ once' = once \ {s}
      /\ UNCHANGED <<entry, done, provided, lacking, live, stores, requests, cycling, blind>>
      /\ phase' \in {phase, "exited"} /\ (phase' = "exited" => code' = "killed")
  BY DEF Signal, Exits
<1>3. Steps' = Steps /\ Len(Steps)' = Len(Steps)
  BY <1>2, StepsStay
<1>4. LifeTyped'
  BY <1>1, <1>2, <1>3 DEF LifeTyped, Stores, Signals
<1>5. BootInv'
  BY <1>1, <1>2, <1>3 DEF BootInv
<1>6. StepsFindTheirNeeds' /\ NothingRunsBlind' /\ CleanExitsAreClean'
  BY <1>2 DEF LifeInv, StepsFindTheirNeeds, NothingRunsBlind, CleanExitsAreClean
<1>7. CASE entry = "orchestrator"
  <2>1. ContainerInv'
    BY <1>2, <1>7 DEF ContainerInv
  <2>2. StoresInv'
    BY <1>1, <1>2, <1>3, <1>7 DEF StoresInv, Stores
  <2>3. QED
    BY <1>4, <1>5, <1>6, <2>1, <2>2 DEF LifeInv
<1>8. CASE entry = "container"
  <2>1. \/ s \in once /\ flows' = With(flows, s, "start")
        \/ flows' = flows
    BY <1>8 DEF Signal, Listening, HandleSignal
  <2>2. ASSUME NEW g
        PROVE  FlowAt(g)' = FlowAt(g) \/ (g = s /\ s \in once /\ FlowAt(g)' = "start")
    <3>1. CASE s \in once /\ flows' = With(flows, s, "start")
      <4>1. FlowAt(g)' = IF g = s THEN "start" ELSE FlowAt(g)
        BY <3>1, WithFacts
      <4>2. QED
        BY <3>1, <4>1
    <3>2. CASE flows' = flows
      BY <3>2 DEF FlowAt
    <3>3. QED
      BY <2>1, <3>1, <3>2
  <2>3. FlowAt("server")' = "none" /\ "server" \notin Signals
    BY <1>1, <1>8, <2>2 DEF ContainerInv, Signals
  <2>4. ASSUME NEW t \in Signals PROVE FlowInv(t)'
    <3>1. FlowInv(t)
      BY <1>1, <1>8 DEF ContainerInv
    <3>2. CASE FlowAt(t)' = FlowAt(t)
      BY <1>2, <3>1, <3>2 DEF FlowInv, FromDraining, FromWorker, FromDaemon, FromTracer, FromRedis,
                              FromDb, FromExit
    <3>3. CASE t = s /\ FlowAt(t)' = "start"
      BY <1>2, <3>3 DEF FlowInv, FromDraining, FromWorker, FromDaemon, FromTracer, FromRedis,
                        FromDb, FromExit
    <3>4. QED
      BY <2>2, <3>2, <3>3
  <2>5. \A t \in Signals : FlowAt(t)' \in FromDraining => FlowAt(t)' = FlowAt(t)
    BY <2>2 DEF FromDraining, FromWorker, FromDaemon, FromTracer, FromRedis, FromDb, FromExit
  <2>6. OneFlow'
    BY <1>1, <1>2, <1>8, <2>5 DEF ContainerInv, OneFlow, FromDraining, FromWorker, FromDaemon, FromTracer,
                            FromRedis, FromDb, FromExit
  <2>7. phase' = "booting" => once' = {} /\ \A t \in Signals : FlowAt(t)' = "none"
    BY <1>1, <1>2, <1>8, <2>2 DEF ContainerInv
  <2>8. ContainerInv'
    BY <2>3, <2>4, <2>6, <2>7 DEF ContainerInv
  <2>9. \A t \in Signals : FlowAt(t)' \notin FromRedis => FlowAt(t) \notin FromRedis
    <3>1. \A t \in Signals : t \in once => FlowAt(t) = "none"
      BY <1>1, <1>8 DEF ContainerInv, FlowInv
    <3>2. "none" \notin FromRedis
      BY DEF FromRedis, FromDb, FromExit
    <3>3. QED
      BY <2>2, <3>1, <3>2
  <2>10. StoresInv'
    BY <1>1, <1>2, <1>3, <1>8, <2>9 DEF StoresInv, Stores, FromRedis, FromDb, FromExit
  <2>11. QED
    BY <1>4, <1>5, <1>6, <2>8, <2>10 DEF LifeInv
<1>9. QED
  BY <1>1, <1>7, <1>8 DEF LifeTyped

\* A shutdown flow of the container goes on: the other flows see less of what
\* runs, and no other has gone beyond its start.
LEMMA FlowGoesOn ==
    ASSUME LifeInv, entry = "container", NEW s \in Signals, NEW from, NEW to,
           Moves(s, from, to), ShutdownRest, from # "none",
           live' \subseteq live, stores' \subseteq stores, phase' \in {phase, "exited"},
           to \in FromDraining, phase' # "exited" => from \in FromDraining \/ "http" \in live,
           to \notin FromRedis => from \notin FromRedis /\ stores' = stores,
           FlowInv(s)'
    PROVE  LifeTyped' /\ BootInv' /\ ContainerInv' /\ StoresInv' /\ StepsFindTheirNeeds'
           /\ NothingRunsBlind'
<1>1. LifeTyped /\ BootInv /\ ContainerInv /\ StoresInv
  BY DEF LifeInv
<1>2. /\ UNCHANGED <<entry, done, provided, lacking, requests, cycling, blind, once, signals>>
      /\ FlowAt(s) = from /\ flows' = With(flows, s, to)
  BY DEF ShutdownRest, Moves
<1>3. LifeTyped' /\ BootInv' /\ StepsFindTheirNeeds'
  <2>1. stores' \subseteq Stores /\ requests' \in Nat /\ phase' \in {phase, "exited", "failed"}
    BY <1>1, <1>2 DEF LifeTyped
  <2>2. QED
    BY <1>2, <2>1, LateSteps DEF Rest
<1>4. \A g : FlowAt(g)' = IF g = s THEN to ELSE FlowAt(g)
  BY <1>2, WithFacts
<1>5. FlowAt("server")' = "none"
  BY <1>1, <1>4 DEF ContainerInv, Signals
<1>6. ASSUME NEW t \in Signals PROVE FlowInv(t)'
  <2>1. CASE t = s
    BY <2>1
  <2>2. CASE t # s
    <3>1. FlowInv(t) /\ FlowAt(t)' = FlowAt(t)
      BY <1>1, <1>4, <2>2 DEF ContainerInv
    <3>2. QED
      BY <1>2, <3>1 DEF FlowInv, FromDraining, FromWorker, FromDaemon, FromTracer, FromRedis, FromDb,
                        FromExit
  <2>3. QED
    BY <2>1, <2>2
<1>7. ASSUME NEW t \in Signals, t # s, phase' # "exited" PROVE FlowAt(t) \notin FromDraining
  <2>1. FlowInv(t) /\ OneFlow
    BY <1>1 DEF ContainerInv
  <2>2. phase # "exited"
    BY DEF Moves
  <2>3. QED
    BY <1>2, <1>7, <2>1, <2>2 DEF FlowInv, OneFlow
<1>8. OneFlow'
  <2> SUFFICES ASSUME phase' # "exited", NEW t \in Signals, NEW u \in Signals,
                      FlowAt(t)' \in FromDraining, FlowAt(u)' \in FromDraining
               PROVE  t = u
    BY DEF OneFlow, FromDraining, FromWorker, FromDaemon, FromTracer, FromRedis, FromDb, FromExit
  <2>1. QED
    BY <1>4, <1>7
<1>9. phase' # "booting"
  BY <1>1, <1>2 DEF ContainerInv
<1>10. ContainerInv'
  BY <1>5, <1>6, <1>8, <1>9 DEF ContainerInv
<1>11. StoresInv'
  <2>1. Steps' = Steps
    BY <1>2, StepsStay
  <2>2. CASE to \in FromRedis
    <3>1. FlowAt(s)' \in FromRedis
      BY <1>4, <2>2
    <3>2. QED
      BY <1>2, <3>1 DEF StoresInv, FromRedis, FromDb, FromExit
  <2>3. CASE to \notin FromRedis
    <3>1. \A t \in Signals : FlowAt(t)' \notin FromRedis => FlowAt(t) \notin FromRedis
      BY <1>2, <1>4, <2>3
    <3>2. QED
      BY <1>1, <1>2, <2>1, <2>3, <3>1 DEF StoresInv, Stores, FromRedis, FromDb, FromExit
  <2>4. QED
    BY <2>2, <2>3
<1>12. NothingRunsBlind'
  BY <1>2 DEF LifeInv, NothingRunsBlind
<1>13. QED
  BY <1>3, <1>10, <1>11, <1>12

LEMMA ListenerCloses ==
    ASSUME LifeInv, NEW s \in Signals, CloseListener(s)
    PROVE  LifeInv'
<1>1. /\ entry = "container" /\ Moves(s, "start", "draining") /\ ShutdownRest
      /\ phase # "exited" /\ FlowAt(s) = "start" /\ stores' = stores
      /\ live' \subseteq live /\ phase' \in {phase, "exited"}
      /\ phase' = "exited" => code' = "error" /\ live' = live /\ "http" \notin live
      /\ phase' # "exited" => "http" \in live /\ "http" \notin live'
      /\ flows' = With(flows, s, "draining")
  BY DEF CloseListener, Exits, Moves
<1>2. FlowInv(s)'
  <2>1. FlowAt(s)' = "draining"
    BY <1>1, WithFacts
  <2>2. FlowInv(s) /\ once' = once
    BY <1>1 DEF LifeInv, ContainerInv, ShutdownRest
  <2>3. "http" \notin live' /\ s \notin once
    BY <1>1, <2>2 DEF FlowInv
  <2>4. QED
    BY <2>1, <2>2, <2>3 DEF FlowInv, FromDraining, FromWorker, FromDaemon, FromTracer, FromRedis,
                            FromDb, FromExit
<1>3. LifeTyped' /\ BootInv' /\ ContainerInv' /\ StoresInv' /\ StepsFindTheirNeeds'
      /\ NothingRunsBlind'
  <2>1. "draining" \in FromDraining /\ "start" \notin FromRedis
    BY DEF FromDraining, FromRedis, FromDb, FromExit
  <2>2. QED
    BY <1>1, <1>2, <2>1, FlowGoesOn
<1>4. CleanExitsAreClean'
  BY <1>1 DEF CleanExitsAreClean
<1>5. QED
  BY <1>3, <1>4 DEF LifeInv

LEMMA RequestsDrain ==
    ASSUME LifeInv, NEW s \in Signals, Drained(s)
    PROVE  LifeInv'
<1>1. /\ entry = "container" /\ Moves(s, "draining", "worker") /\ ShutdownRest /\ requests = 0
      /\ phase # "exited" /\ FlowAt(s) = "draining" /\ flows' = With(flows, s, "worker")
      /\ UNCHANGED <<live, phase, code, stores, requests, once>>
  BY DEF Drained, Moves, ShutdownRest
<1>2. FlowInv(s)'
  <2>1. FlowAt(s)' = "worker"
    BY <1>1, WithFacts
  <2>2. FlowInv(s) /\ "draining" \in FromDraining
    BY <1>1 DEF LifeInv, ContainerInv, FromDraining
  <2>3. "http" \notin live' /\ s \notin once
    BY <1>1, <2>2 DEF FlowInv
  <2>4. QED
    BY <1>1, <2>1, <2>2, <2>3 DEF FlowInv, FromDraining, FromWorker, FromDaemon, FromTracer, FromRedis,
                            FromDb, FromExit
<1>3. LifeTyped' /\ BootInv' /\ ContainerInv' /\ StoresInv' /\ StepsFindTheirNeeds'
      /\ NothingRunsBlind'
  <2>1. "draining" \in FromDraining /\ "draining" \notin FromRedis /\ "worker" \in FromDraining
    BY DEF FromDraining, FromWorker, FromRedis, FromDb, FromExit
  <2>2. QED
    BY <1>1, <1>2, <2>1, FlowGoesOn
<1>4. CleanExitsAreClean'
  BY <1>1 DEF CleanExitsAreClean
<1>5. QED
  BY <1>3, <1>4 DEF LifeInv

\* container.shutdown: each stage leaves less.
LEMMA ContainerStops ==
    ASSUME LifeInv, NEW s \in Signals, Shutdown(s)
    PROVE  LifeInv'
<1>1. PICK from \in {"worker", "daemon", "tracer", "redis", "db"}, to \in FromDaemon :
        /\ Stops(s, from, to)
        /\ <<from, to>> \in {<<"worker", "daemon">>, <<"daemon", "tracer">>, <<"tracer", "redis">>,
                            <<"redis", "db">>, <<"db", "exit">>}
  BY DEF Shutdown, FromDaemon, FromTracer, FromRedis, FromDb, FromExit
<1>2. /\ entry = "container" /\ Moves(s, from, to) /\ ShutdownRest
      /\ phase # "exited" /\ FlowAt(s) = from /\ flows' = With(flows, s, to)
      /\ live' = live \ {from} /\ stores' = stores \ {from}
      /\ UNCHANGED <<phase, code, requests, once>>
  BY <1>1 DEF Shutdown, Stops, Moves, ShutdownRest
<1>3. FlowInv(s)'
  <2>1. FlowAt(s)' = to
    BY <1>2, WithFacts
  <2>2. FlowInv(s)
    BY <1>2 DEF LifeInv, ContainerInv
  <2>3. s \notin once' /\ requests' = 0 /\ "http" \notin live'
    BY <1>2, <2>2 DEF FlowInv, FromDraining, FromWorker, FromDaemon, FromTracer, FromRedis, FromDb,
                      FromExit
  <2>4. QED
    BY <1>1, <1>2, <2>1, <2>2, <2>3 DEF FlowInv, FromDraining, FromWorker, FromDaemon, FromTracer,
                                        FromRedis, FromDb, FromExit
<1>4. LifeTyped' /\ BootInv' /\ ContainerInv' /\ StoresInv' /\ StepsFindTheirNeeds'
      /\ NothingRunsBlind'
  <2>1. from \in FromDraining /\ to \in FromDraining /\ from # "none"
    BY <1>1 DEF FromDraining, FromWorker, FromDaemon, FromTracer, FromRedis, FromDb, FromExit
  <2>2. to \notin FromRedis => from \notin FromRedis /\ stores' = stores
    <3>1. "worker" \notin stores /\ "daemon" \notin stores
      BY DEF LifeInv, LifeTyped, Stores
    <3>2. QED
      BY <1>1, <1>2, <3>1 DEF FromRedis, FromDb, FromExit
  <2>3. live' \subseteq live /\ stores' \subseteq stores /\ phase' \in {phase, "exited"}
    BY <1>2
  <2>4. QED
    BY <1>2, <1>3, <2>1, <2>2, <2>3, FlowGoesOn
<1>5. CleanExitsAreClean'
  BY <1>2 DEF CleanExitsAreClean
<1>6. QED
  BY <1>4, <1>5 DEF LifeInv

\* The only clean exit of the container comes last.
LEMMA ContainerExits ==
    ASSUME LifeInv, NEW s \in Signals, Exit(s)
    PROVE  LifeInv'
<1>1. /\ entry = "container" /\ Moves(s, "exit", "done") /\ ShutdownRest
      /\ phase # "exited" /\ FlowAt(s) = "exit" /\ flows' = With(flows, s, "done")
      /\ phase' = "exited"
      /\ UNCHANGED <<live, stores, requests, once>>
  BY DEF Exit, Exits, Moves, ShutdownRest
<1>2. FlowInv(s)
  BY <1>1 DEF LifeInv, ContainerInv
<1>3. FlowInv(s)'
  <2>1. FlowAt(s)' = "done"
    BY <1>1, WithFacts
  <2>2. QED
    BY <1>1, <1>2, <2>1 DEF FlowInv, FromDraining, FromWorker, FromDaemon, FromTracer, FromRedis,
                            FromDb, FromExit
<1>4. LifeTyped' /\ BootInv' /\ ContainerInv' /\ StoresInv' /\ StepsFindTheirNeeds'
      /\ NothingRunsBlind'
  <2>1. "exit" \in FromDraining /\ "done" \in FromDraining /\ "done" \in FromRedis
    BY DEF FromDraining, FromWorker, FromDaemon, FromTracer, FromRedis, FromDb, FromExit
  <2>2. QED
    BY <1>1, <1>3, <2>1, FlowGoesOn
<1>5. requests = 0 /\ live = {} /\ stores = {}
  <2>1. /\ requests = 0 /\ "http" \notin live /\ "worker" \notin live /\ "daemon" \notin live
        /\ "redis" \notin stores /\ "db" \notin stores
    BY <1>1, <1>2 DEF FlowInv, FromDraining, FromWorker, FromDaemon, FromTracer, FromRedis, FromDb,
                      FromExit
  <2>2. live \subseteq {"http", "worker", "daemon"} /\ stores \subseteq {"db", "redis"}
    BY DEF LifeInv, LifeTyped, Stores
  <2>3. QED
    BY <2>1, <2>2
<1>6. CleanExitsAreClean'
  BY <1>1, <1>5 DEF CleanExitsAreClean
<1>7. QED
  BY <1>4, <1>6 DEF LifeInv

\* The orchestrator closes no store, and what forces an exit says so.
LEMMA OtherFlowsKeep ==
    ASSUME LifeInv,
           \/ CloseServer \/ \E s \in Signals : WorkerHandler(s)
           \/ \E f \in Signals \cup {"server"} : ForceExit(f)
    PROVE  LifeInv'
<1>1. LifeTyped /\ BootInv /\ ContainerInv /\ StoresInv
  BY DEF LifeInv
<1>2. /\ UNCHANGED <<entry, done, provided, lacking, requests, blind, once, stores>>
      /\ live' \subseteq live /\ phase # "exited" /\ phase' \in {phase, "exited"}
  BY DEF CloseServer, WorkerHandler, ForceExit, ShutdownRest, Exits, Moves
<1>3. /\ entry = "container" => flows' = flows /\ live' = live
      /\ entry = "container" /\ phase' = "exited" => code' = "error"
  <2>1. ASSUME entry = "container" PROVE ~CloseServer
    BY <1>1, <2>1 DEF ContainerInv, CloseServer, Moves
  <2>2. ASSUME entry = "container", NEW s \in Signals PROVE ~WorkerHandler(s)
    BY <2>2 DEF WorkerHandler
  <2>3. QED
    BY <2>1, <2>2 DEF ForceExit, Exits
<1>4. LifeTyped' /\ BootInv' /\ StepsFindTheirNeeds'
  <2>1. stores' \subseteq Stores /\ requests' \in Nat /\ phase' \in {phase, "exited", "failed"}
    BY <1>1, <1>2 DEF LifeTyped
  <2>2. QED
    BY <1>2, <2>1, LateSteps DEF Rest
<1>5. Steps' = Steps
  BY <1>2, StepsStay
<1>6. entry = "container" => \A f : FlowAt(f)' = FlowAt(f)
  BY <1>3 DEF FlowAt
<1>7. ContainerInv'
  <2>1. CASE entry = "container"
    BY <1>1, <1>2, <1>3, <1>6, <2>1 DEF ContainerInv, FlowInv, OneFlow, FromDraining, FromWorker,
       FromDaemon, FromTracer, FromRedis, FromDb, FromExit
  <2>2. CASE entry # "container"
    BY <1>2, <2>2 DEF ContainerInv
  <2>3. QED
    BY <2>1, <2>2
<1>8. StoresInv'
  <2>1. CASE entry = "container"
    BY <1>1, <1>2, <1>5, <1>6, <2>1 DEF StoresInv, FromRedis, FromDb, FromExit, Stores
  <2>2. CASE entry = "orchestrator"
    BY <1>1, <1>2, <1>5, <2>2 DEF StoresInv, Stores
  <2>3. QED
    BY <1>1, <2>1, <2>2 DEF LifeTyped
<1>9. NothingRunsBlind' /\ CleanExitsAreClean'
  BY <1>2, <1>3 DEF LifeInv, NothingRunsBlind, CleanExitsAreClean
<1>10. QED
  BY <1>4, <1>7, <1>8, <1>9 DEF LifeInv

(***************************************************************************)
(* From either entry point, whatever step fails and whatever signals       *)
(* arrive in whatever order: no step asks for what is not there, no        *)
(* request and no daemon cycle runs on a closed store, and the container   *)
(* exits with 0 only when all it started has been stopped (orchestrator,   *)
(* DependencyContainer, gracefulShutdown).                                 *)
(***************************************************************************)
THEOREM LivesStayOrderly ==
    LifeSpec => [](StepsFindTheirNeeds /\ NothingRunsBlind /\ CleanExitsAreClean)
<1>1. LifeInit => LifeInv
  <2> SUFFICES ASSUME LifeInit PROVE LifeInv
    OBVIOUS
  <2>1. Len(Steps) \in {11, 14}
    BY OrchestratorStepFacts, ContainerStepFacts DEF LifeInit
  <2>2. LifeTyped
    <3>1. 0 \in 0..Len(Steps) /\ 0 < Len(Steps)
      BY <2>1
    <3>2. QED
      BY <3>1 DEF LifeInit, LifeTyped, Signals, Stores
  <2>3. \A f : FlowAt(f) = "none"
    BY DEF LifeInit, FlowAt
  <2>4. ContainerInv
    BY <2>3 DEF LifeInit, ContainerInv, FlowInv, OneFlow, FromDraining, FromWorker, FromDaemon,
       FromTracer, FromRedis, FromDb, FromExit
  <2>5. BootInv /\ StoresInv
    BY DEF LifeInit, BootInv, StoresInv
  <2>6. StepsFindTheirNeeds /\ NothingRunsBlind /\ CleanExitsAreClean
    BY DEF LifeInit, StepsFindTheirNeeds, NothingRunsBlind, CleanExitsAreClean
  <2>7. QED
    BY <2>2, <2>4, <2>5, <2>6 DEF LifeInv
<1>2. LifeInv /\ [LifeNext]_lifeVars => LifeInv'
  <2> SUFFICES ASSUME LifeInv, [LifeNext]_lifeVars PROVE LifeInv'
    OBVIOUS
  <2>1. CASE RunStep
    BY <2>1, BootKeeps
  <2>2. CASE StepFails
    BY <2>2, FailKeeps
  <2>3. CASE Request \/ Respond \/ CycleBegins \/ CycleEnds
    BY <2>3, ServingKeeps
  <2>4. CASE \E s \in Signals : Signal(s)
    BY <2>4, SignalKeeps
  <2>5. CASE LifeSteps
    BY <2>5, OtherFlowsKeep, ListenerCloses, RequestsDrain, ContainerStops, ContainerExits
       DEF LifeSteps
  <2>6. CASE UNCHANGED lifeVars
    <3>1. UNCHANGED <<entry, done, phase, provided, lacking, live, stores, requests, blind, once,
                      flows, code>>
      BY <2>6 DEF lifeVars
    <3>2. Steps' = Steps /\ Len(Steps)' = Len(Steps) /\ \A f : FlowAt(f)' = FlowAt(f)
      BY <3>1, StepsStay DEF FlowAt
    <3>3. LifeTyped' /\ BootInv'
      BY <3>1, <3>2 DEF LifeInv, LifeTyped, BootInv, Signals, Stores
    <3>4. ContainerInv' /\ StoresInv'
      BY <3>1, <3>2 DEF LifeInv, ContainerInv, StoresInv, FlowInv, OneFlow, FromDraining, FromWorker,
         FromDaemon, FromTracer, FromRedis, FromDb, FromExit, Stores
    <3>5. QED
      BY <3>1, <3>3, <3>4 DEF LifeInv, StepsFindTheirNeeds, NothingRunsBlind, CleanExitsAreClean
  <2>7. QED
    BY <2>1, <2>2, <2>3, <2>4, <2>5, <2>6 DEF LifeNext
<1>3. LifeInv => StepsFindTheirNeeds /\ NothingRunsBlind /\ CleanExitsAreClean
  BY DEF LifeInv
<1>4. QED
  BY <1>1, <1>2, <1>3, PTL DEF LifeSpec

-----------------------------------------------------------------------------
(* Telemetry: the objectives *)

SloSpec == SloInit /\ [][SloNext]_sloVars

Successes == {n \in DOMAIN answered : answered[n]}

\* The counters count the answers.
SloInv ==
    /\ availabilityTarget \in SloTargets /\ answered \in Seq(BOOLEAN)
    /\ IsFiniteSet(Successes) /\ Cardinality(Successes) \in 0..Len(answered)
    /\ tracked = [total |-> Len(answered), ok |-> Cardinality(Successes),
                  failed |-> Len(answered) - Cardinality(Successes)]

LEMMA SloKeepsInv ==
    ASSUME SloInv, [SloNext]_sloVars
    PROVE  SloInv'
<1>0. availabilityTarget' = availabilityTarget
  BY DEF SloNext, sloVars, TrackAvailability, TrackLatency
<1>1. CASE UNCHANGED <<tracked, answered>>
  BY <1>0, <1>1 DEF SloInv, Successes
<1>2. ASSUME NEW success \in BOOLEAN, TrackAvailability(success)
      PROVE  SloInv'
  <2>1. answered' = Append(answered, success) /\ tracked' = Track(success)
    BY <1>2 DEF TrackAvailability
  <2>2. /\ answered' \in Seq(BOOLEAN) /\ Len(answered') = Len(answered) + 1 /\ Len(answered) \in Nat
        /\ \A n \in DOMAIN answered : n \in 1..Len(answered) /\ answered'[n] = answered[n]
        /\ answered'[Len(answered) + 1] = success
        /\ DOMAIN answered' = DOMAIN answered \cup {Len(answered) + 1}
    BY <2>1 DEF SloInv
  <2>3. Successes' = IF success THEN Successes \cup {Len(answered) + 1} ELSE Successes
    BY <2>2 DEF Successes
  <2>4. Len(answered) + 1 \notin Successes
    BY <2>2 DEF Successes
  <2>5. /\ IsFiniteSet(Successes')
        /\ Cardinality(Successes') = IF success THEN Cardinality(Successes) + 1 ELSE Cardinality(Successes)
    BY <2>3, <2>4, FS_AddElement DEF SloInv
  <2>6. tracked' = [total |-> Len(answered) + 1,
                    ok |-> IF success THEN Cardinality(Successes) + 1 ELSE Cardinality(Successes),
                    failed |-> IF success THEN Len(answered) - Cardinality(Successes)
                               ELSE Len(answered) - Cardinality(Successes) + 1]
    BY <2>1 DEF Track, SloInv
  <2>7. QED
    BY <1>0, <2>2, <2>5, <2>6 DEF SloInv
<1>3. QED
  BY <1>1, <1>2 DEF SloNext, sloVars, TrackLatency

LEMMA CountersAgree == SloInv => StatusAgrees
<1> SUFFICES ASSUME SloInv, answered # <<>>,
                    NEW met \in BOOLEAN, NEW left \in BOOLEAN, NEW burnt \in BOOLEAN
             PROVE  LET share == Cardinality(Successes) * 1000
                        aim == availabilityTarget * Len(answered)
                    IN  /\ share > aim => Met(met) /\ BudgetLeft(left) /\ ~BurnedDown(burnt)
                        /\ share < aim => /\ ~Met(met) /\ ~BudgetLeft(left)
                                         /\ BurnedDown(burnt) <=> availabilityTarget < 1000
  BY DEF StatusAgrees, Successes
<1> DEFINE n == Len(answered)
           ok == Cardinality(Successes)
           aim == availabilityTarget * n
           allowed == Allowed * n
<1>1. /\ n \in Nat /\ n # 0 /\ ok \in Nat /\ ok <= n
      /\ availabilityTarget \in Nat /\ availabilityTarget <= 1000
  BY TelemetryAssumption DEF SloInv
<1>2. tracked.ok = ok /\ tracked.failed = n - ok /\ Total = n
  BY <1>1 DEF SloInv, Total
<1>3. /\ aim \in Nat /\ allowed \in Nat /\ allowed = 1000 * n - aim
      /\ availabilityTarget = 1000 => aim = 1000 * n
      /\ Allowed > 0 <=> availabilityTarget < 1000
  BY <1>1 DEF Allowed
<1>4. /\ tracked.ok * 1000 = ok * 1000 /\ availabilityTarget * Total = aim
      /\ tracked.failed * 1000 = (n - ok) * 1000 /\ Allowed * Total = allowed
  BY <1>2
<1>5. /\ ok * 1000 \in Nat /\ (n - ok) * 1000 = 1000 * n - ok * 1000 /\ ok * 1000 <= 1000 * n
      /\ 1000 * n \in Nat
  BY <1>1
<1> HIDE DEF n, ok, aim, allowed
<1>6. Met(met) <=> ok * 1000 > aim \/ (ok * 1000 = aim /\ met)
  BY <1>4 DEF Met, Exceeds
<1>7. BudgetLeft(left)
         <=> Allowed > 0 /\ (allowed > (n - ok) * 1000 \/ (allowed = (n - ok) * 1000 /\ left))
  BY <1>4 DEF BudgetLeft, Exceeds
<1>8. BurnedDown(burnt)
         <=> Allowed > 0 /\ ((n - ok) * 1000 > allowed \/ ((n - ok) * 1000 = allowed /\ burnt))
  BY <1>4 DEF BurnedDown, Exceeds
<1>9. ASSUME ok * 1000 > aim
      PROVE  Met(met) /\ BudgetLeft(left) /\ ~BurnedDown(burnt)
  <2>1. availabilityTarget < 1000 /\ allowed > (n - ok) * 1000
    BY <1>1, <1>3, <1>5, <1>9
  <2>2. ~((n - ok) * 1000 > allowed) /\ (n - ok) * 1000 # allowed
    BY <1>3, <1>5, <2>1
  <2>3. QED
    BY <1>3, <1>9, <1>6, <1>7, <1>8, <2>1, <2>2
<1>10. ASSUME ok * 1000 < aim
      PROVE  ~Met(met) /\ ~BudgetLeft(left) /\ (BurnedDown(burnt) <=> availabilityTarget < 1000)
  <2>1. /\ ~(ok * 1000 > aim) /\ ok * 1000 # aim /\ (n - ok) * 1000 > allowed
        /\ ~(allowed > (n - ok) * 1000) /\ allowed # (n - ok) * 1000
    BY <1>3, <1>5, <1>10
  <2>2. QED
    BY <1>3, <1>6, <1>7, <1>8, <2>1
<1>11. QED
  BY <1>9, <1>10 DEF n, ok, aim

-----------------------------------------------------------------------------
(* Telemetry: the latency reported, a percentile of the window *)

LEMMA FirstNumbers ==
    ASSUME NEW n \in Nat
    PROVE  IsFiniteSet(1..n) /\ Cardinality(1..n) = n
<1>1. 1 \in Int /\ n \in Int
  OBVIOUS
<1>2. IsFiniteSet(1..n) /\ Cardinality(1..n) = IF 1 > n THEN 0 ELSE n - 1 + 1
  BY <1>1, FS_Interval
<1>3. QED
  BY <1>2

\* The entries before the i-th one in the order sort brings them into.
Smaller(s, i) ==
    {j \in DOMAIN s : s[j] < s[i] \/ (s[j] = s[i] /\ j <= i)}

RankOf(s) == [i \in DOMAIN s |-> Cardinality(Smaller(s, i))]

LEMMA RanksGrow ==
    ASSUME NEW s \in Seq(Int)
    PROVE  /\ RankOf(s) \in [DOMAIN s -> DOMAIN s]
           /\ \A i, j \in DOMAIN s :
                 s[i] < s[j] \/ (s[i] = s[j] /\ i < j) => RankOf(s)[i] < RankOf(s)[j]
<1> DEFINE D == DOMAIN s
<1>1. D = 1..Len(s) /\ Len(s) \in Nat /\ (\A i \in D : i \in Int /\ s[i] \in Int)
  OBVIOUS
<1>2. IsFiniteSet(D) /\ Cardinality(D) = Len(s)
  BY <1>1, FirstNumbers
<1>3. ASSUME NEW i \in D
      PROVE  /\ Smaller(s, i) \in SUBSET D /\ i \in Smaller(s, i)
             /\ IsFiniteSet(Smaller(s, i)) /\ Cardinality(Smaller(s, i)) \in D
  <2>1. Smaller(s, i) \in SUBSET D /\ i \in Smaller(s, i)
    BY <1>1 DEF Smaller
  <2>2. IsFiniteSet(Smaller(s, i)) /\ Cardinality(Smaller(s, i)) <= Cardinality(D)
    BY <1>2, <2>1, FS_Subset
  <2>3. Cardinality(Smaller(s, i)) \in Nat /\ Cardinality(Smaller(s, i)) # 0
    BY <2>1, <2>2, FS_CardinalityType, FS_EmptySet
  <2>4. QED
    BY <1>1, <1>2, <2>1, <2>2, <2>3
<1>4. ASSUME NEW i \in D, NEW j \in D, s[i] < s[j] \/ (s[i] = s[j] /\ i < j)
      PROVE  Cardinality(Smaller(s, i)) < Cardinality(Smaller(s, j))
  <2>1. Smaller(s, i) \subseteq Smaller(s, j) /\ j \notin Smaller(s, i)
    BY <1>1, <1>4 DEF Smaller
  <2>2. Smaller(s, i) # Smaller(s, j)
    BY <1>3, <2>1
  <2>3. /\ Cardinality(Smaller(s, i)) <= Cardinality(Smaller(s, j))
        /\ Cardinality(Smaller(s, i)) # Cardinality(Smaller(s, j))
    BY <1>3, <2>1, <2>2, FS_Subset
  <2>4. Cardinality(Smaller(s, i)) \in Int /\ Cardinality(Smaller(s, j)) \in Int
    BY <1>1, <1>3
  <2>5. QED
    BY <2>3, <2>4
<1>5. QED
  BY <1>3, <1>4 DEF RankOf

\* So an entry's rank is its place in the ascending order.
LEMMA RanksAreAnOrder ==
    ASSUME NEW s \in Seq(Int)
    PROVE  /\ RankOf(s) \in Bijection(DOMAIN s, DOMAIN s)
           /\ IsFiniteSet(DOMAIN s) /\ Cardinality(DOMAIN s) = Len(s)
<1> DEFINE D == DOMAIN s
           r == RankOf(s)
<1>1. D = 1..Len(s) /\ Len(s) \in Nat /\ (\A i \in D : i \in Int /\ s[i] \in Int)
  OBVIOUS
<1>2. IsFiniteSet(D) /\ Cardinality(D) = Len(s)
  BY <1>1, FirstNumbers
<1>3. r \in [D -> D]
  BY RanksGrow
<1>4. ASSUME NEW i \in D, NEW j \in D, i # j PROVE r[i] # r[j]
  <2>1. s[i] < s[j] \/ s[j] < s[i] \/ (s[i] = s[j] /\ (i < j \/ j < i))
    BY <1>1, <1>4
  <2>2. r[i] < r[j] \/ r[j] < r[i]
    BY <2>1, RanksGrow
  <2>3. r[i] \in Int /\ r[j] \in Int
    BY <1>1, <1>3
  <2>4. QED
    BY <2>2, <2>3
<1>5. r \in Injection(D, D)
  <2> HIDE DEF r, D
  <2>1. QED
    BY <1>3, <1>4, Fun_IsInj
<1>6. r \in Surjection(D, D)
  <2> HIDE DEF r, D
  <2>1. QED
    BY <1>2, <1>5, FS_Injection
<1>7. QED
  BY <1>2, <1>5, <1>6 DEF Bijection

\* t is in ascending order.
Ascends(s, t) == \A i, j \in DOMAIN s : i <= j => t[i] <= t[j]

LEMMA SortedIs ==
    ASSUME NEW s \in Seq(Int)
    PROVE  \E p \in Bijection(DOMAIN s, DOMAIN s) :
              /\ Sorted(s) = [i \in DOMAIN s |-> s[p[i]]]
              /\ Ascends(s, Sorted(s))
<1> DEFINE D == DOMAIN s
           r == RankOf(s)
           p == Inverse(r, D, D)
           t == [i \in D |-> s[p[i]]]
<1>1. D = 1..Len(s) /\ Len(s) \in Nat /\ (\A i \in D : i \in Int /\ s[i] \in Int)
  OBVIOUS
<1>2. r \in Bijection(D, D)
  BY RanksAreAnOrder
<1>3. p \in Bijection(D, D) /\ \A i \in D : p[r[i]] = i
  <2> HIDE DEF r, D
  <2>1. QED
    BY <1>2, Fun_BijInverse
<1>4. p \in [D -> D] /\ r \in [D -> D]
  <2> HIDE DEF p, r, D
  <2>1. QED
    BY <1>2, <1>3, Fun_BijectionProperties
<1>5. \A k \in D : r[p[k]] = k
  <2>1. \A k \in D : \E i \in D : r[i] = k
    <3> HIDE DEF p, r, D
    <3>1. QED
      BY <1>2, Fun_BijectionProperties, Fun_SurjectionProperties
  <2> HIDE DEF p, r, D
  <2>2. QED
    BY <1>3, <2>1
<1>6. ASSUME NEW k \in D, NEW l \in D, k <= l PROVE t[k] <= t[l]
  <2>1. p[k] \in D /\ p[l] \in D /\ r[p[k]] = k /\ r[p[l]] = l
    BY <1>4, <1>5
  <2>2. s[p[l]] < s[p[k]] => l < k
    BY <2>1, RanksGrow
  <2>3. QED
    BY <1>1, <1>6, <2>1, <2>2
<1>7. \E u \in {[i \in D |-> s[q[i]]] : q \in Bijection(D, D)} : \A i, j \in D : i <= j => u[i] <= u[j]
  BY <1>3, <1>6
<1>8. /\ Sorted(s) \in {[i \in D |-> s[q[i]]] : q \in Bijection(D, D)}
      /\ \A i, j \in D : i <= j => Sorted(s)[i] <= Sorted(s)[j]
  <2> HIDE DEF p, r, t
  <2>1. QED
    BY <1>7 DEF Sorted
<1>9. QED
  BY <1>8 DEF Ascends

LEMMA PlaceOfPercentile ==
    ASSUME NEW n \in Nat, n >= 1,
           NEW k, k = Min({(n * Percentile) \div 100 + 1, n})
    PROVE  k \in 1..n /\ (k - 1) * 100 <= Percentile * n /\ k * 100 >= Percentile * n
<1>1. Percentile \in Nat /\ Percentile <= 99
  BY TelemetryAssumption
<1>2. PICK q \in Nat : q = n * Percentile /\ q = Percentile * n /\ q <= 99 * n
  BY <1>1
<1>3. PICK m \in Nat : m = q \div 100 /\ 100 * m <= q /\ q < 100 * m + 100
  BY <1>2
<1>4. m + 1 <= n
  BY <1>2, <1>3
<1>5. k = m + 1
  <2>1. \E x \in {m + 1, n} : \A y \in {m + 1, n} : x <= y
    BY <1>3, <1>4
  <2>2. k \in {m + 1, n} /\ \A y \in {m + 1, n} : k <= y
    BY <1>2, <1>3, <2>1 DEF Min
  <2>3. QED
    BY <1>3, <1>4, <2>2
<1>6. QED
  BY <1>2, <1>3, <1>4, <1>5

(***************************************************************************)
(* The entries below the k-th in ascending order are among the first k - 1 *)
(* of it, and the first k are not above.                                   *)
(***************************************************************************)
LEMMA PlacesSplit ==
    ASSUME NEW s \in Seq(Int), NEW k \in 1..Len(s)
    PROVE  LET x == Sorted(s)[k] IN
           /\ Cardinality({i \in DOMAIN s : s[i] < x}) <= k - 1
           /\ Cardinality({i \in DOMAIN s : s[i] <= x}) >= k
<1> DEFINE D == DOMAIN s
           t == Sorted(s)
           Below == {i \in D : s[i] < t[k]}
           Upto == {i \in D : s[i] <= t[k]}
<1>1. D = 1..Len(s) /\ Len(s) \in Nat /\ (\A i \in D : i \in Int /\ s[i] \in Int)
  OBVIOUS
<1>2. PICK p \in Bijection(D, D) : t = [i \in D |-> s[p[i]]] /\ Ascends(s, t)
  BY SortedIs
<1> DEFINE q == Inverse(p, D, D)
<1> HIDE DEF t, q, D
<1>3. p \in [D -> D] /\ (\A i, j \in D : p[i] = p[j] => i = j) /\ (\A i \in D : \E j \in D : p[j] = i)
  BY <1>2, Fun_BijectionProperties, Fun_InjectionProperties, Fun_SurjectionProperties
<1>4. q \in Bijection(D, D) /\ \A i \in D : q[p[i]] = i
  BY <1>2, Fun_BijInverse DEF q
<1>5. q \in [D -> D] /\ (\A i, j \in D : q[i] = q[j] => i = j)
  BY <1>4, Fun_BijectionProperties, Fun_InjectionProperties
<1>6. \A i \in D : t[q[i]] = s[i]
  <2>1. \A i \in D : p[q[i]] = i
    BY <1>3, <1>4
  <2>2. QED
    BY <1>2, <1>5, <2>1
<1>7. \A i, j \in D : i <= j => t[i] <= t[j]
  BY <1>2 DEF Ascends, D
<1>8. k \in D /\ t[k] \in Int /\ \A i \in D : t[i] \in Int
  BY <1>1, <1>2, <1>3
<1>9. Cardinality(Below) <= k - 1
  <2> DEFINE f == [i \in Below |-> q[i]]
  <2>1. \A i \in Below : i \in D /\ q[i] \in 1..(k - 1)
    <3>1. SUFFICES ASSUME NEW i \in D, s[i] < t[k] PROVE q[i] \in 1..(k - 1)
      BY <1>5
    <3>2. t[q[i]] < t[k] /\ q[i] \in D /\ q[i] \in Int /\ k \in Int
      BY <1>1, <1>5, <1>6, <1>8, <3>1
    <3>3. ~(k <= q[i])
      BY <1>7, <1>8, <3>2
    <3>4. QED
      BY <1>1, <3>2, <3>3
  <2>2. f \in [Below -> 1..(k - 1)]
    BY <2>1
  <2>3. \A i, j \in Below : f[i] = f[j] => i = j
    BY <1>5, <2>1
  <2>4. f \in Injection(Below, 1..(k - 1))
    <3> HIDE DEF f, Below
    <3>1. QED
      BY <2>2, <2>3, Fun_IsInj
  <2>5. k - 1 \in Nat
    BY <1>1
  <2>6. Cardinality(Below) <= Cardinality(1..(k - 1))
    <3> HIDE DEF f, Below
    <3>1. QED
      BY <2>4, <2>5, FirstNumbers, FS_Injection
  <2>7. QED
    BY <2>5, <2>6, FirstNumbers
<1>10. Cardinality(Upto) >= k
  <2> DEFINE f == [i \in 1..k |-> p[i]]
  <2>1. \A i \in 1..k : i \in D /\ p[i] \in Upto
    <3>1. SUFFICES ASSUME NEW i \in 1..k PROVE i \in D /\ p[i] \in Upto
      OBVIOUS
    <3>2. i \in D /\ i <= k
      BY <1>1
    <3>3. t[i] <= t[k] /\ t[i] = s[p[i]] /\ p[i] \in D
      BY <1>2, <1>3, <1>7, <1>8, <3>2
    <3>4. QED
      BY <3>2, <3>3
  <2>2. f \in [1..k -> Upto] /\ \A i, j \in 1..k : f[i] = f[j] => i = j
    <3> HIDE DEF Upto
    <3>1. QED
      BY <1>3, <2>1
  <2>3. f \in Injection(1..k, Upto)
    <3> HIDE DEF f, Upto
    <3>1. QED
      BY <2>2, Fun_IsInj
  <2>4. IsFiniteSet(Upto)
    <3>1. IsFiniteSet(D) /\ Upto \in SUBSET D
      BY <1>1, FirstNumbers
    <3> HIDE DEF Upto
    <3>2. QED
      BY <3>1, FS_Subset
  <2>5. k \in Nat
    BY <1>1
  <2>6. Cardinality(1..k) <= Cardinality(Upto)
    <3> HIDE DEF f, Upto
    <3>1. QED
      BY <2>3, <2>4, FS_Injection
  <2>7. QED
    BY <2>5, <2>6, FirstNumbers
<1>11. QED
  BY <1>9, <1>10 DEF t, D

\* The window holds numbers.
LatencyInv == latencies \in Seq(Int)

LEMMA LatencyKeepsInv ==
    ASSUME LatencyInv, [SloNext]_sloVars
    PROVE  LatencyInv'
<1>1. ASSUME NEW ms \in 1..3, TrackLatency(ms) PROVE LatencyInv'
  <2> DEFINE longer == Append(latencies, ms)
  <2>1. longer \in Seq(Int) /\ longer # <<>>
    <3>1. latencies \in Seq(Int) /\ ms \in Int
      BY DEF LatencyInv
    <3>2. Append(latencies, ms) \in Seq(Int) /\ Len(Append(latencies, ms)) = Len(latencies) + 1 /\ Len(latencies) \in Nat
      BY <3>1
    <3>3. QED
      BY <3>2
  <2>2. Tail(longer) \in Seq(Int)
    BY <2>1
  <2>3. latencies' \in {longer, Tail(longer)}
    BY <1>1 DEF TrackLatency
  <2>4. QED
    BY <2>1, <2>2, <2>3 DEF LatencyInv
<1>2. QED
  BY <1>1 DEF LatencyInv, SloNext, sloVars, TrackAvailability

LEMMA LatencyIsPercentile == LatencyInv => PercentileIsOne
<1> SUFFICES ASSUME latencies \in Seq(Int), latencies # <<>> PROVE IsPercentile(LatencyP95)
  BY DEF PercentileIsOne, LatencyInv
<1> DEFINE n == Len(latencies)
           k == Min({(n * Percentile) \div 100 + 1, n})
           t == Sorted(latencies)
           x == t[k]
<1>1. n \in Nat /\ n >= 1
  OBVIOUS
<1>2. k \in 1..n /\ (k - 1) * 100 <= Percentile * n /\ k * 100 >= Percentile * n
  <2> HIDE DEF n
  <2>1. QED
    BY <1>1, PlaceOfPercentile
<1>3. Len(t) = n
  BY SortedIs
<1>4. LatencyP95 = x
  BY <1>3 DEF LatencyP95, PercentileOf
<1> DEFINE Below == {i \in DOMAIN latencies : latencies[i] < x}
           Upto == {i \in DOMAIN latencies : latencies[i] <= x}
<1>5. Cardinality(Below) <= k - 1 /\ Cardinality(Upto) >= k
  <2> HIDE DEF k
  <2>1. QED
    BY <1>2, PlacesSplit
<1>6. Cardinality(Below) \in Nat /\ Cardinality(Upto) \in Nat
  <2>1. IsFiniteSet(DOMAIN latencies)
    BY RanksAreAnOrder
  <2>2. IsFiniteSet(Below) /\ IsFiniteSet(Upto)
    <3>1. Below \in SUBSET DOMAIN latencies /\ Upto \in SUBSET DOMAIN latencies
      OBVIOUS
    <3> HIDE DEF Below, Upto
    <3>2. QED
      BY <2>1, <3>1, FS_Subset
  <2> HIDE DEF Below, Upto
  <2>3. QED
    BY <2>2, FS_CardinalityType
<1>7. Percentile \in Int /\ Percentile * n \in Int
  BY <1>1, TelemetryAssumption
<1>8. Cardinality(Below) * 100 <= Percentile * n /\ Cardinality(Upto) * 100 >= Percentile * n
  <2> HIDE DEF Below, Upto, k, n
  <2>1. QED
    BY <1>1, <1>2, <1>5, <1>6, <1>7
<1>9. QED
  BY <1>4, <1>8 DEF IsPercentile

-----------------------------------------------------------------------------
(* Telemetry: the gauge, a sum over a finite set *)

Pick(s) == CHOOSE x \in s : TRUE

\* f adds up g over every set of attributes.
Adds(f, g, A) ==
    f = [s \in SUBSET A |-> IF s = {} THEN 0 ELSE g[Pick(s)] + f[s \ {Pick(s)}]]

\* Of subsets of a finite set, one has no other one within.
LEMMA SmallestSubset ==
    ASSUME NEW A, IsFiniteSet(A), NEW T \in SUBSET (SUBSET A), T # {}
    PROVE  \E t \in T : \A u \in T : u \subseteq t => u = t
<1> DEFINE N == {n \in Nat : \E t \in T : Cardinality(t) = n}
<1>1. \A t \in T : IsFiniteSet(t) /\ Cardinality(t) \in Nat
  BY FS_Subset, FS_CardinalityType
<1>2. N \subseteq Nat /\ N # {}
  BY <1>1
<1>3. PICK n \in N : \A m \in N : ~(<<m, n>> \in OpToRel(<, Nat))
  <2> HIDE DEF N
  <2>1. QED
    BY <1>2, NatLessThanWellFounded, WFMin
<1>4. \A m \in N : ~(m < n)
  BY <1>2, <1>3 DEF OpToRel
<1>5. PICK t \in T : Cardinality(t) = n
  BY <1>3
<1>6. ASSUME NEW u \in T, u \subseteq t, u # t PROVE FALSE
  <2>1. Cardinality(u) <= n /\ Cardinality(u) # n
    BY <1>1, <1>5, <1>6, FS_Subset
  <2>2. Cardinality(u) \in N
    BY <1>1
  <2>3. QED
    BY <1>1, <1>4, <1>5, <2>1, <2>2
<1>7. QED
  BY <1>6

LEMMA PickIn == \A s : s # {} => Pick(s) \in s
  BY DEF Pick

\* There is such a function: up to any size there is one.
AddsTo(f, g, A, n) ==
    f = [s \in {t \in SUBSET A : Cardinality(t) <= n} |->
             IF s = {} THEN 0 ELSE g[Pick(s)] + f[s \ {Pick(s)}]]

LEMMA AddsUpTo ==
    ASSUME NEW A, IsFiniteSet(A), NEW g, NEW n \in Nat
    PROVE  \E f : AddsTo(f, g, A, n)
<1> USE DEF AddsTo
<1> DEFINE Upto(m) == {t \in SUBSET A : Cardinality(t) <= m}
           Fits(f, m) == f = [s \in Upto(m) |-> IF s = {} THEN 0 ELSE g[Pick(s)] + f[s \ {Pick(s)}]]
           N == {m \in Nat : ~ \E f : Fits(f, m)}
<1>1. \A t \in SUBSET A : IsFiniteSet(t) /\ Cardinality(t) \in Nat
  BY FS_Subset, FS_CardinalityType
<1>2. SUFFICES ASSUME N # {} PROVE FALSE
  OBVIOUS
<1>3. PICK m \in N : \A k \in N : ~(<<k, m>> \in OpToRel(<, Nat))
  <2>1. N \subseteq Nat
    OBVIOUS
  <2> HIDE DEF N
  <2>2. QED
    BY <1>2, <2>1, NatLessThanWellFounded, WFMin
<1>4. \A k \in N : ~(k < m)
  BY <1>3 DEF OpToRel
<1>5. CASE m = 0
  <2>1. Upto(0) = {{}}
    BY <1>1, FS_EmptySet
  <2> DEFINE f == [s \in Upto(0) |-> 0]
  <2>2. Fits(f, 0)
    BY <2>1
  <2>3. QED
    BY <1>3, <1>5, <2>2
<1>6. CASE m # 0
  <2>1. m - 1 \in Nat /\ m - 1 < m /\ m - 1 \notin N
    <3>1. m \in Nat
      BY <1>3
    <3>2. QED
      <4> HIDE DEF N
      <4>1. QED
        BY <3>1, <1>4, <1>6
  <2>2. PICK f : Fits(f, m - 1)
    BY <2>1
  <2> DEFINE h == [s \in Upto(m) |-> IF s = {} THEN 0 ELSE g[Pick(s)] + f[s \ {Pick(s)}]]
  <2>3. ASSUME NEW s \in Upto(m - 1) PROVE h[s] = f[s]
    <3>1. s \in Upto(m)
      BY <1>1, <2>1
    <3>2. QED
      BY <2>2, <3>1
  <2>4. ASSUME NEW s \in Upto(m), s # {} PROVE s \ {Pick(s)} \in Upto(m - 1)
    <3>1. Pick(s) \in s
      BY <2>4, PickIn
    <3>2. Cardinality(s \ {Pick(s)}) = Cardinality(s) - 1
      BY <1>1, <3>1, FS_RemoveElement
    <3>3. QED
      BY <1>1, <2>1, <3>2
  <2>5. \A s \in Upto(m) : s # {} => h[s \ {Pick(s)}] = f[s \ {Pick(s)}]
    BY <2>3, <2>4
  <2>6. Fits(h, m)
    <3> HIDE DEF Upto
    <3>1. QED
      BY <2>5
  <2>7. QED
    BY <1>3, <2>6
<1>7. QED
  BY <1>5, <1>6

LEMMA SomeAdds ==
    ASSUME NEW A, IsFiniteSet(A), NEW g
    PROVE  \E f : Adds(f, g, A)
<1>1. Cardinality(A) \in Nat
  BY FS_CardinalityType
<1>2. {t \in SUBSET A : Cardinality(t) <= Cardinality(A)} = SUBSET A
  BY FS_Subset
<1>3. PICK f : AddsTo(f, g, A, Cardinality(A))
  BY <1>1, AddsUpTo
<1>4. QED
  BY <1>2, <1>3 DEF Adds, AddsTo

\* Changed at one place, the sums change by as much.
LEMMA SumsMove ==
    ASSUME NEW A, IsFiniteSet(A), NEW a \in A, NEW d \in Int,
           NEW g \in [A -> Int], NEW h \in [A -> Int],
           \A y \in A : h[y] = IF y = a THEN g[y] + d ELSE g[y],
           NEW f, Adds(f, g, A), NEW k, Adds(k, h, A)
    PROVE  \A s \in SUBSET A :
              f[s] \in Int /\ k[s] = f[s] + (IF a \in s THEN d ELSE 0)
<1> DEFINE Right(s) == f[s] \in Int /\ k[s] = f[s] + (IF a \in s THEN d ELSE 0)
           T == {s \in SUBSET A : ~Right(s)}
<1>1. SUFFICES ASSUME T # {} PROVE FALSE
  OBVIOUS
<1>2. PICK s \in T : \A u \in T : u \subseteq s => u = s
  <2>1. T \in SUBSET (SUBSET A)
    OBVIOUS
  <2> HIDE DEF T
  <2>2. QED
    BY <1>1, <2>1, SmallestSubset
<1>3. s # {}
  BY <1>2 DEF Adds
<1> DEFINE x == Pick(s)
           r == s \ {x}
<1>4. x \in s /\ x \in A
  BY <1>2, <1>3, PickIn
<1>5. Right(r)
  BY <1>2, <1>4
<1>6. f[s] = g[x] + f[r] /\ k[s] = h[x] + k[r]
  BY <1>2, <1>3 DEF Adds
<1>7. g[x] \in Int /\ h[x] = g[x] + (IF x = a THEN d ELSE 0) /\ g[a] \in Int
  BY <1>4
<1>8. a \in s <=> (a \in r \/ x = a)
  BY <1>4
<1>9. x = a => a \notin r
  OBVIOUS
<1>10. Right(s)
  <2> HIDE DEF x, r
  <2>1. QED
    BY <1>5, <1>6, <1>7, <1>8, <1>9
<1>11. QED
  BY <1>2, <1>10

\* What the series add up to.
AllSeries == CHOOSE f : Adds(f, series, Attributes)

LEMMA SeriesAdded ==
    /\ MapThenSumSet(LAMBDA a : series[a], Attributes) = AllSeries[Attributes]
    /\ Adds(AllSeries, series, Attributes)
<1>1. \E f : Adds(f, series, Attributes)
  BY GaugeAssumption, SomeAdds
<1>2. MapThenSumSet(LAMBDA a : series[a], Attributes) = AllSeries[Attributes]
  BY DEF MapThenSumSet, MapThenFoldSet, AllSeries, Adds, Pick
<1>3. QED
  BY <1>1, <1>2 DEF AllSeries

LEMMA ZeroSum ==
    ASSUME series = [a \in Attributes |-> 0]
    PROVE  AllSeries[Attributes] = 0
<1> DEFINE T == {s \in SUBSET Attributes : AllSeries[s] # 0}
<1>1. SUFFICES ASSUME T # {} PROVE FALSE
  OBVIOUS
<1>2. PICK s \in T : \A u \in T : u \subseteq s => u = s
  <2>1. T \in SUBSET (SUBSET Attributes)
    OBVIOUS
  <2> HIDE DEF T
  <2>2. QED
    BY <1>1, <2>1, SmallestSubset, GaugeAssumption
<1>3. s # {}
  BY <1>2, SeriesAdded DEF Adds
<1> DEFINE x == Pick(s)
<1>4. x \in s /\ x \in Attributes
  BY <1>2, <1>3, PickIn
<1>5. AllSeries[s \ {x}] = 0
  BY <1>2, <1>4
<1>6. AllSeries[s] = series[x] + AllSeries[s \ {x}]
  BY <1>2, <1>3, SeriesAdded DEF Adds
<1>7. QED
  BY <1>2, <1>4, <1>5, <1>6

GaugeSpec == GaugeInit /\ [][GaugeNext]_gaugeVars

GaugeInv ==
    /\ value \in Int /\ series \in [Attributes -> Int]
    /\ AllSeries[Attributes] = value

LEMMA ShowsKeeps ==
    ASSUME GaugeInv, NEW a \in Attributes, NEW v \in Int, Shows(a, v, v - value)
    PROVE  GaugeInv'
<1>1. value' = v /\ series' = [series EXCEPT ![a] = series[a] + (v - value)]
  BY DEF Shows
<1>2. series' \in [Attributes -> Int] /\ value' \in Int
  BY <1>1 DEF GaugeInv
<1>3. Adds(AllSeries, series, Attributes)
  BY SeriesAdded
<1>4. Adds(AllSeries, series, Attributes)'
  BY SeriesAdded, PTL
<1>5. ASSUME NEW g, g = series, NEW h, h = series', NEW f, f = AllSeries, NEW k, k = AllSeries'
      PROVE  k[Attributes] = f[Attributes] + (v - value)
  <2>1. v - value \in Int /\ g \in [Attributes -> Int] /\ h \in [Attributes -> Int]
    BY <1>1, <1>2, <1>5 DEF GaugeInv
  <2>2. \A y \in Attributes : h[y] = IF y = a THEN g[y] + (v - value) ELSE g[y]
    BY <1>1, <1>5, <2>1
  <2>3. Adds(f, g, Attributes) /\ Adds(k, h, Attributes)
    BY <1>3, <1>4, <1>5 DEF Adds
  <2>4. \A s \in SUBSET Attributes :
           f[s] \in Int /\ k[s] = f[s] + (IF a \in s THEN v - value ELSE 0)
    BY ONLY <2>1, <2>2, <2>3, SumsMove, GaugeAssumption, a \in Attributes
  <2>5. QED
    BY <2>4
<1>6. (AllSeries')[Attributes] = AllSeries[Attributes] + (v - value)
  BY ONLY <1>5
<1>7. AllSeries[Attributes] = value /\ value \in Int
  BY DEF GaugeInv
<1>8. (AllSeries[Attributes])' = value'
  BY <1>1, <1>6, <1>7
<1>9. QED
  BY <1>2, <1>8 DEF GaugeInv

-----------------------------------------------------------------------------
(* Telemetry: the health score *)

ScoreSpec == ScoreInit /\ [][ScoreNext]_scoreVars

\* The items the loop of run u has behind it.
Judged(u) == {Items[n] : n \in 1..(scoreRun[u] - 1)}

(***************************************************************************)
(* Unless runs overlapped there is one run at a time, and what it has      *)
(* behind it is known; when it has ended that is every item.               *)
(***************************************************************************)
ScoreInv ==
    /\ passed \subseteq ItemSet /\ known \subseteq ItemSet
    /\ scoreRun \in [ScoreRuns -> 0..Len(Items)]
    /\ ~overlapped =>
         /\ \A u, o \in ScoreRuns : scoreRun[u] # 0 /\ scoreRun[o] # 0 => u = o
         /\ \A u \in ScoreRuns : scoreRun[u] # 0 => Judged(u) \subseteq known
         /\ (\A u \in ScoreRuns : scoreRun[u] = 0) => known = ItemSet

LEMMA ItemsAre == Len(Items) \in 1..199 /\ ItemSet = {Items[n] : n \in 1..Len(Items)}
  BY ScoreAssumption DEF ItemSet, ToSet

LEMMA SomeItems == Len(Items) \in Nat /\ Len(Items) >= 1 /\ Len(Items) < 200
<1>1. Len(Items) \in 1..199
  BY ScoreAssumption
<1>2. \A n \in 1..199 : n \in Nat /\ n >= 1 /\ n < 200
  OBVIOUS
<1>3. QED
  BY <1>1, <1>2

LEMMA JudgeKeeps ==
    ASSUME ScoreInv, NEW u \in ScoreRuns, CheckItem(u)
    PROVE  ScoreInv'
<1> DEFINE k == scoreRun[u]
<1>1. k \in 1..Len(Items) /\ Items[k] \in ItemSet /\ Len(Items) \in Nat
  BY ItemsAre DEF CheckItem, Judge, ScoreInv
<1>2. /\ passed' = (IF verdict[u] = "yes" THEN passed \cup {Items[k]} ELSE passed \ {Items[k]})
      /\ known' = known \cup {Items[k]} /\ UNCHANGED overlapped
      /\ scoreRun' = [scoreRun EXCEPT ![u] = IF k = Len(Items) THEN 0 ELSE k + 1]
  BY DEF CheckItem, Judge
<1>3. passed' \subseteq ItemSet /\ known' \subseteq ItemSet /\ scoreRun' \in [ScoreRuns -> 0..Len(Items)]
  BY <1>1, <1>2 DEF ScoreInv
<1>4. CASE overlapped
  BY <1>2, <1>3, <1>4 DEF ScoreInv
<1>5. CASE ~overlapped
  <2>1. \A o \in ScoreRuns : scoreRun[o] # 0 => o = u
    BY <1>1, <1>5 DEF ScoreInv
  <2>2. \A o \in ScoreRuns : scoreRun'[o] # 0 => o = u
    BY <1>2, <2>1 DEF ScoreInv
  <2>3. {Items[n] : n \in 1..(k - 1)} \subseteq known
    BY <1>1, <1>5 DEF ScoreInv, Judged
  <2>4. {Items[n] : n \in 1..k} \subseteq known'
    BY <1>1, <1>2, <2>3
  <2>5. scoreRun'[u] = IF k = Len(Items) THEN 0 ELSE k + 1
    BY <1>2 DEF ScoreInv
  <2>6. scoreRun'[u] # 0 => Judged(u)' \subseteq known'
    BY <1>1, <2>4, <2>5 DEF Judged
  <2>7. scoreRun'[u] = 0 => known' = ItemSet
    BY <1>1, <1>3, <2>4, <2>5, ItemsAre
  <2>8. QED
    BY <1>2, <1>3, <2>2, <2>6, <2>7 DEF ScoreInv
<1>6. QED
  BY <1>4, <1>5

LEMMA ScoreKeepsInv ==
    ASSUME ScoreInv, [ScoreNext]_scoreVars
    PROVE  ScoreInv'
<1>1. CASE UNCHANGED <<passed, scoreRun, overlapped, known>>
  BY <1>1 DEF ScoreInv, Judged
<1>2. ASSUME NEW u \in ScoreRuns, BeginRun(u) PROVE ScoreInv'
  <2>1. /\ scoreRun[u] = 0 /\ scoreRun' = [scoreRun EXCEPT ![u] = 1]
        /\ overlapped' = (\E o \in ScoreRuns : scoreRun[o] # 0)
        /\ known' = {} /\ UNCHANGED passed
    BY <1>2 DEF BeginRun
  <2>2. scoreRun' \in [ScoreRuns -> 0..Len(Items)] /\ scoreRun'[u] = 1
    BY <2>1, SomeItems DEF ScoreInv
  <2>3. Judged(u)' = {}
    BY <2>2 DEF Judged
  <2>4. ~overlapped' => \A o \in ScoreRuns : scoreRun'[o] # 0 => o = u
    BY <2>1 DEF ScoreInv
  <2>5. QED
    BY <2>1, <2>2, <2>3, <2>4 DEF ScoreInv
<1>3. ASSUME NEW u \in ScoreRuns, CheckItem(u) PROVE ScoreInv'
  BY <1>3, JudgeKeeps
<1>4. QED
  BY <1>1, <1>2, <1>3 DEF ScoreNext, scoreVars, CheckerAnswers, ItemChanges

\* With fewer than 200 items a rounded score of 100 hides nothing.
LEMMA RoundedIsFull ==
    ASSUME NEW all \in 1..199, NEW n \in 0..all
    PROVE  (200 * n + all) \div (2 * all) = 100 <=> n = all
<1> DEFINE a == 200 * n + all
           b == 2 * all
           d == a \div b
<1>1. a \in Nat /\ b \in Nat /\ b > 0
  OBVIOUS
<1>2. d \in Int /\ b * d <= a /\ a < b * (d + 1)
  BY <1>1
<1>3. d = 100 => 200 * all <= a /\ a < 202 * all
  BY <1>2
<1>4. d = 100 => n = all
  BY <1>3
<1>5. n = all => d = 100
  <2>1. SUFFICES ASSUME n = all PROVE d = 100
    OBVIOUS
  <2>2. a = b * 100 + all
    BY <2>1
  <2>3. b * (d - 100) <= all /\ all < b * (d - 99)
    BY <1>1, <1>2, <2>2
  <2>4. QED
    BY <1>2, <2>3
<1>6. QED
  BY <1>4, <1>5

LEMMA ScoresAreFresh == ScoreInv => ScoreIsFresh
<1> SUFFICES ASSUME ScoreInv, \A u \in ScoreRuns : scoreRun[u] = 0, ~overlapped
             PROVE  known = ItemSet /\ (CalculateScore = 100 <=> passed = ItemSet)
  BY DEF ScoreIsFresh
<1>1. known = ItemSet
  BY DEF ScoreInv
<1>2. /\ IsFiniteSet(1..Len(Items)) /\ Cardinality(1..Len(Items)) = Len(Items)
  <2>1. \A n \in Nat : IsFiniteSet(1..n) /\ Cardinality(1..n) = IF 1 > n THEN 0 ELSE n - 1 + 1
    BY FS_Interval
  <2>2. QED
    BY <2>1, SomeItems
<1>3. /\ IsFiniteSet(ItemSet) /\ Cardinality(ItemSet) <= Len(Items)
  <2> DEFINE f == [n \in 1..Len(Items) |-> Items[n]]
  <2>1. f \in Surjection(1..Len(Items), ItemSet)
    BY ItemsAre DEF Surjection
  <2>2. QED
    BY <1>2, <2>1, FS_Surjection
<1>4. Items[1] \in ItemSet
  <2>1. 1 \in 1..Len(Items)
    BY SomeItems
  <2>2. QED
    BY <2>1, ItemsAre
<1>5. Cardinality(ItemSet) \in 1..199
  <2>1. Cardinality(ItemSet) \in Nat /\ Cardinality(ItemSet) # 0
    BY <1>3, <1>4, FS_EmptySet, FS_CardinalityType
  <2>2. \A n, m \in Nat : n # 0 /\ n <= m /\ m < 200 => n \in 1..199
    OBVIOUS
  <2>3. QED
    BY <1>3, <2>1, <2>2, SomeItems
<1>6. Cardinality(passed) \in 0..Cardinality(ItemSet)
  BY <1>3, FS_Subset, FS_CardinalityType DEF ScoreInv
<1>7. Cardinality(passed) = Cardinality(ItemSet) <=> passed = ItemSet
  BY <1>3, FS_Subset DEF ScoreInv
<1>8. QED
  BY <1>1, <1>5, <1>6, <1>7, RoundedIsFull DEF CalculateScore

-----------------------------------------------------------------------------
(* Telemetry: the audit trail and the trace *)

AuditSpec == AuditInit /\ [][AuditNext]_auditVars
TraceSpec == TraceInit /\ [][TraceNext]_traceVars

\* The events held and the events removed from memory are those logged.
AuditInv ==
    /\ storage \in {"repository", "memory"} /\ logged \in Nat
    /\ logging \subseteq 1..logged /\ table \subseteq 1..logged
    /\ DOMAIN held \subseteq 1..logged /\ cleaned \subseteq 1..logged
    /\ storage = "memory" => DOMAIN held \cup cleaned = 1..logged

LEMMA AuditKeepsInv ==
    ASSUME AuditInv, [AuditNext]_auditVars
    PROVE  AuditInv'
<1>1. CASE UNCHANGED auditVars
  BY <1>1 DEF auditVars, AuditInv
<1>2. CASE LogEvent
  <2>1. logged \in Nat /\ 1..(logged + 1) = 1..logged \cup {logged + 1}
    BY DEF AuditInv
  <2>2. DOMAIN held' = IF storage = "memory" THEN DOMAIN held \cup {logged + 1} ELSE DOMAIN held
    BY <1>2 DEF LogEvent, Holding
  <2>3. /\ logged' = logged + 1 /\ logging' = logging \cup {logged + 1}
        /\ UNCHANGED <<storage, table, cleaned>>
    BY <1>2 DEF LogEvent
  <2>4. QED
    BY <2>1, <2>2, <2>3 DEF AuditInv
<1>3. ASSUME NEW e \in logging, StoreEvent(e) PROVE AuditInv'
  BY <1>3 DEF StoreEvent, AuditInv
<1>4. CASE Cleanup
  <2>1. PICK old \in SUBSET DOMAIN held :
          DOMAIN held' = DOMAIN held \ old /\ cleaned' = cleaned \cup old
    BY <1>4 DEF Cleanup
  <2>2. QED
    BY <1>4, <2>1 DEF Cleanup, AuditInv
<1>5. CASE DayPasses
  <2>1. DOMAIN held' = DOMAIN held
    BY <1>5 DEF DayPasses
  <2>2. QED
    BY <1>5, <2>1 DEF DayPasses, AuditInv
<1>6. QED
  BY <1>1, <1>2, <1>3, <1>4, <1>5 DEF AuditNext

\* A hop keeps the id, and the flag unless the active context was read.
TraceInv ==
    /\ trace = [id |-> trace.id, sampled |-> trace.sampled]
    /\ TraceSurvives

LEMMA TraceKeepsInv ==
    ASSUME TraceInv, [TraceNext]_traceVars
    PROVE  TraceInv'
<1>1. CASE UNCHANGED traceVars
  BY <1>1 DEF traceVars, TraceInv, TraceSurvives
<1>2. CASE PropagateTrace
  <2>1. trace' = Carried(trace) /\ UNCHANGED <<root, viaContext>>
    BY <1>2 DEF PropagateTrace, Hop
  <2>2. /\ trace' = [id |-> trace'.id, sampled |-> trace'.sampled] /\ trace'.id = trace.id
        /\ trace'.sampled = trace.sampled \/ trace.id = "none"
    BY <2>1 DEF Carried, TraceInv
  <2>3. QED
    BY <2>1, <2>2 DEF TraceInv, TraceSurvives
<1>3. CASE FromContext
  <2>1. trace' = Carried([trace EXCEPT !.sampled = TRUE]) /\ UNCHANGED root /\ viaContext' = TRUE
    BY <1>3 DEF FromContext, Hop
  <2>2. trace' = [id |-> trace'.id, sampled |-> trace'.sampled] /\ trace'.id = trace.id
    BY <2>1 DEF Carried, TraceInv
  <2>3. QED
    BY <2>1, <2>2 DEF TraceInv, TraceSurvives
<1>4. QED
  BY <1>1, <1>2, <1>3 DEF TraceNext

-----------------------------------------------------------------------------
(* Telemetry: the contexts of log lines *)

ContextSpec == ContextInit /\ [][ContextNext]_contextVars

\* The ids and values that are given.
Texts == {"", "q1", "q2", "c1", "c2", "u1"}
LogStores == [ids : [Keys -> Texts], custom : [Keys -> Texts]]

(***************************************************************************)
(* A store finds the request whose ids it was given: by what was merged    *)
(* into it, both ids or neither, or else by its own.                       *)
(***************************************************************************)
Finds(s, ids) ==
    /\ s \in LogStores /\ ids \in Texts \X Texts
    /\ s.custom["request"] = "" <=> s.custom["correlation"] = ""
    /\ Shown(s, "request") = ids[1]
    /\ Shown(s, "correlation") \in {ids[1], ids[2]}

ContextInv ==
    /\ contexts \in [Tasks -> Seq(LogStores)] /\ own \in [Tasks -> Seq(Texts \X Texts)]
    /\ \A t \in Tasks :
         /\ Len(contexts[t]) = Len(own[t]) /\ contexts[t] # <<>>
         /\ \A n \in 1..Len(own[t]) : Finds(contexts[t][n], own[t][n])

LEMMA OverIs ==
    ASSUME NEW extra \in [Keys -> Texts], NEW base \in [Keys -> Texts]
    PROVE  /\ Over(extra, base) \in [Keys -> Texts]
           /\ \A k \in Keys : Over(extra, base)[k] = IF extra[k] # "" THEN extra[k] ELSE base[k]
  BY DEF Over

LEMMA KeysAre == "request" \in Keys /\ "correlation" \in Keys /\ "user" \in Keys
  BY DEF Keys

LEMMA NoKeysAre == NoKeys \in [Keys -> Texts] /\ \A k \in Keys : NoKeys[k] = ""
  BY DEF NoKeys, Texts

\* What a store shows: what was merged into it, or else its own ids.
LEMMA ShownIs ==
    ASSUME NEW s \in LogStores, NEW k \in Keys
    PROVE  Shown(s, k) = IF s.custom[k] # "" THEN s.custom[k] ELSE s.ids[k]
<1>1. s.custom \in [Keys -> Texts] /\ s.ids \in [Keys -> Texts]
  BY DEF LogStores
<1>2. QED
  BY <1>1, OverIs DEF Shown, ToJSON

LEMMA EmptyFinds == EmptyContext \in LogStores /\ Finds(EmptyContext, <<"", "">>)
<1>1. EmptyContext \in LogStores /\ EmptyContext.custom = NoKeys /\ EmptyContext.ids = NoKeys
  BY NoKeysAre DEF EmptyContext, LogStores
<1>2. ASSUME NEW k \in Keys PROVE Shown(EmptyContext, k) = ""
  <2>1. EmptyContext.custom[k] = "" /\ EmptyContext.ids[k] = ""
    BY <1>1, NoKeysAre
  <2>2. Shown(EmptyContext, k) = IF EmptyContext.custom[k] # "" THEN EmptyContext.custom[k]
                                 ELSE EmptyContext.ids[k]
    BY <1>1, ShownIs
  <2>3. QED
    BY <2>1, <2>2
<1>3. QED
  BY <1>1, <1>2, NoKeysAre, KeysAre DEF Finds, Texts

LEMMA NewIs ==
    ASSUME NEW q \in Texts, NEW c \in Texts
    PROVE  /\ NewContext(q, c) \in LogStores
           /\ NewContext(q, c).ids["request"] = q
           /\ NewContext(q, c).ids["correlation"] = IF c = "" THEN q ELSE c
           /\ \A k \in Keys : NewContext(q, c).custom[k] = ""
<1> DEFINE d == IF c = "" THEN q ELSE c
           ids == [NoKeys EXCEPT !["request"] = q, !["correlation"] = d]
<1>1. ids \in [Keys -> Texts] /\ ids["request"] = q /\ ids["correlation"] = d
  BY NoKeysAre, KeysAre
<1>2. NewContext(q, c) = [EmptyContext EXCEPT !.ids = ids]
  BY DEF NewContext
<1> HIDE DEF ids
<1>3. NewContext(q, c) = [ids |-> ids, custom |-> NoKeys]
  BY <1>2 DEF EmptyContext
<1>4. NewContext(q, c).ids = ids /\ NewContext(q, c).custom = NoKeys
  BY <1>3
<1>5. NewContext(q, c) \in LogStores
  <2>1. ids \in [Keys -> Texts] /\ NoKeys \in [Keys -> Texts]
    BY <1>1, NoKeysAre
  <2>2. \A x, y \in [Keys -> Texts] : [ids |-> x, custom |-> y] \in LogStores
    BY DEF LogStores
  <2>3. QED
    BY <1>3, <2>1, <2>2
<1>6. \A k \in Keys : NewContext(q, c).custom[k] = ""
  BY <1>4, NoKeysAre
<1>7. QED
  BY <1>1, <1>4, <1>5, <1>6

LEMMA NewFinds ==
    ASSUME NEW q \in Texts, NEW c \in Texts
    PROVE  Finds(NewContext(q, c), <<q, c>>)
<1> DEFINE s == NewContext(q, c)
<1>1. /\ s \in LogStores /\ s.ids["request"] = q
      /\ s.ids["correlation"] = (IF c = "" THEN q ELSE c)
      /\ \A k \in Keys : s.custom[k] = ""
  BY NewIs
<1> HIDE DEF s
<1>2. Shown(s, "request") = q /\ Shown(s, "correlation") = IF c = "" THEN q ELSE c
  BY <1>1, ShownIs, KeysAre
<1>3. QED
  BY <1>1, <1>2, KeysAre DEF Finds, s

LEMMA WithIs ==
    ASSUME NEW s \in LogStores, NEW extra \in [Keys -> Texts]
    PROVE  LET w == WithContext(s, extra) IN
           /\ w \in LogStores
           /\ w.ids["request"] = s.ids["request"] /\ w.ids["correlation"] = s.ids["request"]
           /\ w.custom = Over(extra, s.custom)
<1> DEFINE q == s.ids["request"]
           n == NewContext(q, "")
<1>1. q \in Texts /\ "" \in Texts /\ s.custom \in [Keys -> Texts]
  BY KeysAre DEF LogStores, Texts
<1> HIDE DEF q
<1>2. n \in LogStores /\ n.ids["request"] = q /\ n.ids["correlation"] = q
  BY <1>1, NewIs
<1>3. Over(extra, s.custom) \in [Keys -> Texts]
  BY <1>1, OverIs
<1>4. WithContext(s, extra) = [n EXCEPT !.custom = Over(extra, s.custom)]
  BY DEF WithContext, q
<1> HIDE DEF n
<1>5. QED
  BY <1>2, <1>3, <1>4 DEF LogStores, q

\* Whatever is merged: both ids, or something else.
LEMMA WithFinds ==
    ASSUME NEW s, NEW old, Finds(s, old), NEW extra \in [Keys -> Texts],
           NEW ids \in Texts \X Texts,
           \/ extra["request"] = "" /\ extra["correlation"] = "" /\ ids = old
           \/ /\ extra["request"] = ids[1] /\ extra["correlation"] \in {ids[1], ids[2]}
              /\ extra["request"] # "" /\ extra["correlation"] # ""
    PROVE  Finds(WithContext(s, extra), ids)
<1> DEFINE w == WithContext(s, extra)
<1>1. /\ w \in LogStores /\ w.custom = Over(extra, s.custom) /\ s \in LogStores
      /\ w.ids["request"] = s.ids["request"] /\ w.ids["correlation"] = s.ids["request"]
  BY WithIs DEF Finds
<1> HIDE DEF w
<1>2. s.custom \in [Keys -> Texts]
  BY <1>1 DEF LogStores
<1>3. \A k \in Keys : w.custom[k] = IF extra[k] # "" THEN extra[k] ELSE s.custom[k]
  <2>1. w.custom = Over(extra, s.custom)
    BY <1>1
  <2>2. \A k \in Keys : Over(extra, s.custom)[k] = IF extra[k] # "" THEN extra[k] ELSE s.custom[k]
    BY <1>2, OverIs
  <2>3. QED
    BY <2>1, <2>2
<1>4. ASSUME NEW k \in Keys
      PROVE  /\ extra[k] # "" => Shown(w, k) = extra[k]
             /\ extra[k] = "" /\ s.custom[k] # "" => Shown(w, k) = Shown(s, k)
             /\ extra[k] = "" /\ s.custom[k] = "" =>
                  Shown(w, k) = w.ids[k] /\ Shown(s, k) = s.ids[k]
  <2>1. Shown(w, k) = IF w.custom[k] # "" THEN w.custom[k] ELSE w.ids[k]
    BY <1>1, ShownIs
  <2>2. Shown(s, k) = IF s.custom[k] # "" THEN s.custom[k] ELSE s.ids[k]
    BY <1>1, ShownIs
  <2>3. QED
    BY <1>3, <2>1, <2>2
<1>5. w.custom["request"] = "" <=> w.custom["correlation"] = ""
  BY <1>3, KeysAre DEF Finds
<1>6. Shown(w, "request") = ids[1] /\ Shown(w, "correlation") \in {ids[1], ids[2]}
  <2>1. CASE extra["request"] # "" /\ extra["correlation"] # ""
    BY <1>4, <2>1, KeysAre
  <2>2. CASE extra["request"] = "" /\ extra["correlation"] = "" /\ ids = old
    BY <1>1, <1>4, <2>2, KeysAre DEF Finds
  <2>3. QED
    BY <2>1, <2>2
<1>7. QED
  BY <1>1, <1>5, <1>6 DEF Finds, w

LEMMA HeadsFind ==
    ASSUME ContextInv, NEW t \in Tasks
    PROVE  Finds(Head(contexts[t]), Head(own[t]))
<1>1. /\ contexts[t] \in Seq(LogStores) /\ own[t] \in Seq(Texts \X Texts)
      /\ Len(contexts[t]) = Len(own[t]) /\ contexts[t] # <<>>
      /\ \A n \in 1..Len(own[t]) : Finds(contexts[t][n], own[t][n])
  BY DEF ContextInv
<1>2. 1 \in 1..Len(own[t]) /\ Head(contexts[t]) = contexts[t][1] /\ Head(own[t]) = own[t][1]
  BY <1>1
<1>3. QED
  BY <1>1, <1>2

\* Stores on a stack: what replaces, covers or uncovers the innermost one.
LEMMA StackFacts ==
    ASSUME NEW S, NEW s \in Seq(S), s # <<>>, NEW x \in S
    PROVE  /\ Len(s) \in Nat /\ Len(s) >= 1 /\ Head(s) = s[1] /\ s[1] \in S
           /\ <<x>> \o Tail(s) \in Seq(S) /\ Len(<<x>> \o Tail(s)) = Len(s)
           /\ \A n \in 1..Len(s) : (<<x>> \o Tail(s))[n] = IF n = 1 THEN x ELSE s[n]
           /\ <<x>> \o s \in Seq(S) /\ Len(<<x>> \o s) = Len(s) + 1
           /\ \A n \in 1..(Len(s) + 1) : (<<x>> \o s)[n] = IF n = 1 THEN x ELSE s[n - 1]
           /\ Tail(s) \in Seq(S) /\ Len(Tail(s)) = Len(s) - 1
           /\ \A n \in 1..(Len(s) - 1) : Tail(s)[n] = s[n + 1]
<1>1. Len(s) \in Nat /\ Len(s) >= 1 /\ Head(s) = s[1] /\ s[1] \in S
  OBVIOUS
<1>2. /\ Tail(s) \in Seq(S) /\ Len(Tail(s)) = Len(s) - 1
      /\ \A n \in 1..(Len(s) - 1) : Tail(s)[n] = s[n + 1]
  OBVIOUS
<1>3. <<x>> \in Seq(S) /\ Len(<<x>>) = 1 /\ <<x>>[1] = x
  OBVIOUS
<1>4. ASSUME NEW r \in Seq(S)
      PROVE  /\ <<x>> \o r \in Seq(S) /\ Len(<<x>> \o r) = Len(r) + 1
             /\ \A n \in 1..(Len(r) + 1) : (<<x>> \o r)[n] = IF n = 1 THEN x ELSE r[n - 1]
  BY <1>3
<1>5. /\ <<x>> \o Tail(s) \in Seq(S) /\ Len(<<x>> \o Tail(s)) = Len(s)
      /\ \A n \in 1..Len(s) : (<<x>> \o Tail(s))[n] = IF n = 1 THEN x ELSE s[n]
  <2>1. /\ <<x>> \o Tail(s) \in Seq(S) /\ Len(<<x>> \o Tail(s)) = Len(Tail(s)) + 1
        /\ \A n \in 1..(Len(Tail(s)) + 1) :
             (<<x>> \o Tail(s))[n] = IF n = 1 THEN x ELSE Tail(s)[n - 1]
    BY <1>2, <1>4
  <2>2. Len(Tail(s)) + 1 = Len(s)
    BY <1>1, <1>2
  <2>3. ASSUME NEW n \in 1..Len(s), n # 1 PROVE Tail(s)[n - 1] = s[n]
    BY <1>1, <1>2, <2>3
  <2>4. QED
    BY <2>1, <2>2, <2>3
<1>6. QED
  BY <1>1, <1>2, <1>4, <1>5

\* What a step does to the stack of one task, when each store still finds
\* its request.
LEMMA StackMoves ==
    ASSUME ContextInv, NEW t \in Tasks,
           NEW c \in Seq(LogStores), NEW o \in Seq(Texts \X Texts),
           contexts' = [contexts EXCEPT ![t] = c], own' = [own EXCEPT ![t] = o],
           Len(c) = Len(o), c # <<>>, \A n \in 1..Len(o) : Finds(c[n], o[n])
    PROVE  ContextInv'
<1>1. /\ contexts' \in [Tasks -> Seq(LogStores)] /\ own' \in [Tasks -> Seq(Texts \X Texts)]
      /\ contexts'[t] = c /\ own'[t] = o
      /\ \A u \in Tasks : u # t => contexts'[u] = contexts[u] /\ own'[u] = own[u]
  BY DEF ContextInv
<1>2. ASSUME NEW u \in Tasks
      PROVE  /\ Len(contexts'[u]) = Len(own'[u]) /\ contexts'[u] # <<>>
             /\ \A n \in 1..Len(own'[u]) : Finds(contexts'[u][n], own'[u][n])
  <2>1. CASE u = t
    BY <1>1, <2>1
  <2>2. CASE u # t
    BY <1>1, <2>2 DEF ContextInv
  <2>3. QED
    BY <2>1, <2>2
<1>3. QED
  BY <1>1, <1>2 DEF ContextInv

LEMMA EnterKeeps ==
    ASSUME ContextInv, NEW t \in Tasks, NEW store, NEW ids, Finds(store, ids), Enter(t, store, ids)
    PROVE  ContextInv'
<1> DEFINE c == <<store>> \o Tail(contexts[t])
           o == <<ids>> \o Tail(own[t])
<1>1. /\ contexts[t] \in Seq(LogStores) /\ own[t] \in Seq(Texts \X Texts)
      /\ Len(contexts[t]) = Len(own[t]) /\ contexts[t] # <<>> /\ own[t] # <<>>
      /\ \A n \in 1..Len(own[t]) : Finds(contexts[t][n], own[t][n])
  BY DEF ContextInv
<1>2. store \in LogStores /\ ids \in Texts \X Texts
  BY DEF Finds
<1>3. /\ c \in Seq(LogStores) /\ Len(c) = Len(contexts[t]) /\ Len(c) >= 1
      /\ \A n \in 1..Len(contexts[t]) : c[n] = IF n = 1 THEN store ELSE contexts[t][n]
  BY <1>1, <1>2, StackFacts
<1>4. /\ o \in Seq(Texts \X Texts) /\ Len(o) = Len(own[t])
      /\ \A n \in 1..Len(own[t]) : o[n] = IF n = 1 THEN ids ELSE own[t][n]
  BY <1>1, <1>2, StackFacts
<1>5. contexts' = [contexts EXCEPT ![t] = c] /\ own' = [own EXCEPT ![t] = o]
  BY DEF Enter
<1> HIDE DEF c, o
<1>6. \A n \in 1..Len(o) : Finds(c[n], o[n])
  BY <1>1, <1>3, <1>4
<1>7. c # <<>> /\ Len(c) = Len(o)
  BY <1>1, <1>3, <1>4
<1>8. QED
  BY ONLY ContextInv, t \in Tasks, <1>3, <1>4, <1>5, <1>6, <1>7, StackMoves

LEMMA RunKeeps ==
    ASSUME ContextInv, NEW t \in Tasks, NEW q \in Texts, NEW d \in Texts, RunContext(t, q, d)
    PROVE  ContextInv'
<1> DEFINE store == NewContext(q, d)
           c == <<store>> \o contexts[t]
           o == <<<<q, d>>>> \o own[t]
<1>1. /\ contexts[t] \in Seq(LogStores) /\ own[t] \in Seq(Texts \X Texts)
      /\ Len(contexts[t]) = Len(own[t]) /\ contexts[t] # <<>> /\ own[t] # <<>>
      /\ \A n \in 1..Len(own[t]) : Finds(contexts[t][n], own[t][n])
  BY DEF ContextInv
<1>2. Finds(store, <<q, d>>)
  BY NewFinds
<1>3. contexts' = [contexts EXCEPT ![t] = c] /\ own' = [own EXCEPT ![t] = o]
  BY DEF RunContext
<1> HIDE DEF store
<1>4. store \in LogStores /\ <<q, d>> \in Texts \X Texts
  BY <1>2 DEF Finds
<1>5. /\ c \in Seq(LogStores) /\ Len(c) = Len(contexts[t]) + 1 /\ Len(contexts[t]) \in Nat
      /\ \A n \in 1..(Len(contexts[t]) + 1) : c[n] = IF n = 1 THEN store ELSE contexts[t][n - 1]
  BY <1>1, <1>4, StackFacts
<1>6. /\ o \in Seq(Texts \X Texts) /\ Len(o) = Len(own[t]) + 1
      /\ \A n \in 1..(Len(own[t]) + 1) : o[n] = IF n = 1 THEN <<q, d>> ELSE own[t][n - 1]
  BY <1>1, <1>4, StackFacts
<1> HIDE DEF c, o
<1>7. ASSUME NEW n \in 1..Len(o) PROVE Finds(c[n], o[n])
  <2>1. CASE n = 1
    BY <1>1, <1>2, <1>5, <1>6, <2>1
  <2>2. CASE n # 1
    <3>1. n - 1 \in 1..Len(own[t]) /\ c[n] = contexts[t][n - 1] /\ o[n] = own[t][n - 1]
      BY <1>1, <1>5, <1>6, <1>7, <2>2
    <3>2. QED
      BY <1>1, <3>1
  <2>3. QED
    BY <2>1, <2>2
<1>8. c # <<>> /\ Len(c) = Len(o)
  BY <1>1, <1>5, <1>6
<1>9. QED
  BY ONLY ContextInv, t \in Tasks, <1>3, <1>5, <1>6, <1>7, <1>8, StackMoves

LEMMA EndRunKeeps ==
    ASSUME ContextInv, NEW t \in Tasks, EndRun(t)
    PROVE  ContextInv'
<1> DEFINE c == Tail(contexts[t])
           o == Tail(own[t])
<1>1. /\ contexts[t] \in Seq(LogStores) /\ own[t] \in Seq(Texts \X Texts)
      /\ Len(contexts[t]) = Len(own[t]) /\ contexts[t] # <<>> /\ own[t] # <<>>
      /\ \A n \in 1..Len(own[t]) : Finds(contexts[t][n], own[t][n])
  BY DEF ContextInv
<1>2. Len(contexts[t]) > 1 /\ contexts' = [contexts EXCEPT ![t] = c] /\ own' = [own EXCEPT ![t] = o]
  BY DEF EndRun
<1>3. /\ c \in Seq(LogStores) /\ Len(c) = Len(contexts[t]) - 1 /\ Len(contexts[t]) \in Nat
      /\ \A n \in 1..(Len(contexts[t]) - 1) : c[n] = contexts[t][n + 1]
  BY <1>1
<1>4. /\ o \in Seq(Texts \X Texts) /\ Len(o) = Len(own[t]) - 1
      /\ \A n \in 1..(Len(own[t]) - 1) : o[n] = own[t][n + 1]
  BY <1>1
<1> HIDE DEF c, o
<1>5. ASSUME NEW n \in 1..Len(o) PROVE Finds(c[n], o[n])
  <2>1. n + 1 \in 1..Len(own[t]) /\ c[n] = contexts[t][n + 1] /\ o[n] = own[t][n + 1]
    BY <1>1, <1>3, <1>4, <1>5
  <2>2. QED
    BY <1>1, <2>1
<1>6. c # <<>> /\ Len(c) = Len(o)
  BY <1>1, <1>2, <1>3, <1>4
<1>7. QED
  BY ONLY ContextInv, t \in Tasks, <1>2, <1>3, <1>4, <1>5, <1>6, StackMoves

LEMMA ForkKeeps ==
    ASSUME ContextInv, NEW t \in Tasks, NEW u \in Tasks, Fork(t, u)
    PROVE  ContextInv'
<1> DEFINE c == <<Head(contexts[t])>>
           o == <<Head(own[t])>>
<1>1. /\ contexts[t] \in Seq(LogStores) /\ own[t] \in Seq(Texts \X Texts)
      /\ contexts[t] # <<>> /\ own[t] # <<>>
      /\ Finds(contexts[t][1], own[t][1])
  BY DEF ContextInv
<1>2. /\ c \in Seq(LogStores) /\ Len(c) = 1 /\ c[1] = contexts[t][1]
      /\ o \in Seq(Texts \X Texts) /\ Len(o) = 1 /\ o[1] = own[t][1]
  BY <1>1
<1>3. contexts' = [contexts EXCEPT ![u] = c] /\ own' = [own EXCEPT ![u] = o]
  BY DEF Fork
<1> HIDE DEF c, o
<1>4. Len(c) = Len(o) /\ c # <<>>
  <2>1. \A r \in Seq(LogStores) : Len(r) = 1 => r # <<>>
    OBVIOUS
  <2>2. QED
    BY <1>2, <2>1
<1>5. ASSUME NEW n \in 1..Len(o) PROVE Finds(c[n], o[n])
  <2>1. n = 1
    BY <1>2, <1>5
  <2>2. QED
    BY <1>1, <1>2, <2>1
<1>6. QED
  BY ONLY ContextInv, u \in Tasks, <1>2, <1>3, <1>4, <1>5, StackMoves

LEMMA SetKeeps ==
    ASSUME ContextInv, NEW t \in Tasks, Finds(Head(contexts[t]), Head(own[t])),
           NEW q \in Texts \ {""}, NEW d \in Texts \ {""}, SetContext(t, q, d)
    PROVE  ContextInv'
<1> DEFINE new == NewContext(q, d)
           extra == ToJSON(new)
           ids == <<q, d>>
           s == Head(contexts[t])
<1>1. /\ new \in LogStores /\ \A k \in Keys : new.custom[k] = ""
      /\ new.ids["request"] = q /\ new.ids["correlation"] = d
  BY NewIs
<1> HIDE DEF new
<1>2. extra \in [Keys -> Texts] /\ \A k \in Keys : extra[k] = Shown(new, k)
  BY <1>1, OverIs DEF ToJSON, LogStores, Shown
<1>3. \A k \in Keys : Shown(new, k) = new.ids[k]
  BY <1>1, ShownIs
<1>4. extra["request"] = q /\ extra["correlation"] = d
  BY <1>1, <1>2, <1>3, KeysAre
<1>5. ids \in Texts \X Texts /\ ids[1] = q /\ ids[2] = d
  OBVIOUS
<1>6. Enter(t, WithContext(s, extra), ids)
  BY DEF SetContext, new
<1> HIDE DEF extra, ids, s
<1>7. Finds(WithContext(s, extra), ids)
  BY <1>2, <1>4, <1>5, WithFinds DEF s
<1>8. QED
  BY <1>6, <1>7, EnterKeeps

LEMMA ContextKeepsInv ==
    ASSUME ContextInv, [ContextNext]_contextVars
    PROVE  ContextInv'
<1>1. CASE UNCHANGED contextVars
  BY <1>1 DEF contextVars, ContextInv
<1>2. \A t \in Tasks : Finds(Head(contexts[t]), Head(own[t])) /\ Head(own[t]) \in Texts \X Texts
  BY HeadsFind DEF Finds
<1>3. ASSUME NEW t \in Tasks, NEW q \in {"q1", "q2"}, NEW d \in {"", "c1"}, RunContext(t, q, d)
      PROVE  ContextInv'
  BY <1>3, RunKeeps DEF Texts
<1>4. ASSUME NEW t \in Tasks, SetContext(t, "q2", "c2") PROVE ContextInv'
  <2>1. "q2" \in Texts \ {""} /\ "c2" \in Texts \ {""}
    BY DEF Texts
  <2>2. Finds(Head(contexts[t]), Head(own[t]))
    BY <1>2
  <2>3. QED
    BY <1>4, <2>1, <2>2, SetKeeps
<1>5. ASSUME NEW t \in Tasks, MergeContext(t) PROVE ContextInv'
  <2> DEFINE extra == [NoKeys EXCEPT !["user"] = "u1"]
  <2>1. "u1" \in Texts
    BY DEF Texts
  <2>2. extra \in [Keys -> Texts] /\ extra["request"] = "" /\ extra["correlation"] = ""
    BY <2>1, NoKeysAre, KeysAre
  <2> HIDE DEF extra
  <2>3. Finds(WithContext(Head(contexts[t]), extra), Head(own[t]))
    BY <1>2, <2>2, WithFinds
  <2>4. QED
    BY <1>5, <2>3, EnterKeeps DEF MergeContext, extra
<1>6. ASSUME NEW t \in Tasks, ClearContext(t) PROVE ContextInv'
  BY <1>6, EmptyFinds, EnterKeeps DEF ClearContext
<1>7. ASSUME NEW t \in Tasks, EndRun(t) \/ \E u \in Tasks : Fork(t, u) PROVE ContextInv'
  BY <1>7, EndRunKeeps, ForkKeeps
<1>8. QED
  BY <1>1, <1>3, <1>4, <1>5, <1>6, <1>7 DEF ContextNext

(***************************************************************************)
(* For any objectives, windows, attributes, items, runs, events, services  *)
(* and tasks: the words of getStatus agree with the answers; the latency   *)
(* reported is a percentile of the window; the series of a gauge add up to *)
(* its value; a score rests on verdicts younger than its run, unless runs  *)
(* overlapped; the trail shows what was logged and nothing else; a trace   *)
(* keeps its id; and a task's log lines show the ids it was given last.    *)
(***************************************************************************)
THEOREM TelemetryTells ==
    /\ SloSpec => [](StatusAgrees /\ PercentileIsOne)
    /\ GaugeSpec => []GaugeAddsUp
    /\ ScoreSpec => []ScoreIsFresh
    /\ AuditSpec => []TrailIsComplete
    /\ TraceSpec => []TraceSurvives
    /\ ContextSpec => []LinesFindTheirRequest
<1>1. SloSpec => [](StatusAgrees /\ PercentileIsOne)
  <2>1. SloInit => SloInv
    <3>1. SUFFICES ASSUME SloInit PROVE SloInv
      OBVIOUS
    <3>2. Successes = {} /\ answered \in Seq(BOOLEAN) /\ Len(answered) = 0
      BY <3>1 DEF SloInit, Successes
    <3>3. IsFiniteSet(Successes) /\ Cardinality(Successes) = 0
      BY <3>2, FS_EmptySet
    <3>4. tracked = [total |-> 0, ok |-> 0, failed |-> 0] /\ availabilityTarget \in SloTargets
      BY <3>1 DEF SloInit
    <3>5. Len(answered) - Cardinality(Successes) = 0
      BY <3>2, <3>3
    <3>6. QED
      BY <3>2, <3>3, <3>4, <3>5 DEF SloInv
  <2>2. SloInv /\ [SloNext]_sloVars => SloInv'
    BY SloKeepsInv
  <2>3. SloInit => LatencyInv
    BY DEF SloInit, LatencyInv
  <2>4. LatencyInv /\ [SloNext]_sloVars => LatencyInv'
    BY LatencyKeepsInv
  <2>5. QED
    BY <2>1, <2>2, <2>3, <2>4, CountersAgree, LatencyIsPercentile, PTL DEF SloSpec
<1>2. GaugeSpec => []GaugeAddsUp
  <2>1. GaugeInit => GaugeInv
    BY ZeroSum DEF GaugeInit, GaugeInv
  <2>2. GaugeInv /\ [GaugeNext]_gaugeVars => GaugeInv'
    <3>1. SUFFICES ASSUME GaugeInv, [GaugeNext]_gaugeVars PROVE GaugeInv'
      OBVIOUS
    <3>2. value \in Int
      BY <3>1 DEF GaugeInv
    <3>3. ASSUME NEW a \in Attributes, Up(a) PROVE GaugeInv'
      BY <3>1, <3>2, <3>3, ShowsKeeps DEF Up
    <3>4. ASSUME NEW a \in Attributes, Down(a) PROVE GaugeInv'
      BY <3>1, <3>2, <3>4, ShowsKeeps DEF Down
    <3>5. ASSUME NEW a \in Attributes, NEW v \in 0..MaxGauge, SetGauge(a, v) PROVE GaugeInv'
      BY <3>1, <3>2, <3>5, ShowsKeeps DEF SetGauge
    <3>6. CASE UNCHANGED gaugeVars
      BY <3>1, <3>6 DEF GaugeInv, AllSeries, Adds, gaugeVars
    <3>7. QED
      BY <3>1, <3>3, <3>4, <3>5, <3>6 DEF GaugeNext
  <2>3. GaugeInv => GaugeAddsUp
    BY SeriesAdded DEF GaugeInv, GaugeAddsUp
  <2>4. QED
    BY <2>1, <2>2, <2>3, PTL DEF GaugeSpec
<1>3. ScoreSpec => []ScoreIsFresh
  <2>1. ScoreInit => ScoreInv
    BY SomeItems DEF ScoreInit, ScoreInv
  <2>2. ScoreInv /\ [ScoreNext]_scoreVars => ScoreInv'
    BY ScoreKeepsInv
  <2>3. QED
    BY <2>1, <2>2, ScoresAreFresh, PTL DEF ScoreSpec
<1>4. AuditSpec => []TrailIsComplete
  <2>1. AuditInit => AuditInv
    BY DEF AuditInit, AuditInv
  <2>2. AuditInv /\ [AuditNext]_auditVars => AuditInv'
    BY AuditKeepsInv
  <2>3. AuditInv => TrailIsComplete
    BY DEF AuditInv, TrailIsComplete, AuditTrail
  <2>4. QED
    BY <2>1, <2>2, <2>3, PTL DEF AuditSpec
<1>5. TraceSpec => []TraceSurvives
  <2>1. TraceInit => TraceInv
    BY DEF TraceInit, TraceInv, TraceSurvives
  <2>2. TraceInv /\ [TraceNext]_traceVars => TraceInv'
    BY TraceKeepsInv
  <2>3. TraceInv => TraceSurvives
    BY DEF TraceInv
  <2>4. QED
    BY <2>1, <2>2, <2>3, PTL DEF TraceSpec
<1>6. ContextSpec => []LinesFindTheirRequest
  <2>1. ContextInit => ContextInv
    <3>1. SUFFICES ASSUME ContextInit PROVE ContextInv
      OBVIOUS
    <3> DEFINE e == EmptyContext
               ids == <<"", "">>
    <3>2. Finds(e, ids) /\ e \in LogStores /\ ids \in Texts \X Texts
      BY EmptyFinds DEF Finds
    <3>3. contexts = [t \in Tasks |-> <<e>>] /\ own = [t \in Tasks |-> <<ids>>]
      BY <3>1 DEF ContextInit
    <3> HIDE DEF e, ids
    <3>4. /\ <<e>> \in Seq(LogStores) /\ Len(<<e>>) = 1 /\ <<e>>[1] = e /\ <<e>> # <<>>
          /\ <<ids>> \in Seq(Texts \X Texts) /\ Len(<<ids>>) = 1 /\ <<ids>>[1] = ids
      BY <3>2
    <3>5. QED
      BY <3>2, <3>3, <3>4 DEF ContextInv
  <2>2. ContextInv /\ [ContextNext]_contextVars => ContextInv'
    BY ContextKeepsInv
  <2>3. ContextInv => LinesFindTheirRequest
    BY HeadsFind DEF LinesFindTheirRequest, Finds
  <2>4. QED
    BY <2>1, <2>2, <2>3, PTL DEF ContextSpec
<1>7. QED
  BY <1>1, <1>2, <1>3, <1>4, <1>5, <1>6

TelemetrySpec == SloSpec /\ GaugeSpec /\ ScoreSpec /\ AuditSpec /\ TraceSpec /\ ContextSpec

(***************************************************************************)
(* For any objectives, windows, attributes, items, runs, events, services  *)
(* and tasks, what metrics, health score, audit trail, traces and log      *)
(* lines tell is what happened.                                            *)
(***************************************************************************)
THEOREM TelemetryStaysTrue == TelemetrySpec => []TelemetryIsTrue
<1>1. /\ StatusAgrees /\ PercentileIsOne /\ GaugeAddsUp /\ ScoreIsFresh
      /\ TrailIsComplete /\ TraceSurvives /\ LinesFindTheirRequest
      => TelemetryIsTrue
  BY DEF TelemetryIsTrue
<1>2. QED
  BY <1>1, TelemetryTells, PTL DEF TelemetrySpec
=============================================================================
