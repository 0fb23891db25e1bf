---------------------------- MODULE Credentials ----------------------------
(***************************************************************************)
(* Five parts of the security module: TokenManager with its revocations in *)
(* memory and in Redis, HmacVerifier with the window for timestamps and    *)
(* the memory of seen signatures, SecretsManager with its cache, the tables *)
(* of roles and permissions, and ApiKeyStrategy.  Each check is a few      *)
(* commands to Redis between which time passes and others act.             *)
(***************************************************************************)
EXTENDS Naturals, FiniteSets, FiniteSetsExt

CONSTANTS
    Servers,        \* processes
    TokenCalls,     \* calls that use, revoke or refresh the token
    TokenLife,      \* seconds until it expires
    EarlyBy,        \* a refresh with more than this left returns the token
    Verifications,  \* calls of HmacVerifier.verify for one signature
    MaxAge,         \* seconds a timestamp is accepted, and a signature kept
    MaxCheck,       \* bound: ticks a verification takes
    LastSecond,     \* bound: the clock
    SecretTtl,      \* ticks a secret is cached in a process
    SharedTtl,      \* ticks a secret is kept in Redis
    MaxRead,        \* bound: ticks a command to Redis takes
    MaxRotations    \* bound: values of the secret

ASSUME CredentialsAssumption ==
    /\ TokenLife \in Nat \ {0} /\ EarlyBy \in Nat /\ MaxAge \in Nat \ {0} /\ LastSecond \in Nat
    /\ MaxCheck \in Nat /\ SharedTtl \in Nat \ {0}
    /\ SecretTtl \in Nat \ {0} /\ MaxRead \in Nat /\ MaxRotations \in Nat \ {0}

-----------------------------------------------------------------------------
(* TokenManager, on a Redis client that has setex and exists *)

VARIABLES
    second,         \* the clock; the token was issued at 0
    blacklist,      \* servers whose inMemoryBlacklist holds the token
    entryUntil,     \* when the entry in Redis expires, 0 if there is none
    tokenCall,      \* per call: what it does and where
    revoked,        \* history: a revokeToken has resolved
    unseen,         \* history: isTokenRevoked could not ask Redis
    exchanged,      \* history: pairs issued for the token, counted to 2
    together,       \* history: two refreshes were under way together
    wrongly         \* history: the token passed a check begun when it was revoked

tokenVars ==
    <<second, blacklist, entryUntil, tokenCall, revoked, unseen, exchanged, together, wrongly>>

NotCalled == [at |-> "none"]
TokenInit ==
    /\ second = 0 /\ blacklist = {} /\ entryUntil = 0
    /\ tokenCall = [c \in TokenCalls |-> NotCalled]
    /\ revoked = FALSE /\ unseen = FALSE /\ exchanged = 0 /\ together = FALSE /\ wrongly = FALSE

Calling(c, to) == tokenCall' = [tokenCall EXCEPT ![c] = to]
Refreshing(c) == tokenCall[c] # NotCalled /\ tokenCall[c].kind = "refresh"

BeginCall(c, kind, s) ==
    /\ tokenCall[c] = NotCalled
    /\ Calling(c, [at |-> IF kind = "revoke" THEN "revoke" ELSE "ask", kind |-> kind, server |-> s,
                   late |-> revoked])
    /\ together' = (together \/ (kind = "refresh" /\ \E d \in TokenCalls : Refreshing(d)))
    /\ UNCHANGED <<second, blacklist, entryUntil, revoked, unseen, exchanged, wrongly>>

Listed(s) == s \in blacklist \/ entryUntil > second

\* isTokenRevoked; an error of Redis counts as no.
IsTokenRevoked(c) ==
    /\ tokenCall[c].at = "ask"
    /\ \/ /\ Calling(c, IF Listed(tokenCall[c].server) THEN NotCalled
                        ELSE [tokenCall[c] EXCEPT !.at = "verify"])
          /\ UNCHANGED unseen
       \/ /\ tokenCall[c].server \notin blacklist
          /\ Calling(c, [tokenCall[c] EXCEPT !.at = "verify"])
          /\ unseen' = TRUE
    /\ UNCHANGED <<second, blacklist, entryUntil, revoked, exchanged, together, wrongly>>

\* JwtStrategy.verifyToken accepts the token, decodeToken tells its exp.
JwtValid == second < TokenLife
TimeLeft == TokenLife - second

\* A refresh with enough time left hands the token back.
VerifyToken(c) ==
    /\ tokenCall[c].at = "verify"
    /\ IF ~JwtValid THEN Calling(c, NotCalled) /\ UNCHANGED wrongly
       ELSE /\ wrongly' = (wrongly \/ tokenCall[c].late)
            /\ Calling(c, IF tokenCall[c].kind = "refresh" /\ TimeLeft <= EarlyBy
                          THEN [tokenCall[c] EXCEPT !.at = "revoke"] ELSE NotCalled)
    /\ UNCHANGED <<second, blacklist, entryUntil, revoked, unseen, exchanged, together>>

EntryShort == second + 1
\* ttlSec = max(1, exp - now)
EntryExpiry == second + Max({1, TimeLeft})

\* revokeToken: the list of the process, then setex, whose error rejects.
RevokeToken(c) ==
    /\ tokenCall[c].at = "revoke"
    /\ blacklist' = blacklist \cup {tokenCall[c].server}
    /\ \/ /\ entryUntil' = EntryExpiry /\ revoked' = TRUE
          /\ Calling(c, IF Refreshing(c) THEN [tokenCall[c] EXCEPT !.at = "issue"] ELSE NotCalled)
       \/ /\ Calling(c, NotCalled) /\ UNCHANGED <<entryUntil, revoked>>
    /\ UNCHANGED <<second, unseen, exchanged, together, wrongly>>

IssueTokens(c) ==
    /\ tokenCall[c].at = "issue"
    /\ exchanged' = Min({exchanged + 1, 2})
    /\ Calling(c, NotCalled)
    /\ UNCHANGED <<second, blacklist, entryUntil, revoked, unseen, together, wrongly>>

RestartServer(s) ==
    /\ s \in blacklist /\ blacklist' = blacklist \ {s}
    /\ tokenCall' = [c \in TokenCalls |->
           IF tokenCall[c] # NotCalled /\ tokenCall[c].server = s THEN NotCalled ELSE tokenCall[c]]
    /\ UNCHANGED <<second, entryUntil, revoked, unseen, exchanged, together, wrongly>>

TokenTick ==
    /\ second < LastSecond /\ second' = second + 1
    /\ UNCHANGED <<blacklist, entryUntil, tokenCall, revoked, unseen, exchanged, together, wrongly>>

TokenNext ==
    \/ \E c \in TokenCalls :
          \/ \E kind \in {"use", "refresh", "revoke"}, s \in Servers : BeginCall(c, kind, s)
          \/ IsTokenRevoked(c) \/ VerifyToken(c) \/ RevokeToken(c) \/ IssueTokens(c)
    \/ TokenTick \/ \E s \in Servers : RestartServer(s)

TokenSpec == TokenInit /\ [][TokenNext]_tokenVars

(***************************************************************************)
(* Once revokeToken has resolved in one process no process accepts the     *)
(* token any more, after restarts too and up to the second in which the    *)
(* entry and the token expire, as long as Redis answers.                   *)
(***************************************************************************)
RevokedStaysRevoked == ~unseen => ~wrongly

(***************************************************************************)
(* A refresh token is exchanged for a new pair once, if its refreshes      *)
(* follow each other and Redis answers; two at a time exchange it twice.   *)
(***************************************************************************)
ExchangedOnce == ~unseen /\ ~together => exchanged <= 1

-----------------------------------------------------------------------------
(* HmacVerifier.verifyLegacy *)

VARIABLES
    time,           \* the verifier's clock
    stamp,          \* the timestamp of the signature
    seenUntil,      \* when seen_sig expires, 0 if there is none
    verification,   \* per call: where it is and for how long
    accepted,       \* history: how often the signature was accepted, counted to 2
    crossed         \* history: two verifications were under way together

signVars == <<time, stamp, seenUntil, verification, accepted, crossed>>

NotVerifying == [at |-> "idle", age |-> 0]

\* The signature arrives at MaxAge; its timestamp is before or after that.
SignInit ==
    /\ time = MaxAge /\ stamp \in 0..(2 * MaxAge)
    /\ seenUntil = 0
    /\ verification = [v \in Verifications |-> NotVerifying]
    /\ accepted = 0 /\ crossed = FALSE

IsReplayAttack == (IF time > stamp THEN time - stamp ELSE stamp - time) > MaxAge
Verifying(v, to) ==
    verification' = [verification EXCEPT
        ![v] = IF to = "idle" THEN NotVerifying ELSE [at |-> to, age |-> @.age]]

\* Window and signature.
Verify(v) ==
    /\ verification[v].at = "idle" /\ ~IsReplayAttack
    /\ crossed' = (crossed \/ \E w \in Verifications : verification[w].at # "idle")
    /\ Verifying(v, "ask")
    /\ UNCHANGED <<time, stamp, seenUntil, accepted>>

\* exists; an error rejects.
SeenBefore(v) ==
    /\ verification[v].at = "ask"
    /\ \E to \in {IF seenUntil > time THEN "idle" ELSE "note", "idle"} : Verifying(v, to)
    /\ UNCHANGED <<time, stamp, seenUntil, accepted, crossed>>

SeenExpiry == time + MaxAge

\* setex; an error rejects.
NoteSeen(v) ==
    /\ verification[v].at = "note"
    /\ Verifying(v, "idle")
    /\ \/ seenUntil' = SeenExpiry /\ accepted' = Min({accepted + 1, 2})
       \/ UNCHANGED <<seenUntil, accepted>>
    /\ UNCHANGED <<time, stamp, crossed>>

SignTick ==
    /\ time < 4 * MaxAge /\ time' = time + 1
    /\ \A v \in Verifications : verification[v].age < MaxCheck
    /\ verification' = [v \in Verifications |->
           IF verification[v] = NotVerifying THEN NotVerifying
           ELSE [verification[v] EXCEPT !.age = @ + 1]]
    /\ UNCHANGED <<stamp, seenUntil, accepted, crossed>>

SignNext == SignTick \/ \E v \in Verifications : Verify(v) \/ SeenBefore(v) \/ NoteSeen(v)
SignSpec == SignInit /\ [][SignNext]_signVars

(***************************************************************************)
(* A signature is accepted once, to the last tick of its window, if the    *)
(* verifications follow each other and each takes less time than the       *)
(* signature took from its timestamp to the verifier.                      *)
(***************************************************************************)
SignaturesAreUsedOnce == ~crossed /\ stamp + MaxCheck < MaxAge => accepted <= 1

-----------------------------------------------------------------------------
(* SecretsManager: getSecret, setSecret and rotateSecret of one key *)

VARIABLES
    environment,    \* per server: the value in process.env
    remembered,     \* per server: the cached value and the ticks left
    shared,         \* the value in Redis and the ticks left
    reading,        \* per server: what a getSecret has read from Redis
    writing,        \* per server: what a setSecret is writing to Redis
    own,            \* history, per server: the value it set last
    settled,        \* history, per server: ticks since then
    stale           \* history: a server got a value older than its own, late

secretVars == <<environment, remembered, shared, reading, writing, own, settled, stale>>

NotKept == [value |-> 0, left |-> 0]
NotBusy == [value |-> 0, age |-> 0]

\* A write that was begun before, what it keeps in Redis, a read of that,
\* and what the read keeps in the process.
LateBy == MaxRead + SharedTtl + MaxRead + SecretTtl

SecretInit ==
    /\ environment = [s \in Servers |-> 1] /\ own = [s \in Servers |-> 1]
    /\ remembered = [s \in Servers |-> NotKept] /\ shared = NotKept
    /\ reading = [s \in Servers |-> NotBusy] /\ writing = [s \in Servers |-> NotBusy]
    /\ settled = [s \in Servers |-> LateBy] /\ stale = FALSE

Got(s, value) == stale' = (stale \/ (value < own[s] /\ settled[s] >= LateBy))
CacheSecret(s, value) == remembered' = [remembered EXCEPT ![s] = [value |-> value, left |-> SecretTtl]]

\* getSecret: the cache, the read of Redis or, without an answer, process.env.
GetSecret(s) ==
    /\ reading[s] = NotBusy
    /\ IF remembered[s] # NotKept THEN Got(s, remembered[s].value) /\ UNCHANGED <<reading, remembered>>
       ELSE \/ /\ shared # NotKept
               /\ reading' = [reading EXCEPT ![s] = [value |-> shared.value, age |-> 0]]
               /\ UNCHANGED <<remembered, stale>>
            \/ /\ Got(s, environment[s]) /\ CacheSecret(s, environment[s]) /\ UNCHANGED reading
    /\ UNCHANGED <<environment, shared, writing, own, settled>>

GotFromRedis(s) ==
    /\ reading[s] # NotBusy
    /\ Got(s, reading[s].value) /\ CacheSecret(s, reading[s].value)
    /\ reading' = [reading EXCEPT ![s] = NotBusy]
    /\ UNCHANGED <<environment, shared, writing, own, settled>>

Newest == Max({own[s] : s \in Servers}) + 1

\* setSecret and rotateSecret: the cache and process.env at once.
SetSecret(s) ==
    /\ Newest <= MaxRotations /\ writing[s] = NotBusy
    /\ CacheSecret(s, Newest) /\ environment' = [environment EXCEPT ![s] = Newest]
    /\ own' = [own EXCEPT ![s] = Newest] /\ settled' = [settled EXCEPT ![s] = 0]
    /\ writing' = [writing EXCEPT ![s] = [value |-> Newest, age |-> 0]]
    /\ UNCHANGED <<shared, reading, stale>>

\* Then Redis, whose error is swallowed.
SecretWritten(s) ==
    /\ writing[s] # NotBusy
    /\ shared' \in {[value |-> writing[s].value, left |-> SharedTtl], shared}
    /\ writing' = [writing EXCEPT ![s] = NotBusy]
    /\ UNCHANGED <<environment, remembered, reading, own, settled, stale>>

Older(kept) == IF kept.left <= 1 THEN NotKept ELSE [kept EXCEPT !.left = @ - 1]
Longer(command) == IF command = NotBusy THEN NotBusy ELSE [command EXCEPT !.age = @ + 1]

SecretTick ==
    /\ \A s \in Servers : reading[s].age < MaxRead /\ writing[s].age < MaxRead
    /\ reading' = [s \in Servers |-> Longer(reading[s])]
    /\ writing' = [s \in Servers |-> Longer(writing[s])]
    /\ remembered' = [s \in Servers |-> Older(remembered[s])] /\ shared' = Older(shared)
    /\ settled' = [s \in Servers |-> Min({settled[s] + 1, LateBy})]
    /\ UNCHANGED <<environment, own, stale>>

SecretNext ==
    \/ \E s \in Servers : GetSecret(s) \/ GotFromRedis(s) \/ SetSecret(s) \/ SecretWritten(s)
    \/ SecretTick

SecretSpec == SecretInit /\ [][SecretNext]_secretVars

(***************************************************************************)
(* A process that has set a secret gets that value or a newer one again,   *)
(* at the latest when what was written and read before is kept no more,    *)
(* whether its own write reached Redis or not.                             *)
(***************************************************************************)
RotationsSettle == ~stale

-----------------------------------------------------------------------------
(* Roles and permissions *)

VARIABLES context       \* an AuthContext: its roles and permissions

Roles == {"ADMIN", "DEVELOPER", "SERVICE", "VIEWER", "USER"}
Permissions == {"READ", "WRITE", "DELETE", "ADMIN", "VIEW_LOGS", "MANAGE_USERS"}

\* ROLE_PERMISSIONS_MAP
RolePermissionsMap ==
    [ADMIN |-> Permissions, DEVELOPER |-> {"READ", "WRITE", "DELETE", "VIEW_LOGS"},
     SERVICE |-> {"READ", "WRITE"}, VIEWER |-> {"READ"}]

\* getRolePermissions: a role that is not in the table may read.
RolePermissions(role) ==
    IF role \in DOMAIN RolePermissionsMap THEN RolePermissionsMap[role] ELSE {"READ"}

ContextInit == context \in [roles : SUBSET Roles, permissions : SUBSET Permissions]

\* AuthContextImpl.hasRole and hasPermission, which AuthGuard requires.
HasRole(role) == role \in context.roles \/ "ADMIN" \in context.roles
ContextPermits(p) == p \in context.permissions \/ "ADMIN" \in context.roles

\* PermissionChecker
HasPermission(p) == ContextPermits(p) \/ \E r \in context.roles : p \in RolePermissions(r)
CanViewDelivery == HasRole("DEVELOPER") \/ ContextPermits("READ")
CanModifyDestination == HasRole("DEVELOPER") \/ ContextPermits("WRITE")
CanViewAuditLog == HasRole("ADMIN") \/ ContextPermits("VIEW_LOGS") \/ ContextPermits("ADMIN")

(***************************************************************************)
(* What AuthGuard and the special checks of PermissionChecker allow, its   *)
(* general check allows too: the tables of roles and the roles written     *)
(* into the checks agree.                                                  *)
(***************************************************************************)
ChecksAgree ==
    /\ \A p \in Permissions : ContextPermits(p) => HasPermission(p)
    /\ CanViewDelivery => HasPermission("READ")
    /\ CanModifyDestination => HasPermission("WRITE")
    /\ CanViewAuditLog => HasPermission("VIEW_LOGS") \/ HasPermission("ADMIN")

-----------------------------------------------------------------------------
(* ApiKeyStrategy behind AuthGuard, for one well-formed key.  The security *)
(* module wires it with neither cache nor repository ("module"); with a    *)
(* cache, a revocation is written there too and outlives the process.      *)

VARIABLES
    keyWiring,      \* "module" or "cached"
    keyRecord,      \* what the repository holds of the key
    keyEntry,       \* what the cache holds of the key
    revokedKeys,    \* servers whose set of revoked keys has it
    revoking,       \* per server: where its revokeApiKey stands
    keyCall         \* per request: where it stands

keyVars == <<keyWiring, keyRecord, keyEntry, revokedKeys, revoking, keyCall>>

KeyInit ==
    /\ keyWiring \in {"module", "cached"}
    /\ keyRecord \in IF keyWiring = "module" THEN {"absent"} ELSE {"absent", "enabled", "disabled"}
    /\ keyEntry \in IF keyWiring = "module" THEN {"none"} ELSE {"none", "active"}
    /\ revokedKeys = {}
    /\ revoking = [s \in Servers |-> "no"]
    /\ keyCall = [c \in TokenCalls |-> NotCalled]

Asking(c, at) == keyCall[c].at = at
Ends(c, result) == keyCall' = [keyCall EXCEPT ![c].at = result]

\* The revocation is known where it must be: in this process, or in the cache.
KeyIsOut(s) ==
    s \in revokedKeys \/ (keyWiring = "cached" /\ \E t \in Servers : revoking[t] = "done")

\* authenticate without a bearer token, up to the first await.
AuthenticateKey(c, s) ==
    /\ keyCall[c] = NotCalled
    /\ keyCall' = [keyCall EXCEPT ![c] =
           [at |-> IF s \in revokedKeys THEN "refused" ELSE IF keyWiring = "cached" THEN "cache" ELSE "record",
            server |-> s, late |-> KeyIsOut(s)]]
    /\ UNCHANGED <<keyWiring, keyRecord, keyEntry, revokedKeys, revoking>>

\* A get that fails rejects the validation.
ReadKeyEntry(c) ==
    /\ Asking(c, "cache")
    /\ \/ Ends(c, [none |-> "record", active |-> "accepted", revoked |-> "refused"][keyEntry])
       \/ Ends(c, "refused")
    /\ UNCHANGED <<keyWiring, keyRecord, keyEntry, revokedKeys, revoking>>

\* A key without a record is given the record of the default service.
FindByKeyHash(c) ==
    /\ Asking(c, "record")
    /\ Ends(c, IF keyRecord = "disabled" THEN "refused" ELSE "accepted")
    /\ UNCHANGED <<keyWiring, keyRecord, keyEntry, revokedKeys, revoking>>

RevokeApiKey(s) ==
    /\ revoking[s] = "no"
    /\ revokedKeys' = revokedKeys \cup {s}
    /\ revoking' = [revoking EXCEPT ![s] = IF keyWiring = "cached" THEN "write" ELSE "done"]
    /\ UNCHANGED <<keyWiring, keyRecord, keyEntry, keyCall>>

WriteRevoked(s) ==
    /\ revoking[s] = "write"
    /\ \/ keyEntry' = "revoked" /\ revoking' = [revoking EXCEPT ![s] = "done"]
       \/ revoking' = [revoking EXCEPT ![s] = "threw"] /\ UNCHANGED keyEntry
    /\ UNCHANGED <<keyWiring, keyRecord, revokedKeys, keyCall>>

\* A restart forgets what was kept in memory.
ServerRestarts(s) ==
    /\ s \in revokedKeys
    /\ revokedKeys' = revokedKeys \ {s}
    /\ revoking' = [revoking EXCEPT ![s] = IF @ = "write" THEN "threw" ELSE @]
    /\ keyCall' = [c \in TokenCalls |->
           IF keyCall[c] # NotCalled /\ keyCall[c].server = s THEN NotCalled ELSE keyCall[c]]
    /\ UNCHANGED <<keyWiring, keyRecord, keyEntry>>

KeyNext ==
    \/ \E c \in TokenCalls : (\E s \in Servers : AuthenticateKey(c, s)) \/ ReadKeyEntry(c) \/ FindByKeyHash(c)
    \/ \E s \in Servers : RevokeApiKey(s) \/ WriteRevoked(s) \/ ServerRestarts(s)

KeySpec == KeyInit /\ [][KeyNext]_keyVars

(***************************************************************************)
(* Once revokeApiKey has returned, a request that begins later is refused: *)
(* in every process, and after restarts, if there is a cache, and in the   *)
(* process that revoked the key otherwise (validateApiKey).                *)
(***************************************************************************)
RevokedKeysAreRefused ==
    \A c \in TokenCalls : Asking(c, "accepted") => ~keyCall[c].late

\* The context of a request is made once and not changed.
ContextSpec == ContextInit /\ [][FALSE]_context

CredentialsSpec == TokenSpec /\ SignSpec /\ SecretSpec /\ KeySpec /\ ContextSpec

(***************************************************************************)
(* What was withdrawn or used up is refused from then on: tokens,          *)
(* signatures, rotated secrets and API keys; and the checks of permissions *)
(* agree.                                                                  *)
(***************************************************************************)
CredentialsHold ==
    /\ RevokedStaysRevoked
    /\ ExchangedOnce
    /\ SignaturesAreUsedOnce
    /\ RotationsSettle
    /\ RevokedKeysAreRefused
    /\ ChecksAgree
=============================================================================
