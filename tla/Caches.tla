------------------------------- MODULE Caches -------------------------------
(***************************************************************************)
(* What is kept in Redis and in the idempotency table for a time:          *)
(* CacheStore.getOrFetch beside writers of the source, and entries that    *)
(* are found expired and then removed by their key.  Between two commands  *)
(* of a caller the others run and time passes.                             *)
(***************************************************************************)
EXTENDS Naturals, FiniteSets, FiniteSetsExt

CONSTANTS
    Fetchers,       \* callers of getOrFetch
    CacheTtl,       \* ttlMs, in ticks
    MaxFlight,      \* ticks a fetch and the set after it may take
    MaxVersions,    \* bound: changes of the source
    Cleaners,       \* callers that remove what is expired
    EntryTtl,       \* ticks an entry is kept
    MaxFailures,    \* bound: rounds the store ends with an error
    MaxClock        \* bound: ticks

ASSUME CachesAssumption ==
    /\ CacheTtl \in Nat \ {0} /\ MaxFlight \in Nat /\ MaxVersions \in Nat \ {0}
    /\ EntryTtl \in Nat \ {0} /\ MaxClock \in Nat /\ MaxFailures \in Nat

-----------------------------------------------------------------------------
(* CacheStore *)

VARIABLES
    source,     \* version of what is cached
    outdated,   \* per version: ticks since a newer one replaced it
    cached,     \* the entry: its version and the ticks left, or Nothing
    fetcher,    \* per fetcher: what it holds and for how long
    served      \* history: the oldest thing getOrFetch has returned, in ticks

cacheVars == <<source, outdated, cached, fetcher, served>>

Nothing == [version |-> 0, left |-> 0]
Asleep == [at |-> "idle"]
Stalest == CacheTtl + MaxFlight

CacheInit ==
    /\ source = 1 /\ outdated = [v \in 1..MaxVersions |-> 0]
    /\ cached = Nothing
    /\ fetcher = [f \in Fetchers |-> Asleep]
    /\ served = 0

Serve(version) == served' = Max({served, outdated[version]})

\* The get of getOrFetch: a hit is returned.
Lookup(f) ==
    /\ fetcher[f] = Asleep
    /\ IF cached # Nothing THEN Serve(cached.version) /\ UNCHANGED fetcher
       ELSE fetcher' = [fetcher EXCEPT ![f] = [at |-> "fetch"]] /\ UNCHANGED served
    /\ UNCHANGED <<source, outdated, cached>>

\* fetcher(); a rejection is the caller's.
Fetch(f) ==
    /\ fetcher[f].at = "fetch"
    /\ \E to \in {Asleep, [at |-> "set", version |-> source, age |-> 0]} :
          fetcher' = [fetcher EXCEPT ![f] = to]
    /\ UNCHANGED <<source, outdated, cached, served>>

KeepForever(version) == [version |-> version, left |-> CacheTtl + Stalest]
\* The set of RedisOperations, with PX.
Keep(version) == [version |-> version, left |-> CacheTtl]

\* set; the value is returned after it, unless Redis refused.
Fill(f) ==
    /\ fetcher[f].at = "set"
    /\ \/ cached' = Keep(fetcher[f].version) /\ Serve(fetcher[f].version)
       \/ UNCHANGED <<cached, served>>
    /\ fetcher' = [fetcher EXCEPT ![f] = Asleep]
    /\ UNCHANGED <<source, outdated>>

\* delete and invalidatePattern
Invalidate ==
    /\ cached # Nothing /\ cached' = Nothing
    /\ UNCHANGED <<source, outdated, fetcher, served>>

SourceChanges ==
    /\ source < MaxVersions /\ source' = source + 1
    /\ UNCHANGED <<outdated, cached, fetcher, served>>

CacheTick ==
    /\ \A f \in Fetchers : fetcher[f].at = "set" => fetcher[f].age < MaxFlight
    /\ fetcher' = [f \in Fetchers |-> IF fetcher[f].at # "set" THEN fetcher[f]
                                      ELSE [fetcher[f] EXCEPT !.age = @ + 1]]
    /\ outdated' = [v \in 1..MaxVersions |->
                       IF v < source THEN Min({outdated[v] + 1, Stalest}) ELSE 0]
    /\ cached' = IF cached.left <= 1 THEN Nothing ELSE [cached EXCEPT !.left = @ - 1]
    /\ UNCHANGED <<source, served>>

CacheNext ==
    \/ \E f \in Fetchers : Lookup(f) \/ Fetch(f) \/ Fill(f)
    \/ Invalidate \/ SourceChanges \/ CacheTick

(***************************************************************************)
(* What getOrFetch returns was the truth no longer ago than the time to    *)
(* live and the time of one fetch.  Invalidating does not help: a fetch    *)
(* under way puts the old value back.                                      *)
(***************************************************************************)
StalenessIsBounded == served < Stalest

-----------------------------------------------------------------------------
(* Entries found expired, then removed *)

VARIABLES
    keeper,     \* "ttl": TTLManager, "table": IdempotencyCacheRepository
    clock,
    expires,    \* when the entry expires, 0 if there is none
    cleaner,    \* per cleaner: it has found the entry expired
    failures,   \* rounds ended by an error so far
    refreshed,  \* cleaners during whose work the entry was set again
    wronged     \* history: an entry was removed early with no set since it was found

entryVars == <<keeper, clock, expires, cleaner, failures, refreshed, wronged>>

EntryInit ==
    /\ keeper \in {"ttl", "table"}
    /\ clock = 1 /\ expires = 0
    /\ cleaner = [c \in Cleaners |-> "idle"]
    /\ failures = 0 /\ refreshed = {} /\ wronged = FALSE

\* schedule and extend, or set.
Put ==
    /\ expires' = clock + EntryTtl
    /\ refreshed' = {c \in Cleaners : cleaner[c] = "found"}
    /\ UNCHANGED <<keeper, clock, cleaner, failures, wronged>>

\* zrangebyscore up to now; expiresAt <= new Date().
Expired == expires # 0 /\ expires <= clock

\* The first query of cleanupExpired, or of findByCompositeKey.
Find(c) ==
    /\ cleaner[c] = "idle" /\ Expired
    /\ cleaner' = [cleaner EXCEPT ![c] = "found"]
    /\ refreshed' = refreshed \ {c}
    /\ UNCHANGED <<keeper, clock, expires, failures, wronged>>

\* By key alone.  Removing a row that is gone is an error of the reader, a
\* key that is gone none.
RemoveExpired(c) ==
    /\ cleaner[c] = "found"
    /\ cleaner' = [cleaner EXCEPT ![c] = "idle"]
    /\ expires' = 0
    /\ wronged' = (wronged \/ (expires > clock /\ c \notin refreshed))
    /\ UNCHANGED <<keeper, clock, failures, refreshed>>

\* An error of the store ends the round.
RemoveFails(c) ==
    /\ cleaner[c] = "found"
    /\ failures < MaxFailures /\ failures' = failures + 1
    /\ cleaner' = [cleaner EXCEPT ![c] = "idle"]
    /\ UNCHANGED <<keeper, clock, expires, refreshed, wronged>>

\* deleteExpired removes what is expired in one statement.
DeleteExpired ==
    /\ keeper = "table" /\ Expired
    /\ expires' = 0
    /\ UNCHANGED <<keeper, clock, cleaner, failures, refreshed, wronged>>

EntryTick ==
    /\ clock < MaxClock /\ clock' = clock + 1
    /\ UNCHANGED <<keeper, expires, cleaner, failures, refreshed, wronged>>

Sweep(c) == keeper = "ttl" /\ (Find(c) \/ RemoveExpired(c))

EntryNext ==
    \/ Put \/ DeleteExpired \/ EntryTick
    \/ \E c \in Cleaners : Find(c) \/ RemoveExpired(c) \/ RemoveFails(c)

(***************************************************************************)
(* An entry is removed before its time only by a caller that found it      *)
(* expired before it was set again; with no one looking when it is set, it *)
(* stays for its time.                                                     *)
(***************************************************************************)
EntriesStay == ~wronged

(***************************************************************************)
(* A key TTLManager tracks goes when its time is over: the sweep comes     *)
(* back every 30 s, and only so many of its rounds fail.                   *)
(***************************************************************************)
ExpiredEntriesGo == keeper = "ttl" /\ Expired ~> ~Expired

(***************************************************************************)
(* Values and entries are kept for their time: no value much longer, no    *)
(* entry for less, and none for ever.                                      *)
(***************************************************************************)
CachesKeepTime ==
    /\ [](StalenessIsBounded /\ EntriesStay)
    /\ ExpiredEntriesGo
=============================================================================
