---------------------------- MODULE MCResources ----------------------------
(* The slots of a bulkhead, transactions, attempts, pages, caches and      *)
(* entries with an expiry share no state: each is explored in executions   *)
(* of its own.                                                             *)
EXTENDS Bulkhead, Records, AttemptHistory, Caches

VARIABLE part

Parts == {"slots", "tx", "attempt", "page", "cache", "entry"}

resourceVars == <<part, vars, txVars, attemptVars, pageVars, cacheVars, entryVars>>

ResourceInit ==
    /\ part \in Parts
    /\ Init /\ TxInit /\ AttemptInit /\ PageInit /\ CacheInit /\ EntryInit
    /\ part # "tx" => present = {}
    /\ part # "entry" => keeper = "ttl"

Only(p) ==
    /\ part = p /\ UNCHANGED part
    /\ p # "slots" => UNCHANGED vars
    /\ p # "tx" => UNCHANGED txVars
    /\ p # "attempt" => UNCHANGED attemptVars
    /\ p # "page" => UNCHANGED pageVars
    /\ p # "cache" => UNCHANGED cacheVars
    /\ p # "entry" => UNCHANGED entryVars

ResourceNext ==
    \/ Only("slots") /\ Next
    \/ Only("tx") /\ TxNext
    \/ Only("attempt") /\ AttemptNext
    \/ Only("page") /\ PageNext
    \/ Only("cache") /\ CacheNext
    \/ Only("entry") /\ EntryNext

\* Continuations run and fn settles (see Bulkhead), the database goes on with
\* a transaction, and the sweep comes back.
ResourceSpec ==
    /\ ResourceInit /\ [][ResourceNext]_resourceVars
    /\ \A c \in ExecCallers :
         /\ WF_resourceVars(Only("slots") /\ ResumeExecute(c))
         /\ WF_resourceVars(Only("slots") /\ FinishExecute(c))
    /\ \A c \in TicketCallers :
         /\ WF_resourceVars(Only("slots") /\ ResumeTicket(c))
         /\ WF_resourceVars(Only("slots") /\ ReleaseTicket(c))
    /\ \A c \in Writers : WF_resourceVars(Only("tx") /\ TxStep(c))
    /\ \A c \in Cleaners : WF_resourceVars(Only("entry") /\ Sweep(c))
=============================================================================
