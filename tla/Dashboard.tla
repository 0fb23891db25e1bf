----------------------------- MODULE Dashboard -----------------------------
(***************************************************************************)
(* The operators' dashboard: the pages App mounts and the timers they      *)
(* poll with, DeliveryExplorer whose loads overlap and close over the      *)
(* filters of the render they were made in, and DLQManager with the two    *)
(* ways to retry an item.  Answers arrive in any order.  The service layer *)
(* hides every failure: it falls back to sample data, and a retry that     *)
(* failed twice is reported as a success.                                  *)
(***************************************************************************)
EXTENDS Integers, FiniteSets, FiniteSetsExt

CONSTANTS
    MaxMounts,      \* bound: pages mounted one after the other
    MaxPolls,       \* bound: requests of pages under way
    MaxLoads,       \* bound: loads of the explorer under way
    Failed,         \* deliveries in the dead letter queue
    MaxClicks,      \* bound: retries clicked
    MaxReloads      \* bound: reloads of the dead letter queue

ASSUME DashboardAssumption ==
    /\ MaxMounts \in Nat \ {0} /\ MaxPolls \in Nat \ {0}
    /\ MaxLoads \in Nat \ {0} /\ MaxClicks \in Nat /\ MaxReloads \in Nat

-----------------------------------------------------------------------------
(* App, Overview and WorkerMonitor *)

VARIABLES
    page, mount,    \* the current page and the number of its mount
    timers,         \* mounts whose interval timer is set
    polls,          \* requests under way: page, mount, number, answer
    shown,          \* what the page shows
    backend         \* what GET /health says; "down": it reports an outage or
                    \* does not answer

pageVars == <<page, mount, timers, polls, shown, backend>>

Pages == {"overview", "deliveries", "dlq", "workers"}
Polling == {"overview", "workers"}
BackendStatuses == {"healthy", "degraded", "down"}

NoAnswer == "none"
Loading == "loading"
SampleData == "sample"

PageInit ==
    /\ page = "overview" /\ mount = 1 /\ timers = {1}
    /\ polls = {[page |-> "overview", mount |-> 1, n |-> 1, answer |-> NoAnswer]}
    /\ shown = Loading /\ backend \in BackendStatuses

\* A number no request under way has.
Unused(requests, max) == (1..max) \ {q.n : q \in requests}
Asking(p, m) ==
    \E n \in Unused(polls, MaxPolls) :
        polls' = polls \cup {[page |-> p, mount |-> m, n |-> n, answer |-> NoAnswer]}

\* The clean-up of the old page's effect, the effect of the new one.
NextTimers(p) == (timers \ {mount}) \cup (IF p \in Polling THEN {mount + 1} ELSE {})

Mount(p) ==
    /\ mount < MaxMounts
    /\ page' = p /\ mount' = mount + 1
    /\ timers' = NextTimers(p)
    /\ shown' = Loading
    /\ Asking(p, mount + 1)
    /\ UNCHANGED backend

\* onPageChange; onRefresh mounts the page anew with the next key.
ChangePage == \E p \in Pages \ {page} : Mount(p)
RefreshPage == Mount(page)

PollTimer ==
    /\ \E m \in timers : Asking(page, m)
    /\ UNCHANGED <<page, mount, timers, shown, backend>>

\* getSystemHealth: only a degradation is told; an outage and a request that
\* failed look healthy.  The admin routes refuse the dashboard's requests:
\* beside the status the overview has samples, and getWorkers nothing else.
Told(said) == IF said = "degraded" THEN "degraded" ELSE "healthy"
Answer(q) == IF q.page = "overview" THEN Told(backend) ELSE SampleData

BackendAnswers(q) ==
    /\ q.answer = NoAnswer
    /\ polls' = (polls \ {q}) \cup {[q EXCEPT !.answer = Answer(q)]}
    /\ UNCHANGED <<page, mount, timers, shown, backend>>

\* Setting the state of a page that is gone does nothing.
Show(q) == IF q.mount = mount THEN q.answer ELSE shown

PollArrives(q) ==
    /\ q.answer # NoAnswer /\ polls' = polls \ {q}
    /\ shown' = Show(q)
    /\ UNCHANGED <<page, mount, timers, backend>>

BackendChanges ==
    /\ backend' \in BackendStatuses \ {backend}
    /\ UNCHANGED <<page, mount, timers, polls, shown>>

PollSettles(n) == \E q \in polls : q.n = n /\ (BackendAnswers(q) \/ PollArrives(q))

PageNext ==
    \/ ChangePage \/ RefreshPage \/ PollTimer \/ BackendChanges
    \/ \E n \in 1..MaxPolls : PollSettles(n)

(***************************************************************************)
(* However often the operator changes and refreshes pages, at most one     *)
(* timer polls, and it is the one of the page on the screen.               *)
(***************************************************************************)
OneTimerPolls == timers = IF page \in Polling THEN {mount} ELSE {}

(***************************************************************************)
(* An overview that is not left any more comes to show a degradation that  *)
(* lasts, and to show it no more once it has passed, although answers      *)
(* overtake each other.  An outage is shown as health.  The worker list    *)
(* comes to show its samples.                                              *)
(***************************************************************************)
PollingCatchesUp ==
    /\ \A s \in BackendStatuses : <>[](page = "overview" /\ backend = s) => <>[](shown = Told(s))
    /\ <>[](page = "workers") => <>[](shown = SampleData)

-----------------------------------------------------------------------------
(* DeliveryExplorer *)

VARIABLES
    filters,        \* the text and the status on the screen
    rowsOf,         \* the filters the rows on the screen were asked with
    spinning,       \* loading
    loads,          \* loads under way: number, filters
    retried,        \* the filters of the render Retry was clicked in
    typed,          \* history: the text was edited since the last load
    excused         \* history: loads overlapped, were for filters of an
                    \* earlier render, or filters were reset

explorerVars == <<filters, rowsOf, spinning, loads, retried, typed, excused>>

NoFilters == [text |-> "", status |-> "ALL"]
NoRetry == [text |-> "", status |-> "none"]

ExplorerInit ==
    /\ filters = NoFilters /\ rowsOf = NoFilters /\ spinning = TRUE
    /\ loads = {[n |-> 1, filters |-> NoFilters]}
    /\ retried = NoRetry /\ typed = FALSE /\ excused = FALSE

\* loadDeliveries, once for each of the filters in asked.
LoadDeliveries(asked) ==
    /\ \E f \in [asked -> Unused(loads, MaxLoads)] :
         /\ \A a, b \in asked : f[a] = f[b] => a = b
         /\ loads' = loads \cup {[n |-> f[a], filters |-> a] : a \in asked}
    /\ spinning' = TRUE /\ typed' = FALSE
    /\ UNCHANGED rowsOf

TypeText ==
    /\ filters.text = "" /\ filters' = [filters EXCEPT !.text = "some"] /\ typed' = TRUE
    /\ UNCHANGED <<rowsOf, spinning, loads, retried, excused>>

AskedStale(status) == filters
\* The effect on statusFilter runs in the render that has the new status.
AskedWith(status) == [filters EXCEPT !.status = status]

ChooseStatus(status) ==
    /\ status # filters.status
    /\ filters' = [filters EXCEPT !.status = status]
    /\ LoadDeliveries({AskedWith(status)})
    /\ excused' = (loads # {}) /\ UNCHANGED retried

\* Search and Refresh Table.
SearchDeliveries ==
    /\ LoadDeliveries({filters})
    /\ excused' = (loads # {}) /\ UNCHANGED <<filters, retried>>

\* The modal, which is one retry at a time, keeps the loadDeliveries of the
\* render Retry was clicked in: its success loads with that render's filters,
\* whether or not the modal was closed and the filters were changed.
ClickRetry ==
    /\ retried = NoRetry /\ retried' = filters
    /\ UNCHANGED <<filters, rowsOf, spinning, loads, typed, excused>>
OnRetrySuccess ==
    /\ retried # NoRetry /\ retried' = NoRetry
    /\ LoadDeliveries({retried})
    /\ excused' = (loads # {} \/ retried # filters) /\ UNCHANGED filters

\* The load of the handler still has the old filters; the effect loads with
\* the new ones only if the status changes.
HandleResetFilters ==
    /\ filters' = NoFilters
    /\ LoadDeliveries({filters} \cup IF filters.status = "ALL" THEN {} ELSE {NoFilters})
    /\ excused' = TRUE /\ UNCHANGED retried

LoadArrives(q) ==
    /\ rowsOf' = q.filters /\ spinning' = FALSE
    /\ loads' = loads \ {q}
    /\ UNCHANGED <<filters, retried, typed, excused>>

ExplorerNext ==
    \/ TypeText \/ SearchDeliveries \/ ClickRetry \/ OnRetrySuccess \/ HandleResetFilters
    \/ \E status \in {"ALL", "FAILED_DLQ"} : ChooseStatus(status)
    \/ \E q \in loads : LoadArrives(q)

(***************************************************************************)
(* When every load has arrived, the spinner is gone and the rows are the   *)
(* ones the filters on the screen ask for, except for a text that was not  *)
(* submitted.  Loads that overlap, the success of a retry after the        *)
(* filters have changed, and the reset of filters, which loads with the    *)
(* old ones, may leave other rows until the next load.                     *)
(***************************************************************************)
RowsMatchFilters ==
    loads = {} => ~spinning /\ (typed \/ excused \/ rowsOf = filters)

-----------------------------------------------------------------------------
(* DLQManager and DeliveryDetailModal *)

VARIABLES
    backlog,        \* what the backend has in the dead letter queue
    listed,         \* dlqItems
    retryingId,     \* the row whose button is disabled
    modal,          \* the delivery it is opened for, and its retrying flag
    posts,          \* retries under way
    fetches,        \* reloads under way: number, answer
    reloads,
    clicks, requeues, lost,
                    \* history, per delivery: retries clicked, requests that
                    \* took effect, and those of them that were not heard of
    disturbed       \* history: rows that saw another row's retry during theirs

dlqVars == <<backlog, listed, retryingId, modal, posts, fetches, reloads, clicks, requeues, lost, disturbed>>

Sample == {"sample"}
Listable == Failed \cup Sample
AllClicks == MapThenSumSet(LAMBDA i : clicks[i], Listable)

DlqInit ==
    /\ backlog = Failed /\ listed = {} /\ retryingId = "none"
    /\ modal = [open |-> "none", retrying |-> FALSE]
    /\ posts = {} /\ fetches = {[n |-> 0, answer |-> {}]} /\ reloads = 0
    /\ clicks = [i \in Listable |-> 0] /\ requeues = clicks /\ lost = clicks /\ disturbed = {}

FetchDLQ(k) == fetches' = fetches \cup {[n |-> k, answer |-> {}]}

Click(i, by) ==
    /\ AllClicks < MaxClicks
    /\ clicks' = [clicks EXCEPT ![i] = @ + 1]
    /\ posts' = posts \cup {[item |-> i, by |-> by, n |-> AllClicks + 1, at |-> "first"]}

\* The rows with a retry under way, other than i's.
RetriedRows(S) == {q.item : q \in {p \in S : p.by = "row"}}
OtherRows(i) == RetriedRows(posts) \ {i}

\* The button is disabled only for the row retried last.
HandleRetryItem(i) ==
    /\ i \in listed /\ retryingId # i
    /\ retryingId' = i /\ disturbed' = disturbed \cup OtherRows(i)
    /\ Click(i, "row")
    /\ UNCHANGED <<backlog, listed, modal, fetches, reloads, requeues, lost>>

OpenModal(i) ==
    /\ modal.open = "none" /\ i \in listed /\ modal' = [modal EXCEPT !.open = i]
    /\ UNCHANGED <<backlog, listed, retryingId, posts, fetches, reloads, clicks, requeues, lost, disturbed>>
\* Closed, the modal stays mounted and keeps its state.
CloseModal ==
    /\ modal.open # "none" /\ modal' = [modal EXCEPT !.open = "none"]
    /\ UNCHANGED <<backlog, listed, retryingId, posts, fetches, reloads, clicks, requeues, lost, disturbed>>
HandleRetry ==
    /\ modal.open # "none" /\ ~modal.retrying
    /\ modal' = [modal EXCEPT !.retrying = TRUE]
    /\ Click(modal.open, "modal")
    /\ UNCHANGED <<backlog, listed, retryingId, fetches, reloads, requeues, lost, disturbed>>

\* The backend requeues a delivery it has.
TakesEffect(i) ==
    /\ i \in Failed
    /\ requeues' = [requeues EXCEPT ![i] = @ + 1] /\ backlog' = backlog \ {i}

\* The second address is tried if the first one did not answer well.
NextPost(q, heard) == IF q.at = "first" /\ ~heard THEN "second" ELSE "answered"

\* retryDelivery.  Each request is answered, refused, or takes effect
\* without its answer getting through.
PostRetry(q) ==
    /\ q.at # "answered"
    /\ \E heard \in BOOLEAN :
         /\ posts' = (posts \ {q}) \cup {[q EXCEPT !.at = NextPost(q, heard)]}
         /\ \/ TakesEffect(q.item) /\ lost' = [lost EXCEPT ![q.item] = IF heard THEN @ ELSE @ + 1]
            \/ ~heard /\ UNCHANGED <<backlog, requeues, lost>>
    /\ UNCHANGED <<listed, retryingId, modal, fetches, reloads, clicks, disturbed>>

\* The handler reloads the list; its finally clause enables every row.
RetryReturns(q) ==
    /\ q.at = "answered" /\ posts' = posts \ {q}
    /\ FetchDLQ(q.n)
    /\ IF q.by = "row"
       THEN /\ retryingId' = "none" /\ UNCHANGED modal
            /\ disturbed' = (disturbed \cup OtherRows(q.item)) \ ({q.item} \ RetriedRows(posts \ {q}))
       ELSE /\ modal' = [modal EXCEPT !.retrying = FALSE] /\ UNCHANGED <<retryingId, disturbed>>
    /\ UNCHANGED <<backlog, listed, reloads, clicks, requeues, lost>>

\* A purge only takes the row from the screen.
HandleDeleteItem(i) ==
    /\ i \in listed /\ listed' = listed \ {i}
    /\ UNCHANGED <<backlog, retryingId, modal, posts, fetches, reloads, clicks, requeues, lost, disturbed>>

ReloadDLQ ==
    /\ reloads < MaxReloads /\ reloads' = reloads + 1
    /\ FetchDLQ(MaxClicks + reloads + 1)
    /\ UNCHANGED <<backlog, listed, retryingId, modal, posts, clicks, requeues, lost, disturbed>>

\* getDLQJobs: an empty queue and a failure give the sample.
GetDLQJobs == IF backlog = {} THEN {Sample} ELSE {backlog, Sample}
BacklogRead(q) ==
    /\ q.answer = {}
    /\ \E answer \in GetDLQJobs : fetches' = (fetches \ {q}) \cup {[q EXCEPT !.answer = answer]}
    /\ UNCHANGED <<backlog, listed, retryingId, modal, posts, reloads, clicks, requeues, lost, disturbed>>
FetchArrives(q) ==
    /\ q.answer # {} /\ listed' = q.answer /\ fetches' = fetches \ {q}
    /\ UNCHANGED <<backlog, retryingId, modal, posts, reloads, clicks, requeues, lost, disturbed>>

DlqNext ==
    \/ \E i \in Listable : HandleRetryItem(i) \/ OpenModal(i) \/ HandleDeleteItem(i)
    \/ CloseModal \/ HandleRetry \/ ReloadDLQ
    \/ \E q \in posts : PostRetry(q) \/ RetryReturns(q)
    \/ \E q \in fetches : BacklogRead(q) \/ FetchArrives(q)

(***************************************************************************)
(* A click requeues a delivery at most once, whether from its row or from  *)
(* the modal, unless the answer of a request that took effect was lost.    *)
(***************************************************************************)
OneRequeuePerClick == \A i \in Listable : requeues[i] <= clicks[i] + lost[i]

(***************************************************************************)
(* A row's delivery is not retried twice at a time, unless another row's   *)
(* retry began or ended during its own: then its button is enabled again.  *)
(***************************************************************************)
RowsRetryOneAtATime ==
    \A i \in Listable :
        Cardinality({q \in posts : q.item = i /\ q.by = "row"}) > 1 => i \in disturbed

(***************************************************************************)
(* The pages show what was asked for and do what was clicked, although     *)
(* answers arrive in any order.                                            *)
(***************************************************************************)
ScreensAreTrue ==
    /\ [](OneTimerPolls /\ RowsMatchFilters /\ OneRequeuePerClick /\ RowsRetryOneAtATime)
    /\ PollingCatchesUp
=============================================================================
