--------------------------- MODULE AttemptHistory ---------------------------
(***************************************************************************)
(* The attempts of a delivery: who records one first reads how many there  *)
(* are, then inserts the row, then sets retryCount, in three statements    *)
(* that nothing holds together.  The list is read in pages with a count    *)
(* of its own, newest first, while rows come and retention deletes some.   *)
(***************************************************************************)
EXTENDS Naturals, Sequences, SequencesExt, FiniteSets, FiniteSetsExt

CONSTANTS
    Recorders,      \* calls that record an attempt
    MaxAttempts,    \* bound: attempts recorded
    PageSize,       \* limit of findMany
    MaxRows         \* bound: rows ever inserted in a list

ASSUME HistoryAssumption == MaxAttempts \in Nat /\ PageSize \in Nat \ {0} /\ MaxRows \in Nat

VARIABLES
    numbers,        \* the attempt numbers of the rows, oldest first
    retryCount,     \* of the delivery
    recording,      \* per recorder: the number it will write and what is next
    mixed,          \* history: two recorders were under way together
    torn,           \* history: a recorder ended between its two writes
    newest, oldest, \* rows of a list, known by the order of their insertion
    walk,           \* the reader of its pages
    shrunk          \* history: rows were deleted during the walk

attemptVars == <<numbers, retryCount, recording, mixed, torn>>
pageVars == <<newest, oldest, walk, shrunk>>

Idle == [at |-> "idle"]
NoWalk == [at |-> "none"]

AttemptInit ==
    /\ numbers = <<>> /\ retryCount = 0
    /\ recording = [k \in Recorders |-> Idle]
    /\ mixed = FALSE /\ torn = FALSE

Busy(k) == recording[k] # Idle
Turns(k, to) == recording' = [recording EXCEPT ![k] = to]

-----------------------------------------------------------------------------
(* Recording *)

LastAgain(path) == IF path = "recorder" THEN Len(numbers) ELSE retryCount + 1
\* AttemptRecorder counts the rows of findByDeliveryId; the repository's
\* own recordAttempt takes the delivery's retryCount.
NextNumber(path) == IF path = "recorder" THEN Len(numbers) + 1 ELSE retryCount + 1

ReadLast(k, path) ==
    /\ ~Busy(k) /\ Len(numbers) < MaxAttempts
    /\ mixed' = (mixed \/ \E j \in Recorders : Busy(j))
    /\ Turns(k, [at |-> "insert", path |-> path, number |-> NextNumber(path)])
    /\ UNCHANGED <<numbers, retryCount, torn>>

\* A status out of range is refused and a failed insert ends the call.
Insert(k) ==
    /\ recording[k].at = "insert" /\ Len(numbers) < MaxAttempts
    /\ \/ numbers' = Append(numbers, recording[k].number) /\ Turns(k, [recording[k] EXCEPT !.at = "count"])
       \/ Turns(k, Idle) /\ UNCHANGED numbers
    /\ UNCHANGED <<retryCount, mixed, torn>>

\* The update of the delivery; AttemptRecorder swallows an error of it.
SetRetryCount(k) ==
    /\ recording[k].at = "count"
    /\ Turns(k, Idle)
    /\ \/ retryCount' = recording[k].number /\ UNCHANGED torn
       \/ torn' = TRUE /\ UNCHANGED retryCount
    /\ UNCHANGED <<numbers, mixed>>

AttemptNext ==
    \E k \in Recorders :
        \/ \E path \in {"recorder", "repository"} : ReadLast(k, path)
        \/ Insert(k) \/ SetRetryCount(k)

AttemptSpec == AttemptInit /\ [][AttemptNext]_attemptVars

-----------------------------------------------------------------------------
(* Reading pages *)

PageInit == newest = 0 /\ oldest = 1 /\ walk = NoWalk /\ shrunk = FALSE

RowArrives ==
    /\ newest < MaxRows /\ newest' = newest + 1
    /\ UNCHANGED <<oldest, walk, shrunk>>

\* deleteOlderThan, purgeOlderThan
Retention ==
    /\ oldest <= newest /\ oldest' = oldest + 1
    /\ shrunk' = (walk # NoWalk)
    /\ UNCHANGED <<newest, walk>>

SkipPastPage(page) == page * PageSize
\* (page - 1) * take
SkipOf(page) == (page - 1) * PageSize
Page(page) ==
    {r \in oldest..newest : newest - r >= SkipOf(page) /\ newest - r < SkipOf(page) + PageSize}

BeginWalk ==
    /\ walk = NoWalk
    /\ walk' = [at |-> "rows", page |-> 1, seen |-> {}, length |-> 0, began |-> oldest..newest]
    /\ UNCHANGED <<newest, oldest, shrunk>>

\* findMany of a page
ReadRows ==
    /\ walk.at = "rows"
    /\ walk' = [walk EXCEPT !.at = "count", !.seen = @ \cup Page(walk.page),
                            !.length = Cardinality(Page(walk.page))]
    /\ UNCHANGED <<newest, oldest, shrunk>>

\* count, and hasMore = skip + records.length < total
ReadTotal ==
    /\ walk.at = "count"
    /\ walk' = IF SkipOf(walk.page) + walk.length < Cardinality(oldest..newest)
               THEN [walk EXCEPT !.at = "rows", !.page = @ + 1, !.length = 0]
               ELSE [walk EXCEPT !.at = "end", !.length = 0]
    /\ UNCHANGED <<newest, oldest, shrunk>>

PageNext == RowArrives \/ Retention \/ BeginWalk \/ ReadRows \/ ReadTotal

PageSpec == PageInit /\ [][PageNext]_pageVars

-----------------------------------------------------------------------------
(* Properties *)

(***************************************************************************)
(* However recorders interleave and whichever of their writes fail, an     *)
(* attempt's number is no larger than its place among the rows, and        *)
(* retryCount than the number of rows: no attempt is claimed that was not  *)
(* made.                                                                   *)
(***************************************************************************)
NumbersNeverRunAhead ==
    /\ \A i \in 1..Len(numbers) : numbers[i] <= i
    /\ retryCount <= Len(numbers)

(***************************************************************************)
(* One recorder at a time numbers the attempts 1, 2, 3, whichever of the   *)
(* two ways of recording is used for which attempt and although inserts    *)
(* fail.  A failed update of retryCount makes the repository's way repeat  *)
(* a number, two recorders at a time make either do so.                    *)
(***************************************************************************)
NumbersAreDense ==
    ~mixed /\ ~torn => \A i \in 1..Len(numbers) : numbers[i] = i

(***************************************************************************)
(* A reader that follows hasMore to the end has seen each row that was     *)
(* there when it began, whatever was inserted between its queries, if      *)
(* nothing was deleted meanwhile.                                          *)
(***************************************************************************)
WalksMissNothing ==
    walk.at = "end" /\ ~shrunk => walk.began \subseteq walk.seen

(***************************************************************************)
(* The numbers of the attempts tell their order as far as two queries for  *)
(* one number allow (both ways of recording).                              *)
(***************************************************************************)
AttemptsAreNumbered ==
    /\ NumbersNeverRunAhead
    /\ NumbersAreDense
=============================================================================
