--------------------------- MODULE DeliveryEntity ---------------------------
(***************************************************************************)
(* The Delivery aggregate: its status, retry count and next retry time,    *)
(* and what each of its methods does to them.  Dates are abstracted to     *)
(* whether they are set; the error text and the attempts are left out.     *)
(* A method that throws has a guard here, stated as an operator of its     *)
(* own, because its callers rely on the exception.                         *)
(***************************************************************************)
EXTENDS Naturals

CONSTANTS
    MaxRetries,     \* maxRetries, 5 in the code
    MaxCount        \* bound on retryCount

ASSUME EntityAssumption ==
    /\ MaxRetries \in Nat \ {0}
    /\ MaxCount \in Nat
    /\ MaxRetries < MaxCount

Statuses == {"PENDING", "PROCESSING", "COMPLETED", "SCHEDULED_RETRY", "FAILED_DLQ"}
Final == {"COMPLETED", "FAILED_DLQ"}
Waiting == {"PENDING", "SCHEDULED_RETRY"}

\* A delivery: timed says whether nextRetryAt is set.
DeliveryRecords == [status : Statuses, count : 0..MaxCount, timed : BOOLEAN]

Created == [status |-> "PENDING", count |-> 0, timed |-> FALSE]

Bounded(n) == IF n > MaxCount THEN MaxCount ELSE n

\* markAsProcessing throws unless the delivery waits.
CanMarkAsProcessing(r) == r.status \in Waiting
MarkAsProcessing(r) == [r EXCEPT !.status = "PROCESSING"]

MarkAsCompletedTimed(r) == [r EXCEPT !.status = "COMPLETED"]

\* markAsCompleted throws unless the delivery is being processed.
MarkAsCompleted(r) == [r EXCEPT !.status = "COMPLETED", !.timed = FALSE]

MoveToDeadLetterQueue(r) == [r EXCEPT !.status = "FAILED_DLQ", !.timed = FALSE]

\* Neither scheduleRetry nor moveToDeadLetterQueue looks at the status.
ScheduleRetry(r) == [r EXCEPT !.status = "SCHEDULED_RETRY", !.timed = TRUE]

\* markFailed does not look at the status either, counts only the first
\* failure, and leaves nextRetryAt to the caller.
MarkFailed(r, isRetry) ==
    LET counted == [r EXCEPT !.count = IF @ = 0 THEN 1 ELSE @]
    IN  IF ~isRetry \/ counted.count >= MaxRetries
        THEN MoveToDeadLetterQueue(counted)
        ELSE [counted EXCEPT !.status = "SCHEDULED_RETRY"]

CanRetryOnceLess(r) == r.status \notin Final /\ r.count < MaxRetries - 1

CanRetry(r) == r.status \notin Final /\ r.count < MaxRetries
=============================================================================
