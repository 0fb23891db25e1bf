---------------------------- MODULE Classifiers ----------------------------
(***************************************************************************)
(* What the code makes of a failed delivery.  The same failure is judged   *)
(* by several classes: the connectors, ErrorClassifier, the value objects  *)
(* DeliveryError and HttpStatusCode, RetryPolicy's isTransientError and    *)
(* the guard isRetryableError.  A failure is an HTTP status, 0 for none,   *)
(* and the words its code or message carries.                              *)
(***************************************************************************)
EXTENDS Naturals

Words == {"none", "refused", "reset", "timeout", "validation"}
Failures == [status : {0} \cup 300..599, word : Words]

\* HttpStatusCode: 408, 429 and 5xx.
IsServerError(status) == status \in 500..599
IsClientError(status) == status \in 400..499
StatusRetryable(status) == status \in {408, 429} \/ IsServerError(status)
PermanentFailure(status) == IsClientError(status) /\ status \notin {408, 429}

\* The result of a connector has the status of the answer; an exception
\* without one counts as 500, and 503 for queues.  (The 408 of the fetch
\* branch is never produced: axios always has a post method.)  The database
\* connector makes no exception for 408 and 429.
WebhookStatus(f) == IF f.status # 0 THEN f.status ELSE 500
WebhookPermanent(f) == PermanentFailure(WebhookStatus(f))
DatabasePermanent(f) == IsClientError(IF f.status # 0 THEN f.status ELSE 500)
QueueStatus(f) == IF f.status # 0 THEN f.status ELSE 503

\* ErrorClassifier.getCategory: the status first, then the words.
CategoryShort(f) ==
    IF f.status = 408 THEN "TIMEOUT"
    ELSE IF f.status >= 500 THEN "TRANSIENT"
    ELSE IF f.status >= 400 THEN "PERMANENT"
    ELSE "UNKNOWN"

Category(f) ==
    CASE f.status = 408 -> "TIMEOUT"
      [] f.status = 429 \/ f.status >= 500 -> "TRANSIENT"
      [] f.status \in {400, 422} -> "VALIDATION"
      [] IsClientError(f.status) /\ f.status \notin {400, 408, 422, 429} -> "PERMANENT"
      [] OTHER -> CASE f.word = "validation" -> "VALIDATION"
                    [] f.word \in {"refused", "reset"} -> "NETWORK"
                    [] f.word = "timeout" -> "TIMEOUT"
                    [] OTHER -> "UNKNOWN"

ClassifierRetries(f) == Category(f) \in {"TRANSIENT", "NETWORK", "TIMEOUT", "SERVER", "UNKNOWN"}

\* DeliveryError.fromStatusCode and fromException; UNKNOWN is not retryable.
DeliveryErrorCategory(f) ==
    CASE f.status \in {408, 429} -> "TRANSIENT"
      [] PermanentFailure(f.status) -> "PERMANENT"
      [] IsServerError(f.status) -> "SERVER"
      [] f.status = 0 /\ f.word \in {"refused", "reset"} -> "NETWORK"
      [] f.status = 0 /\ f.word = "timeout" -> "TIMEOUT"
      [] OTHER -> "UNKNOWN"

DeliveryErrorRetries(f) ==
    DeliveryErrorCategory(f) \in {"TRANSIENT", "NETWORK", "TIMEOUT", "SERVER"}

\* isTransientError: a transient status, or a transient word whatever the
\* status is.
IsTransient(f) == StatusRetryable(f.status) \/ f.word \in {"refused", "reset", "timeout"}

\* isRetryableError: the words count only where there is no status.
GuardRetries(f) ==
    IF f.status # 0 THEN f.status \in {408, 429, 500, 502, 503, 504}
                    ELSE f.word \in {"refused", "timeout"}

(***************************************************************************)
(* A webhook's answer that the connector calls permanent is never retried  *)
(* by ErrorClassifier, and the other way round for every error status:     *)
(* delivery-executor asks the one, the connector reports the other.        *)
(***************************************************************************)
ConnectorAndClassifierAgree(f) ==
    f.status >= 400 => (WebhookPermanent(f) <=> ~ClassifierRetries(f))

(***************************************************************************)
(* Nothing the guard isRetryableError or DeliveryError would retry is      *)
(* given up by ErrorClassifier, which decides for the worker.              *)
(***************************************************************************)
ClassifierIsGenerous(f) ==
    GuardRetries(f) \/ DeliveryErrorRetries(f) => ClassifierRetries(f)

(***************************************************************************)
(* A failure without an answer is permanent for no connector, and the      *)
(* status reported for it is one that HttpStatusCode retries: a store that *)
(* is away costs an attempt, never the delivery.                           *)
(***************************************************************************)
UnansweredIsTransient(f) ==
    f.status = 0 => /\ ~WebhookPermanent(f) /\ ~DatabasePermanent(f)
                    /\ StatusRetryable(WebhookStatus(f)) /\ StatusRetryable(QueueStatus(f))
=============================================================================
