------------------------------ MODULE Records ------------------------------
(***************************************************************************)
(* The repositories on PostgreSQL.  A write of a repository is followed by *)
(* an entry in the audit log whose failure is only logged; both go to the  *)
(* connection itself, to a transaction that TransactionManager repeats     *)
(* after a deadlock, or to one that the caller opened and ends by hand.    *)
(***************************************************************************)
EXTENDS Naturals, Sequences, SequencesExt, FiniteSets, FiniteSetsExt

CONSTANTS
    Writers,        \* callers of the repositories
    ByHand,         \* those that open transactions by hand, for two audited writes
    Rows,           \* the rows they write
    MaxTries        \* maxRetries of runWithRetry

ASSUME RecordsAssumption == MaxTries \in Nat \ {0} /\ ByHand \subseteq Writers

VARIABLES
    present,    \* rows in the table
    lock,       \* per row: the transaction that wrote it, or "free"
    call,       \* per caller: the call under way
    written,    \* per caller: rows whose change by it is committed
    audited,    \* per caller: rows whose audit entry by it is committed
    commits,    \* per caller: history, transactions of it that committed
    heard       \* per caller: what its promise came to

txVars == <<present, lock, call, written, audited, commits, heard>>

-----------------------------------------------------------------------------
(* What the repositories do around a write *)

Operation(kind, audits, checks) == [kind |-> kind, audits |-> audits, checks |-> checks]

\* create, update, delete; createResult checks the address of the mail.
ResultRepository ==
    {Operation("create", TRUE, TRUE), Operation("update", TRUE, FALSE), Operation("delete", TRUE, FALSE)}
\* updateStatus, moveToFailed, moveToDLQ and scheduleRetry write no audit entry.
DeliveryRepository ==
    {Operation("create", TRUE, FALSE), Operation("update", TRUE, FALSE), Operation("delete", TRUE, FALSE),
     Operation("update", FALSE, FALSE)}
\* validateEndpoint and updateCircuitBreakerThreshold
DestinationRepository ==
    {Operation("create", TRUE, TRUE), Operation("update", TRUE, TRUE), Operation("delete", TRUE, FALSE)}
AttemptRepository ==
    {Operation("create", TRUE, FALSE), Operation("update", TRUE, FALSE), Operation("delete", TRUE, FALSE)}
IdempotencyCacheRepository ==
    {Operation("create", FALSE, FALSE), Operation("update", FALSE, FALSE), Operation("delete", FALSE, FALSE)}
\* Audit logs are immutable: update and delete throw.
AuditLogRepository == {Operation("create", FALSE, FALSE), Operation("refuse", FALSE, FALSE)}

Operations ==
    ResultRepository \cup DeliveryRepository \cup DestinationRepository \cup AttemptRepository
    \cup IdempotencyCacheRepository \cup AuditLogRepository

\* One row, or several in the order of a callback or of createMany.
Plans == {<<r>> : r \in Rows} \cup {p \in [1..2 -> Rows] : p[1] # p[2]}

NoCall == [at |-> "idle"]

TxInit ==
    /\ present \in SUBSET Rows
    /\ lock = [r \in Rows |-> "free"]
    /\ call = [c \in Writers |-> NoCall]
    /\ written = [c \in Writers |-> {}] /\ audited = [c \in Writers |-> {}]
    /\ commits = [c \in Writers |-> 0]
    /\ heard = [c \in Writers |-> "nothing"]

-----------------------------------------------------------------------------
(* Calls *)

InTx(c) == call[c].mode \in {"tx", "manual"}
Manual(c) == call[c].mode = "manual"
Row(c) == call[c].plan[call[c].done + 1]
Over(was, lost) ==
    [was EXCEPT !.at = "over", !.tries = 0, !.done = 0, !.aborted = FALSE, !.changed = {}, !.noted = {},
                !.ackLost = was.ackLost \/ lost]
Settled(c, result) ==
    /\ heard' = [heard EXCEPT ![c] = result]
    /\ call' = [call EXCEPT ![c] = Over(call[c], FALSE)]
Begins(c, mode, op, plan) ==
    [at |-> "write", mode |-> mode, op |-> [op EXCEPT !.checks = FALSE], plan |-> plan, done |-> 0, tries |-> 0,
     aborted |-> FALSE, changed |-> {}, noted |-> {}, auditLost |-> FALSE, ackLost |-> FALSE]

Call(c, mode, op, plan) ==
    /\ call[c] = NoCall
    /\ \/ op.kind # "refuse" /\ call' = [call EXCEPT ![c] = Begins(c, mode, op, plan)] /\ UNCHANGED heard
       \/ /\ op.kind = "refuse" \/ op.checks
          /\ heard' = [heard EXCEPT ![c] = "ValidationError"]
          /\ call' = [call EXCEPT ![c] = [Begins(c, mode, op, plan) EXCEPT !.at = "over"]]
    /\ UNCHANGED <<present, lock, written, audited, commits>>

\* mapDatabaseError: by the code of the error; a deadlock keeps its text.
MapDatabaseError(error) ==
    CASE error = "P2002" -> "ConflictError"
      [] error = "P2003" -> "ValidationError"
      [] error = "P2025" -> "NotFoundError"
      [] OTHER -> "InternalError"

\* handleError: a NotFoundError is none of those it passes on.
HandleError(error) ==
    IF error \in {"ConflictError", "ValidationError", "InternalError"} THEN error
    ELSE "InfrastructureError"

AlwaysDeadlock(error) == TRUE

\* isDeadlock
IsDeadlock(error) == error = "deadlock"

Unlocked(c) == [r \in Rows |-> IF lock[r] = c THEN "free" ELSE lock[r]]

RetriedForever(c, error, lost) ==
    IF IsDeadlock(error)
    THEN /\ call' = [call EXCEPT ![c] = Begins(c, "tx", call[c].op, call[c].plan)]
         /\ UNCHANGED heard
    ELSE /\ heard' = [heard EXCEPT ![c] = HandleError(MapDatabaseError(error))]
         /\ call' = [call EXCEPT ![c] = Over(call[c], lost)]

\* The catch block of runWithRetry.
Retried(c, error, lost) ==
    IF IsDeadlock(error) /\ call[c].tries + 1 < MaxTries
    THEN /\ call' = [call EXCEPT ![c] =
                [Begins(c, "tx", call[c].op, call[c].plan) EXCEPT
                    !.tries = call[c].tries + 1, !.ackLost = call[c].ackLost \/ lost]]
         /\ UNCHANGED heard
    ELSE /\ heard' = [heard EXCEPT ![c] = HandleError(MapDatabaseError(error))]
         /\ call' = [call EXCEPT ![c] = Over(call[c], lost)]

\* A manual transaction is lost; the caller learns of it and ends it.
Lost(c) ==
    /\ call' = [call EXCEPT ![c] = [call[c] EXCEPT !.at = "end", !.aborted = TRUE, !.changed = {}, !.noted = {}]]
    /\ UNCHANGED heard

\* A statement failed: outside a transaction the ones before it stand.
Fails(c, error) ==
    /\ IF Manual(c) THEN Lost(c)
       ELSE IF InTx(c) THEN Retried(c, error, FALSE) ELSE Settled(c, MapDatabaseError(error))
    /\ lock' = Unlocked(c)
    /\ UNCHANGED <<present, written, audited, commits>>

-----------------------------------------------------------------------------
(* Statements *)

\* Rows as the caller sees them.
Seen(c) ==
    IF ~InTx(c) THEN present
    ELSE CASE call[c].op.kind = "create" -> present \cup call[c].changed
           [] call[c].op.kind = "delete" -> present \ call[c].changed
           [] OTHER -> present
Applied(kind, rows) ==
    CASE kind = "create" -> present \cup rows
      [] kind = "delete" -> present \ rows
      [] OTHER -> present

WriteError(c) ==
    CASE call[c].aborted -> "25P02"
      [] call[c].op.kind = "create" /\ Row(c) \in Seen(c) -> "P2002"
      [] call[c].op.kind # "create" /\ Row(c) \notin Seen(c) -> "P2025"
      [] OTHER -> "none"

\* A createMany has no audit entries, other calls write one row each.
Audits(c) == call[c].op.audits /\ (InTx(c) \/ Len(call[c].plan) = 1)
AfterRow(c) == IF call[c].done + 1 < Len(call[c].plan) THEN "write"
               ELSE [alone |-> "return", tx |-> "commit", manual |-> "end"][call[c].mode]
AfterWrite(c) == IF Audits(c) THEN "audit" ELSE AfterRow(c)
Advance(c, to) == [call[c] EXCEPT !.at = to,
                                     !.done = IF to = "audit" THEN call[c].done ELSE call[c].done + 1]

Write(c) ==
    /\ call[c].at = "write"
    /\ call[c].aborted \/ lock[Row(c)] \in {"free", c}
    /\ IF WriteError(c) # "none" THEN Fails(c, WriteError(c))
       ELSE /\ IF InTx(c)
               THEN /\ lock' = [lock EXCEPT ![Row(c)] = c]
                    /\ call' = [call EXCEPT ![c] =
                          [Advance(c, AfterWrite(c)) EXCEPT !.changed = call[c].changed \cup {Row(c)}]]
                    /\ UNCHANGED <<present, written>>
               ELSE /\ present' = Applied(call[c].op.kind, {Row(c)})
                    /\ written' = [written EXCEPT ![c] = @ \cup {Row(c)}]
                    /\ call' = [call EXCEPT ![c] = Advance(c, AfterWrite(c))]
                    /\ UNCHANGED lock
            /\ UNCHANGED <<audited, commits, heard>>

(***************************************************************************)
(* logAudit on the client of the write.  Its error is caught; PostgreSQL   *)
(* has aborted the transaction nevertheless.                               *)
(***************************************************************************)
LogAudit(c) ==
    /\ call[c].at = "audit"
    /\ \/ /\ ~call[c].aborted
          /\ IF InTx(c)
             THEN /\ call' = [call EXCEPT ![c] =
                        [Advance(c, AfterRow(c)) EXCEPT !.noted = call[c].noted \cup {Row(c)}]]
                  /\ UNCHANGED audited
             ELSE /\ audited' = [audited EXCEPT ![c] = @ \cup {Row(c)}]
                  /\ call' = [call EXCEPT ![c] = Advance(c, AfterRow(c))]
       \/ /\ call' = [call EXCEPT ![c] =
                [Advance(c, AfterRow(c)) EXCEPT !.aborted = InTx(c), !.auditLost = TRUE]]
          /\ UNCHANGED audited
    /\ UNCHANGED <<present, lock, written, commits, heard>>

Return(c) ==
    /\ call[c].at = "return"
    /\ Settled(c, "ok")
    /\ UNCHANGED <<present, lock, written, audited, commits>>

(***************************************************************************)
(* commitTransaction and rollbackTransaction settle the promise that the   *)
(* callback of $transaction awaits and await that promise themselves: the  *)
(* caller goes on before COMMIT or ROLLBACK is sent.                       *)
(***************************************************************************)
CommitTransaction(c) ==
    /\ call[c].at = "end"
    /\ heard' = [heard EXCEPT ![c] = "ok"]
    /\ call' = [call EXCEPT ![c].at = "commit"]
    /\ UNCHANGED <<present, lock, written, audited, commits>>

RollbackTransaction(c) ==
    /\ call[c].at = "end"
    /\ heard' = [heard EXCEPT ![c] = "rolledBack"]
    /\ call' = [call EXCEPT ![c] = [call[c] EXCEPT !.at = "commit", !.aborted = TRUE]]
    /\ UNCHANGED <<present, lock, written, audited, commits>>

(***************************************************************************)
(* The end of $transaction.  The COMMIT of an aborted transaction rolls it *)
(* back without an error; the answer to any COMMIT may be lost.            *)
(***************************************************************************)
Commit(c) ==
    /\ call[c].at = "commit"
    /\ lock' = Unlocked(c)
    /\ IF call[c].aborted THEN UNCHANGED <<present, written, audited, commits>>
       ELSE /\ present' = Applied(call[c].op.kind, call[c].changed)
            /\ written' = [written EXCEPT ![c] = @ \cup call[c].changed]
            /\ audited' = [audited EXCEPT ![c] = @ \cup call[c].noted]
            /\ commits' = [commits EXCEPT ![c] = @ + 1]
    /\ \/ Settled(c, IF Manual(c) THEN heard[c] ELSE "ok")
       \/ ~Manual(c) /\ Retried(c, "connection", TRUE)

\* The database ends one of two transactions that wait for each other.
Waits(c, d) == call[c].at = "write" /\ lock[Row(c)] = d /\ ~call[c].aborted
Deadlock(c) ==
    /\ InTx(c) /\ \E d \in Writers \ {c} : Waits(c, d) /\ Waits(d, c)
    /\ Fails(c, "deadlock")

\* The timeout of the transaction, or a lost connection.
Expires(c) ==
    /\ call[c].at \in {"write", "audit", "end"} /\ InTx(c)
    /\ Fails(c, "timeout")

TxStep(c) ==
    /\ call[c] # NoCall
    /\ \/ Write(c) \/ LogAudit(c) \/ Return(c) \/ Commit(c) \/ Deadlock(c) \/ Expires(c)
       \/ CommitTransaction(c) \/ RollbackTransaction(c)

TxNext ==
    \E c \in Writers :
        \/ \E op \in Operations, plan \in Plans :
              \/ \E mode \in {"alone", "tx"} : Call(c, mode, op, plan)
              \/ c \in ByHand /\ op.audits /\ Len(plan) = 2 /\ Call(c, "manual", op, plan)
        \/ TxStep(c)

TxSpec == TxInit /\ [][TxNext]_txVars

-----------------------------------------------------------------------------
(* Properties of the writes *)

(***************************************************************************)
(* A transaction leaves all of its rows or none, through every conflict,   *)
(* deadlock, retry and lost answer, and as many audit entries as changed   *)
(* rows although a failed entry is swallowed by logAudit.                  *)
(***************************************************************************)
TransactionsAreWhole ==
    \A c \in Writers : call[c] # NoCall /\ InTx(c) =>
        /\ written[c] \in {{}, ToSet(call[c].plan)}
        /\ call[c].op.audits => audited[c] = written[c]

(***************************************************************************)
(* A caller that hears of success finds its rows written, unless an audit  *)
(* entry failed inside its transaction; one that hears of an error finds   *)
(* none of them, unless the answer to its COMMIT was lost, and so does one *)
(* that rolled back by hand.  commitTransaction promises nothing: it       *)
(* answers before the COMMIT, and after the timeout too.                   *)
(***************************************************************************)
CallersHearTheTruth ==
    \A c \in Writers : call[c] # NoCall /\ InTx(c) =>
        /\ heard[c] = "ok" /\ ~Manual(c) /\ ~call[c].auditLost => written[c] = ToSet(call[c].plan)
        /\ heard[c] \notin {"ok", "nothing"} /\ ~call[c].ackLost => written[c] = {}

(***************************************************************************)
(* runWithRetry repeats a callback only if the failed run left nothing: no *)
(* caller's callback is committed twice.                                   *)
(***************************************************************************)
CommittedOnce == \A c \in Writers : commits[c] <= 1

(***************************************************************************)
(* Every call ends, two transactions that lock rows in opposite orders and *)
(* are retried into the same deadlock included.                            *)
(***************************************************************************)
CallsEnd == \A c \in Writers : call[c] # NoCall ~> heard[c] # "nothing"

(***************************************************************************)
(* What a transaction promises its caller, through conflicts, retries and  *)
(* lost answers: all or nothing, an honest answer, and once.               *)
(***************************************************************************)
TransactionsAreHonest ==
    /\ TransactionsAreWhole
    /\ CallersHearTheTruth
    /\ CommittedOnce
=============================================================================
