---------------------------- MODULE RequestChain ----------------------------
(***************************************************************************)
(* A request on its way through the Express application of createApp: the  *)
(* layers run in the order they were mounted, each passes on, answers or   *)
(* hands an error to the next error handler.  The layers of a route depend *)
(* on what createApp was given.                                            *)
(***************************************************************************)
EXTENDS Naturals, Sequences, SequencesExt

CONSTANTS
    Http            \* the requests

VARIABLES
    wiring,     \* who assembled the application
    request     \* per request: where it is and what it met

chainVars == <<wiring, request>>

(***************************************************************************)
(* What createApp is given: the orchestrator passes neither guard nor      *)
(* limiter at the place where they are looked for, setupApi passes the     *)
(* guard and the limiter of the security module, which is rate-limit's,    *)
(* and the test suites the one of rate-limiting, whose results have all    *)
(* fields the middleware reads.                                            *)
(***************************************************************************)
Wirings == [orchestrator |-> [guard |-> FALSE, limiter |-> "none"],
            setupApi     |-> [guard |-> TRUE, limiter |-> "legacy"],
            testSuite    |-> [guard |-> TRUE, limiter |-> "window"]]

-----------------------------------------------------------------------------
(* Routes and layers *)

Guarding(layers) == IF Wirings[wiring].guard THEN layers ELSE <<>>
Limiting(layers) == IF Wirings[wiring].limiter # "none" THEN layers ELSE <<>>

Known == Guarding(<<"auth">>)
Trusted == Guarding(<<"auth", "role">>)
Limited == Limiting(<<"limit">>)

ResultRoutes == [ingestResult |-> Known \o Limited, getResult |-> Known \o Limited]
DeliveryRoutes == [listDeliveries |-> Limited, getDelivery |-> Known \o Limited,
                   retryDelivery |-> Trusted \o Limited]
DestinationRoutes == [listDestinations |-> Known \o Limited, changeDestination |-> Trusted \o Limited]
LineageRoutes == [getLineage |-> Limited]
HealthRoutes == [getHealth |-> <<>>, getHealthDetails |-> Trusted]
MetricsRoutes == [getMetrics |-> <<>>]
AdminRoutes == [admin |-> <<"admin", "audit">>]

Routers == {ResultRoutes, DeliveryRoutes, DestinationRoutes, LineageRoutes,
            HealthRoutes, MetricsRoutes, AdminRoutes}
Routes == {"unknown"} \cup UNION {DOMAIN router : router \in Routers}

\* createApiRouter: the layers in front of the handler of a route.
Mounted(route) == (CHOOSE router \in Routers : route \in DOMAIN router)[route]

\* createApp
Global == <<"json", "bodyErrors", "correlation", "logging", "timing">>
Chain(route) ==
    Global \o (IF route = "unknown" THEN <<>> ELSE Mounted(route) \o <<"handler">>)
           \o <<"notFound", "errors">>

ErrorLayers == {"bodyErrors", "errors"}

\* ErrorSerializer.serialize: what clients see of an error.
StatusOf == [syntax |-> 400, tooLarge |-> 413, payloadTooLarge |-> 422, invalid |-> 422,
             unauthenticated |-> 401, unauthorized |-> 403, limited |-> 429,
             missing |-> 404, conflict |-> 409, typeError |-> 500, internal |-> 500]

(***************************************************************************)
(* Per handler: does it validate, what it answers when all goes well, and  *)
(* what it, or the service it awaits, may throw.  Health never throws: a   *)
(* failing probe is caught and reported.                                   *)
(***************************************************************************)
Acts(valid, ok, throws) == [valid |-> valid, ok |-> ok, throws |-> throws]
Stored == {"missing", "conflict", "internal"}

ResultController == [ingestResult |-> Acts(TRUE, {202}, Stored), getResult |-> Acts(TRUE, {200}, Stored)]
DeliveryController == [listDeliveries |-> Acts(TRUE, {200}, {"internal"}),
                       getDelivery |-> Acts(TRUE, {200}, Stored),
                       retryDelivery |-> Acts(TRUE, {202}, Stored)]
DestinationController == [listDestinations |-> Acts(TRUE, {200}, {"internal"}),
                          changeDestination |-> Acts(TRUE, {200, 201, 204}, Stored)]
LineageController == [getLineage |-> Acts(TRUE, {200}, {"missing", "internal"})]
HealthController == [getHealth |-> Acts(FALSE, {200}, {}), getHealthDetails |-> Acts(FALSE, {200, 503}, {})]
MetricsController == [getMetrics |-> Acts(FALSE, {200}, {"internal"})]

Controllers == {ResultController, DeliveryController, DestinationController,
                LineageController, HealthController, MetricsController}
ActOf(route) == (CHOOSE controller \in Controllers : route \in DOMAIN controller)[route]

-----------------------------------------------------------------------------
NoError == "none"
Fresh == [at |-> 0, route |-> "unknown", error |-> NoError, first |-> NoError, auth |-> FALSE,
          passed |-> {}, correlated |-> FALSE, logs |-> FALSE, gone |-> FALSE,
          sent |-> <<>>, logged |-> 0]

ChainInit ==
    /\ wiring \in DOMAIN Wirings
    /\ request = [r \in Http |-> Fresh]

Layer(r) == IF request[r].at = 0 THEN "new"
            ELSE IF request[r].at > Len(Chain(request[r].route)) THEN "end"
            ELSE Chain(request[r].route)[request[r].at]

Becomes(r, new) == request' = [request EXCEPT ![r] = new] /\ UNCHANGED wiring
Calm(r, layer) == Layer(r) = layer /\ request[r].error = NoError

\* next(), after what the layer changed, and next(err).
Passes(r, changed) ==
    Becomes(r, [changed EXCEPT !.at = @ + 1, !.passed = @ \cup {Layer(r)}])
Raises(r, kind) ==
    Becomes(r, [request[r] EXCEPT !.at = @ + 1, !.error = kind,
                                  !.first = IF @ = NoError THEN kind ELSE @])

\* The answer ends the request; the finish event logs it if anyone listens
\* and the client has not gone.
Answers(r, status) ==
    Becomes(r, [request[r] EXCEPT !.at = Len(Chain(request[r].route)) + 1,
                  !.sent = Append(@, status), !.error = NoError,
                  !.logged = IF request[r].logs /\ ~request[r].gone THEN @ + 1 ELSE @])

-----------------------------------------------------------------------------
(* The layers *)

Receive(r, route) ==
    /\ Layer(r) = "new"
    /\ Becomes(r, [request[r] EXCEPT !.at = 1, !.route = route])

\* Express skips error handlers without an error and the others with one.
Skip(r) ==
    /\ Layer(r) \notin {"new", "end"}
    /\ (Layer(r) \in ErrorLayers) # (request[r].error # NoError)
    /\ Becomes(r, [request[r] EXCEPT !.at = @ + 1])

JsonParser(r) ==
    /\ Calm(r, "json")
    /\ Passes(r, request[r]) \/ Raises(r, "syntax") \/ Raises(r, "tooLarge")

BodyErrorHandler(r) ==
    /\ Layer(r) = "bodyErrors" /\ request[r].error # NoError
    /\ Raises(r, IF request[r].error = "tooLarge" THEN "payloadTooLarge" ELSE request[r].error)

CorrelationId(r) == Calm(r, "correlation") /\ Passes(r, [request[r] EXCEPT !.correlated = TRUE])
Logging(r) == Calm(r, "logging") /\ Passes(r, [request[r] EXCEPT !.logs = TRUE])
Timing(r) == Calm(r, "timing") /\ Passes(r, request[r])

\* Every failure of the guard becomes an AuthenticationError.
Auth(r) ==
    /\ Calm(r, "auth")
    /\ Passes(r, [request[r] EXCEPT !.auth = TRUE]) \/ Raises(r, "unauthenticated")

RequireRole(r) ==
    /\ Calm(r, "role")
    /\ (request[r].auth /\ Passes(r, request[r])) \/ Raises(r, "unauthorized")

\* The results of rate-limit's checkLimit have no resetTime to read.
RateLimit(r) ==
    /\ Calm(r, "limit")
    /\ \/ Wirings[wiring].limiter = "window" /\ Passes(r, request[r])
       \/ Wirings[wiring].limiter = "window" /\ Raises(r, "limited")
       \/ Wirings[wiring].limiter = "legacy" /\ Raises(r, "typeError")

\* Answers by itself, without the error handler.  No layer in front of it
\* sets req.auth, so the tests of the role and the audit are not reached.
AdminAuth(r) ==
    /\ Calm(r, "admin") /\ ~request[r].auth
    /\ Answers(r, 401)

\* A controller validates, awaits its service and answers.
Handler(r) ==
    /\ Calm(r, "handler")
    /\ LET act == ActOf(request[r].route) IN
         \/ act.valid /\ Raises(r, "invalid")
         \/ \E status \in act.ok : Answers(r, status)
         \/ \E kind \in act.throws : Raises(r, kind)

NotFound(r) == Calm(r, "notFound") /\ Raises(r, "missing")

ErrorHandlerLate(r) ==
    /\ Layer(r) = "errors" /\ request[r].error # NoError
    /\ Answers(r, IF request[r].correlated THEN StatusOf[request[r].error] ELSE 500)

ErrorHandler(r) ==
    /\ Layer(r) = "errors" /\ request[r].error # NoError
    /\ Answers(r, StatusOf[request[r].error])

ClientLeaves(r) ==
    /\ Layer(r) \notin {"new", "end"} /\ ~request[r].gone
    /\ Becomes(r, [request[r] EXCEPT !.gone = TRUE])

ChainStep(r) ==
    \/ Skip(r) \/ JsonParser(r) \/ BodyErrorHandler(r) \/ CorrelationId(r) \/ Logging(r)
    \/ Timing(r) \/ Auth(r) \/ RequireRole(r) \/ RateLimit(r) \/ AdminAuth(r)
    \/ Handler(r) \/ NotFound(r) \/ ErrorHandler(r)

ChainNext ==
    \E r \in Http : ChainStep(r) \/ ClientLeaves(r) \/ \E route \in Routes : Receive(r, route)

-----------------------------------------------------------------------------
(* Properties *)

(***************************************************************************)
(* No request is answered twice, whichever layer answers, raises or        *)
(* forwards an error.                                                      *)
(***************************************************************************)
AnsweredOnce == \A r \in Http : Len(request[r].sent) <= 1

(***************************************************************************)
(* A client sees success only if every layer mounted in front of the       *)
(* handler let the request pass, and otherwise the status of the first     *)
(* error, which reaches the error handler unchanged.                       *)
(***************************************************************************)
AnswersTellTheTruth ==
    \A r \in Http : request[r].sent # <<>> =>
        LET q == request[r]
            status == q.sent[1]
            layers == IF q.route = "unknown" THEN <<>> ELSE Mounted(q.route)
        IN  IF q.first = NoError
            THEN status \in {401, 403} \/ Range(layers) \subseteq q.passed
            ELSE status = StatusOf[IF q.first = "tooLarge" THEN "payloadTooLarge" ELSE q.first]

(***************************************************************************)
(* Every answered request whose body could be parsed has a correlation id  *)
(* and one line in the access log, unless its client has left.             *)
(***************************************************************************)
AnswersAreLogged ==
    \A r \in Http : request[r].sent # <<>> /\ "json" \in request[r].passed =>
        request[r].correlated /\ (request[r].gone \/ request[r].logged = 1)

(***************************************************************************)
(* Every request is answered: no layer drops it.                           *)
(***************************************************************************)
RequestsAreAnswered ==
    \A r \in Http : request[r].at > 0 ~> request[r].sent # <<>>

(***************************************************************************)
(* Every request is answered, once, truthfully, and leaves its line in the *)
(* log.                                                                    *)
(***************************************************************************)
ChainIsSound ==
    /\ [](AnsweredOnce /\ AnswersTellTheTruth /\ AnswersAreLogged)
    /\ RequestsAreAnswered
=============================================================================
