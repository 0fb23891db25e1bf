--------------------------- MODULE Security_proofs ---------------------------
(***************************************************************************)
(* Proofs about Credentials, RateLimiting and RequestChain, for any number *)
(* of servers, processes, calls and requests and any lifetimes, windows    *)
(* and limits.                                                             *)
(*                                                                         *)
(* Tokens, signatures, secrets, API keys and permissions share no state,   *)
(* so each part has an inductive invariant of its own and                  *)
(* CredentialsStayGood joins them.  One execution uses one limiter, so     *)
(* LimitInv has one part for the windows (the grants of the present one    *)
(* are among the hits that were counted), one for the buckets (what was    *)
(* granted and what is left has been paid for) and one for the quota (uses *)
(* are counted or being tracked).  ChainInv follows a request through the  *)
(* layers of its route: what is behind it has let it pass, or raised the   *)
(* error it carries.                                                       *)
(***************************************************************************)
EXTENDS RateLimiting, RequestChain, Credentials, FiniteSetTheorems, FunctionTheorems,
        SequenceTheorems, WellFoundedInduction, TLAPS

-----------------------------------------------------------------------------
(* TokenManager *)

\* A call under way.
Token(r) ==
    /\ DOMAIN r = {"at", "kind", "server", "late"}
    /\ r.at \in {"ask", "verify", "revoke", "issue"} /\ r.kind \in {"use", "refresh", "revoke"}
    /\ r.late \in BOOLEAN

(***************************************************************************)
(* What is known of one call: one that began after the revocation, or that *)
(* refreshes once the token was exchanged, has come past isTokenRevoked    *)
(* only when the token had expired anyway.                                 *)
(***************************************************************************)
Tracked(r) ==
    r = NotCalled \/
    /\ Token(r)
    /\ r.late => revoked
    /\ r.at = "issue" => revoked /\ r.kind = "refresh"
    /\ ~unseen /\ r.late /\ r.at = "verify" => second >= TokenLife
    /\ ~unseen /\ ~together /\ exchanged > 0 /\ r.kind = "refresh" =>
         r.at = "ask" \/ (r.at = "verify" /\ second >= TokenLife)

TokenInv ==
    /\ second \in Nat /\ entryUntil \in Nat /\ exchanged \in Nat
    /\ revoked \in BOOLEAN /\ unseen \in BOOLEAN /\ together \in BOOLEAN /\ wrongly \in BOOLEAN
    /\ tokenCall = [c \in TokenCalls |-> tokenCall[c]]
    /\ \A c \in TokenCalls : Tracked(tokenCall[c])
    /\ ~together => \A c, d \in TokenCalls : Refreshing(c) /\ Refreshing(d) => c = d
    /\ revoked => entryUntil >= TokenLife
    /\ exchanged > 0 => revoked
    /\ RevokedStaysRevoked
    /\ ExchangedOnce

LEMMA TokenInvInit == TokenInit => TokenInv
<1> SUFFICES ASSUME TokenInit PROVE TokenInv
  OBVIOUS
<1>1. \A c \in TokenCalls : tokenCall[c] = NotCalled
  BY DEF TokenInit
<1>2. /\ \A c \in TokenCalls : Tracked(tokenCall[c]) /\ ~Refreshing(c)
      /\ tokenCall = [c \in TokenCalls |-> tokenCall[c]]
  BY <1>1 DEF TokenInit, Tracked, Refreshing
<1>3. /\ second = 0 /\ entryUntil = 0 /\ exchanged = 0 /\ ~revoked /\ ~wrongly
      /\ revoked \in BOOLEAN /\ unseen \in BOOLEAN /\ together \in BOOLEAN /\ wrongly \in BOOLEAN
  BY Zenon DEF TokenInit
<1>4. /\ second \in Nat /\ entryUntil \in Nat /\ exchanged \in Nat /\ ~(exchanged > 0) /\ exchanged <= 1
  BY <1>3
<1>5. QED
  BY <1>2, <1>3, <1>4, Zenon DEF TokenInv, RevokedStaysRevoked, ExchangedOnce

LEMMA MinOfTwo == ASSUME NEW a \in Int, NEW b \in Int
                  PROVE  Min({a, b}) = IF a <= b THEN a ELSE b
  BY DEF Min

LEMMA MaxOfTwo == ASSUME NEW a \in Int, NEW b \in Int
                  PROVE  Max({a, b}) = IF a >= b THEN a ELSE b
  BY DEF Max

LEMMA BeginCallKeeps ==
    ASSUME TokenInv, NEW c \in TokenCalls, NEW kind \in {"use", "refresh", "revoke"}, NEW s \in Servers,
           BeginCall(c, kind, s)
    PROVE  TokenInv'
<1> DEFINE r == [at |-> IF kind = "revoke" THEN "revoke" ELSE "ask", kind |-> kind, server |-> s,
                 late |-> revoked]
<1>1. /\ tokenCall' = [tokenCall EXCEPT ![c] = r] /\ tokenCall[c] = NotCalled
      /\ together' = (together \/ (kind = "refresh" /\ \E d \in TokenCalls : Refreshing(d)))
      /\ UNCHANGED <<second, blacklist, entryUntil, revoked, unseen, exchanged, wrongly>>
  BY DEF BeginCall, Calling
<1>2. /\ Token(r) /\ r.late = revoked /\ r.kind = kind
      /\ r.at = IF kind = "revoke" THEN "revoke" ELSE "ask"
  BY DEF Token, TokenInv
<1> HIDE DEF r
<1>3. /\ tokenCall' = [d \in TokenCalls |-> tokenCall'[d]] /\ tokenCall'[c] = r
      /\ \A d \in TokenCalls : d # c => tokenCall'[d] = tokenCall[d]
  BY <1>1 DEF TokenInv
<1>4. together' \in BOOLEAN /\ (~together' => ~together)
  BY <1>1 DEF TokenInv
<1>5. \A d \in TokenCalls : Tracked(tokenCall[d])'
  BY <1>1, <1>2, <1>3, <1>4 DEF TokenInv, Tracked
<1>6. ~together' => \A d, e \in TokenCalls : Refreshing(d)' /\ Refreshing(e)' => d = e
  BY <1>1, <1>2, <1>3, <1>4 DEF TokenInv, Refreshing
<1>7. QED
  BY <1>1, <1>3, <1>4, <1>5, <1>6 DEF TokenInv, RevokedStaysRevoked, ExchangedOnce

(***************************************************************************)
(* What there is to show of a step of one call that begins none: r is what *)
(* becomes of it, and the history goes on.                                 *)
(***************************************************************************)
LEMMA TokenCallKeeps ==
    ASSUME TokenInv, NEW c \in TokenCalls, NEW r, tokenCall' = [tokenCall EXCEPT ![c] = r],
           Tracked(r)', r # NotCalled /\ r.kind = "refresh" => Refreshing(c),
           UNCHANGED <<second, together>>, revoked => revoked', revoked' \in BOOLEAN,
           unseen => unseen', unseen' \in BOOLEAN, wrongly' \in BOOLEAN,
           entryUntil' \in Nat, exchanged' \in Nat,
           exchanged' # exchanged => revoked /\ Refreshing(c),
           revoked' => entryUntil' >= TokenLife, ~unseen' => ~wrongly', ExchangedOnce'
    PROVE  TokenInv'
<1>1. /\ tokenCall' = [d \in TokenCalls |-> tokenCall'[d]] /\ tokenCall'[c] = r
      /\ \A d \in TokenCalls : d # c => tokenCall'[d] = tokenCall[d]
  BY DEF TokenInv
<1>2. ~together => \A d, e \in TokenCalls : Refreshing(d) /\ Refreshing(e) => d = e
  BY DEF TokenInv
<1>3. \A d \in TokenCalls : Refreshing(d)' => Refreshing(d)
  BY <1>1 DEF Refreshing
<1>4. ASSUME NEW d \in TokenCalls, d # c PROVE Tracked(tokenCall[d])'
  <2>1. tokenCall'[d] = tokenCall[d] /\ Tracked(tokenCall[d])
    BY <1>1, <1>4 DEF TokenInv
  <2>2. CASE tokenCall[d] = NotCalled
    BY <2>1, <2>2 DEF Tracked
  <2>3. CASE tokenCall[d] # NotCalled /\ exchanged' = exchanged
    BY <2>1, <2>3 DEF Tracked
  <2>4. CASE tokenCall[d] # NotCalled /\ exchanged' # exchanged
    <3>1. ~together => tokenCall[d].kind # "refresh"
      BY <1>2, <1>4, <2>4 DEF Refreshing
    <3>2. QED
      BY <2>1, <2>4, <3>1 DEF Tracked
  <2>5. QED
    BY <2>2, <2>3, <2>4
<1>5. \A d \in TokenCalls : Tracked(tokenCall[d])'
  BY <1>1, <1>4
<1>6. ~together' => \A d, e \in TokenCalls : Refreshing(d)' /\ Refreshing(e)' => d = e
  BY <1>2, <1>3
<1>7. exchanged' > 0 => revoked'
  BY DEF TokenInv
<1>8. QED
  BY <1>1, <1>5, <1>6, <1>7 DEF TokenInv, RevokedStaysRevoked

LEMMA AskKeeps ==
    ASSUME TokenInv, NEW c \in TokenCalls, IsTokenRevoked(c)
    PROVE  TokenInv'
<1> DEFINE q == tokenCall[c]
<1>9. PICK r : r = [q EXCEPT !.at = "verify"]
  OBVIOUS
<1>1. UNCHANGED <<second, blacklist, entryUntil, revoked, exchanged, together, wrongly>> /\ q.at = "ask"
  BY DEF IsTokenRevoked
<1>2. Token(q) /\ Tracked(q)
  BY <1>1 DEF TokenInv, Tracked, NotCalled
<1>3. Token(r) /\ r.at = "verify" /\ r.kind = q.kind /\ r.late = q.late
  BY <1>2, <1>9 DEF Token
<1>4. q # NotCalled
  BY <1>1 DEF NotCalled
<1>5. /\ revoked => entryUntil >= TokenLife
      /\ second \in Nat /\ entryUntil \in Nat /\ exchanged \in Nat
      /\ exchanged > 0 => revoked
      /\ q.late => revoked
  BY <1>2, <1>4 DEF TokenInv, Tracked
<1>6. CASE UNCHANGED unseen /\ Calling(c, IF Listed(q.server) THEN NotCalled ELSE r)
  <2>1. CASE Listed(q.server)
    <3>1. tokenCall' = [tokenCall EXCEPT ![c] = NotCalled] /\ Tracked(NotCalled)'
      BY <1>6, <2>1 DEF Calling, Tracked
    <3>2. QED
      BY <1>1, <1>6, <3>1, TokenCallKeeps DEF TokenInv, RevokedStaysRevoked, ExchangedOnce
  <2>2. CASE ~Listed(q.server)
    <3>1. tokenCall' = [tokenCall EXCEPT ![c] = r]
      BY <1>6, <2>2 DEF Calling
    <3>2. entryUntil <= second
      BY <1>5, <2>2 DEF Listed
    <3>3. revoked => second >= TokenLife
      BY <1>5, <3>2, CredentialsAssumption
    <3>4. Tracked(r)'
      BY <1>1, <1>3, <1>5, <1>6, <3>3 DEF Tracked
    <3>5. r.kind = "refresh" => Refreshing(c)
      BY <1>3, <1>4 DEF Refreshing
    <3>6. QED
      BY <1>1, <1>6, <3>1, <3>4, <3>5, TokenCallKeeps DEF TokenInv, RevokedStaysRevoked, ExchangedOnce
  <2>3. QED
    BY <2>1, <2>2
<1>7. CASE unseen' = TRUE /\ Calling(c, r)
  <2>1. tokenCall' = [tokenCall EXCEPT ![c] = r] /\ unseen'
    BY <1>7 DEF Calling
  <2>2. Tracked(r)'
    BY <1>1, <1>3, <1>5, <2>1 DEF Tracked
  <2>3. r.kind = "refresh" => Refreshing(c)
    BY <1>3, <1>4 DEF Refreshing
  <2>4. unseen' \in BOOLEAN /\ ExchangedOnce'
    BY <1>7, <2>1 DEF ExchangedOnce
  <2>5. QED
    BY <1>1, <2>1, <2>2, <2>3, <2>4, TokenCallKeeps DEF TokenInv
<1>8. QED
  BY <1>6, <1>7, <1>9 DEF IsTokenRevoked

\* A call that ends.
LEMMA TokenCallEnds ==
    ASSUME TokenInv, NEW c \in TokenCalls, tokenCall' = [tokenCall EXCEPT ![c] = NotCalled],
           UNCHANGED <<second, entryUntil, revoked, unseen, exchanged, together, wrongly>>
    PROVE  TokenInv'
<1>1. Tracked(NotCalled)'
  BY DEF Tracked
<1>2. QED
  BY <1>1, TokenCallKeeps DEF TokenInv, RevokedStaysRevoked, ExchangedOnce

LEMMA VerifyKeeps ==
    ASSUME TokenInv, NEW c \in TokenCalls, VerifyToken(c)
    PROVE  TokenInv'
<1> DEFINE q == tokenCall[c]
<1>1. UNCHANGED <<second, blacklist, entryUntil, revoked, unseen, exchanged, together>> /\ q.at = "verify"
  BY DEF VerifyToken
<1>2. Token(q) /\ Tracked(q) /\ q # NotCalled
  BY <1>1 DEF TokenInv, Tracked, NotCalled
<1>3. CASE ~JwtValid
  BY <1>1, <1>3, TokenCallEnds DEF VerifyToken, Calling
<1>4. CASE JwtValid
  <2>1. wrongly' = (wrongly \/ q.late) /\ second < TokenLife /\ second \in Nat
    BY <1>4 DEF VerifyToken, JwtValid, TokenInv
  <2>2. ~unseen => ~q.late
    BY <1>1, <1>2, <2>1, CredentialsAssumption DEF Tracked
  <2>3. wrongly' \in BOOLEAN /\ (~unseen' => ~wrongly') /\ ExchangedOnce'
    BY <1>1, <2>1, <2>2 DEF TokenInv, RevokedStaysRevoked, ExchangedOnce
  <2>4. CASE q.kind = "refresh" /\ TimeLeft <= EarlyBy
    <3>1. PICK r : r = [q EXCEPT !.at = "revoke"]
      OBVIOUS
    <3>2. tokenCall' = [tokenCall EXCEPT ![c] = r]
      BY <1>4, <2>4, <3>1 DEF VerifyToken, Calling
    <3>3. Token(r) /\ r.at = "revoke" /\ r.kind = q.kind /\ r.late = q.late
      BY <1>2, <3>1 DEF Token
    <3>4. ~unseen /\ ~together => ~(exchanged > 0)
      BY <1>1, <1>2, <2>1, <2>4, CredentialsAssumption DEF Tracked
    <3>5. Tracked(r)'
      BY <1>1, <1>2, <3>3, <3>4 DEF Tracked
    <3>6. Refreshing(c)
      BY <1>2, <2>4 DEF Refreshing
    <3>7. QED
      BY <1>1, <2>3, <3>2, <3>5, <3>6, TokenCallKeeps DEF TokenInv
  <2>5. CASE ~(q.kind = "refresh" /\ TimeLeft <= EarlyBy)
    <3>1. tokenCall' = [tokenCall EXCEPT ![c] = NotCalled] /\ Tracked(NotCalled)'
      BY <1>4, <2>5 DEF VerifyToken, Calling, Tracked
    <3>2. QED
      BY <1>1, <2>3, <3>1, TokenCallKeeps DEF TokenInv
  <2>6. QED
    BY <2>4, <2>5
<1>5. QED
  BY <1>3, <1>4

LEMMA RevokeKeeps ==
    ASSUME TokenInv, NEW c \in TokenCalls, RevokeToken(c)
    PROVE  TokenInv'
<1> DEFINE q == tokenCall[c]
<1>1. UNCHANGED <<second, unseen, exchanged, together, wrongly>> /\ q.at = "revoke"
  BY DEF RevokeToken
<1>2. Token(q) /\ Tracked(q) /\ q # NotCalled
  BY <1>1 DEF TokenInv, Tracked, NotCalled
<1>3. CASE Calling(c, NotCalled) /\ UNCHANGED <<entryUntil, revoked>>
  BY <1>1, <1>3, TokenCallEnds DEF Calling
<1>4. CASE /\ entryUntil' = EntryExpiry /\ revoked' = TRUE
           /\ Calling(c, IF Refreshing(c) THEN [tokenCall[c] EXCEPT !.at = "issue"] ELSE NotCalled)
  <2>1. second \in Nat /\ TokenLife \in Nat /\ TimeLeft \in Int /\ TimeLeft = TokenLife - second
    BY CredentialsAssumption DEF TokenInv, TimeLeft
  <2>2. Max({1, TimeLeft}) = IF 1 >= TimeLeft THEN 1 ELSE TimeLeft
    BY <2>1, MaxOfTwo
  <2>3. entryUntil' \in Nat /\ entryUntil' >= TokenLife
    BY <1>4, <2>1, <2>2 DEF EntryExpiry
  <2>4. revoked' /\ revoked' \in BOOLEAN /\ (~unseen' => ~wrongly') /\ ExchangedOnce'
    BY <1>1, <1>4 DEF TokenInv, RevokedStaysRevoked, ExchangedOnce
  <2>5. CASE Refreshing(c)
    <3>1. PICK r : r = [q EXCEPT !.at = "issue"]
      OBVIOUS
    <3>2. tokenCall' = [tokenCall EXCEPT ![c] = r]
      BY <1>4, <2>5, <3>1 DEF Calling
    <3>3. Token(r) /\ r.at = "issue" /\ r.kind = q.kind /\ q.kind = "refresh"
      BY <1>2, <2>5, <3>1 DEF Token, Refreshing
    <3>4. ~unseen /\ ~together => ~(exchanged > 0)
      BY <1>1, <1>2, <3>3 DEF Tracked
    <3>5. Tracked(r)'
      BY <1>1, <2>4, <3>3, <3>4 DEF Tracked
    <3>6. QED
      BY <1>1, <2>3, <2>4, <2>5, <3>2, <3>5, TokenCallKeeps DEF TokenInv
  <2>6. CASE ~Refreshing(c)
    <3>1. tokenCall' = [tokenCall EXCEPT ![c] = NotCalled] /\ Tracked(NotCalled)'
      BY <1>4, <2>6 DEF Calling, Tracked
    <3>2. QED
      BY <1>1, <2>3, <2>4, <3>1, TokenCallKeeps DEF TokenInv
  <2>7. QED
    BY <2>5, <2>6
<1>5. QED
  BY <1>3, <1>4 DEF RevokeToken

LEMMA IssueKeeps ==
    ASSUME TokenInv, NEW c \in TokenCalls, IssueTokens(c)
    PROVE  TokenInv'
<1> DEFINE q == tokenCall[c]
<1>1. /\ UNCHANGED <<second, blacklist, entryUntil, revoked, unseen, together, wrongly>> /\ q.at = "issue"
      /\ tokenCall' = [tokenCall EXCEPT ![c] = NotCalled] /\ exchanged' = Min({exchanged + 1, 2})
  BY DEF IssueTokens, Calling
<1>2. Token(q) /\ Tracked(q) /\ q # NotCalled
  BY <1>1 DEF TokenInv, Tracked, NotCalled
<1>3. revoked /\ Refreshing(c) /\ q.kind = "refresh"
  BY <1>1, <1>2 DEF Tracked, Refreshing
<1>4. exchanged \in Nat /\ exchanged' = IF exchanged + 1 <= 2 THEN exchanged + 1 ELSE 2
  BY <1>1, MinOfTwo DEF TokenInv
<1>5. ~unseen /\ ~together => ~(exchanged > 0)
  BY <1>1, <1>2, <1>3 DEF Tracked
<1>6. ExchangedOnce' /\ Tracked(NotCalled)' /\ exchanged' \in Nat
  BY <1>1, <1>4, <1>5 DEF ExchangedOnce, Tracked
<1>7. QED
  BY <1>1, <1>3, <1>6, TokenCallKeeps DEF TokenInv, RevokedStaysRevoked

LEMMA RestartKeeps ==
    ASSUME TokenInv, NEW s \in Servers, RestartServer(s)
    PROVE  TokenInv'
<1>1. /\ UNCHANGED <<second, entryUntil, revoked, unseen, exchanged, together, wrongly>>
      /\ tokenCall' = [c \in TokenCalls |-> tokenCall'[c]]
      /\ \A c \in TokenCalls : tokenCall'[c] \in {NotCalled, tokenCall[c]}
  BY DEF RestartServer
<1>2. \A c \in TokenCalls : Tracked(tokenCall[c])'
  BY <1>1 DEF TokenInv, Tracked
<1>3. \A c \in TokenCalls : Refreshing(c)' => Refreshing(c)
  BY <1>1 DEF Refreshing
<1>4. QED
  BY <1>1, <1>2, <1>3 DEF TokenInv, RevokedStaysRevoked, ExchangedOnce

LEMMA TokenTickKeeps ==
    ASSUME TokenInv, TokenTick
    PROVE  TokenInv'
<1>1. /\ UNCHANGED <<entryUntil, tokenCall, revoked, unseen, exchanged, together, wrongly>>
      /\ second \in Nat /\ second' = second + 1 /\ TokenLife \in Nat
  BY CredentialsAssumption DEF TokenTick, TokenInv
<1>2. \A c \in TokenCalls : Tracked(tokenCall[c])'
  BY <1>1 DEF TokenInv, Tracked
<1>3. QED
  BY <1>1, <1>2 DEF TokenInv, Refreshing, RevokedStaysRevoked, ExchangedOnce

LEMMA TokenInvNext == TokenInv /\ [TokenNext]_tokenVars => TokenInv'
<1> SUFFICES ASSUME TokenInv, [TokenNext]_tokenVars PROVE TokenInv'
  OBVIOUS
<1>1. ASSUME NEW c \in TokenCalls, NEW kind \in {"use", "refresh", "revoke"}, NEW s \in Servers,
             BeginCall(c, kind, s)
      PROVE  TokenInv'
  BY <1>1, BeginCallKeeps
<1>2. ASSUME NEW c \in TokenCalls, IsTokenRevoked(c) PROVE TokenInv'
  BY <1>2, AskKeeps
<1>3. ASSUME NEW c \in TokenCalls, VerifyToken(c) PROVE TokenInv'
  BY <1>3, VerifyKeeps
<1>4. ASSUME NEW c \in TokenCalls, RevokeToken(c) PROVE TokenInv'
  BY <1>4, RevokeKeeps
<1>5. ASSUME NEW c \in TokenCalls, IssueTokens(c) PROVE TokenInv'
  BY <1>5, IssueKeeps
<1>6. CASE TokenTick
  BY <1>6, TokenTickKeeps
<1>7. ASSUME NEW s \in Servers, RestartServer(s) PROVE TokenInv'
  BY <1>7, RestartKeeps
<1>8. CASE UNCHANGED tokenVars
  BY <1>8 DEF tokenVars, TokenInv, Tracked, Refreshing, RevokedStaysRevoked, ExchangedOnce
<1>9. QED
  BY <1>1, <1>2, <1>3, <1>4, <1>5, <1>6, <1>7, <1>8 DEF TokenNext

(***************************************************************************)
(* For any servers, calls and lifetimes: a revoked token is accepted by    *)
(* nobody whose Redis answers, and a refresh token is exchanged once       *)
(* unless two refreshes overlap.                                           *)
(***************************************************************************)
THEOREM TokensStayRevoked == TokenSpec => [](RevokedStaysRevoked /\ ExchangedOnce)
<1>1. TokenInv => RevokedStaysRevoked /\ ExchangedOnce
  BY DEF TokenInv
<1>2. QED
  BY <1>1, TokenInvInit, TokenInvNext, PTL DEF TokenSpec

-----------------------------------------------------------------------------
(* HmacVerifier *)

(***************************************************************************)
(* A verification under way was begun in the window of the timestamp.      *)
(***************************************************************************)
Timely(r) ==
    r = NotVerifying \/
    /\ DOMAIN r = {"at", "age"} /\ r.at \in {"ask", "note"}
    /\ r.age \in Nat /\ r.age <= MaxCheck /\ time <= stamp + MaxAge + r.age

(***************************************************************************)
(* The first acceptance is remembered for as long as a verification that   *)
(* was begun in the window can ask; so none that asks later is about to    *)
(* accept.                                                                 *)
(***************************************************************************)
SignInv ==
    /\ time \in Nat /\ time >= MaxAge /\ stamp \in Nat /\ seenUntil \in Nat
    /\ accepted \in Nat /\ crossed \in BOOLEAN
    /\ verification = [v \in Verifications |-> verification[v]]
    /\ \A v \in Verifications : Timely(verification[v])
    /\ ~crossed => \A v, w \in Verifications :
           verification[v].at # "idle" /\ verification[w].at # "idle" => v = w
    /\ accepted > 0 => seenUntil >= 2 * MaxAge
    /\ ~crossed /\ stamp + MaxCheck < MaxAge /\ accepted > 0 =>
           \A v \in Verifications : verification[v].at # "note"
    /\ SignaturesAreUsedOnce

LEMMA SignInvInit == SignInit => SignInv
<1> SUFFICES ASSUME SignInit PROVE SignInv
  OBVIOUS
<1>1. /\ \A v \in Verifications : verification[v] = NotVerifying /\ verification[v].at = "idle"
      /\ verification = [v \in Verifications |-> verification[v]]
  BY DEF SignInit, NotVerifying
<1>2. /\ time \in Nat /\ time >= MaxAge /\ stamp \in Nat /\ seenUntil \in Nat /\ accepted \in Nat
      /\ ~(accepted > 0) /\ accepted <= 1
  BY CredentialsAssumption DEF SignInit
<1>3. crossed \in BOOLEAN
  BY DEF SignInit
<1>4. QED
  BY <1>1, <1>2, <1>3 DEF SignInv, Timely, SignaturesAreUsedOnce

\* A step of one verification: r is what becomes of it.
LEMMA VerifyingGives ==
    ASSUME SignInv, NEW v \in Verifications, NEW to \in {"idle", "ask", "note"}, Verifying(v, to),
           UNCHANGED <<time, stamp>>, to # "idle" => verification[v].age \in Nat /\
               verification[v].age <= MaxCheck /\ time <= stamp + MaxAge + verification[v].age
    PROVE  /\ verification' = [w \in Verifications |-> verification'[w]]
           /\ \A w \in Verifications : w # v => verification'[w] = verification[w]
           /\ verification'[v].at = to
           /\ \A w \in Verifications : Timely(verification[w])'
<1>1. /\ verification' = [w \in Verifications |-> verification'[w]]
      /\ \A w \in Verifications : w # v => verification'[w] = verification[w]
      /\ verification'[v] = IF to = "idle" THEN NotVerifying ELSE [at |-> to, age |-> verification[v].age]
  BY DEF Verifying, SignInv
<1>2. verification'[v].at = to
  BY <1>1 DEF NotVerifying
<1>3. Timely(verification[v])'
  <2>1. CASE to = "idle"
    BY <1>1, <2>1 DEF Timely
  <2>2. CASE to # "idle"
    BY <1>1, <2>2 DEF Timely
  <2>3. QED
    BY <2>1, <2>2
<1>4. \A w \in Verifications : w # v => Timely(verification[w])'
  BY <1>1 DEF SignInv, Timely
<1>5. QED
  BY <1>1, <1>2, <1>3, <1>4

LEMMA SignVerifyKeeps ==
    ASSUME SignInv, NEW v \in Verifications, Verify(v)
    PROVE  SignInv'
<1>1. /\ verification[v].at = "idle" /\ ~IsReplayAttack
      /\ crossed' = (crossed \/ \E w \in Verifications : verification[w].at # "idle")
      /\ Verifying(v, "ask") /\ UNCHANGED <<time, stamp, seenUntil, accepted>>
  BY DEF Verify
<1>2. verification[v].age = 0
  BY <1>1 DEF SignInv, Timely, NotVerifying
<1>3. MaxAge \in Nat /\ MaxCheck \in Nat /\ time \in Nat /\ stamp \in Nat
  BY CredentialsAssumption DEF SignInv
<1>4. time <= stamp + MaxAge
  BY <1>1, <1>3 DEF IsReplayAttack
<1>5. /\ verification' = [w \in Verifications |-> verification'[w]]
      /\ \A w \in Verifications : w # v => verification'[w] = verification[w]
      /\ verification'[v].at = "ask"
      /\ \A w \in Verifications : Timely(verification[w])'
  <2>1. /\ verification[v].age \in Nat /\ verification[v].age <= MaxCheck
        /\ time <= stamp + MaxAge + verification[v].age
    BY <1>2, <1>3, <1>4
  <2>2. PICK to \in {"idle", "ask", "note"} : to = "ask"
    OBVIOUS
  <2>3. Verifying(v, to)
    BY <1>1, <2>2
  <2>4. QED
    BY <1>1, <2>1, <2>2, <2>3, VerifyingGives
<1>6. crossed' \in BOOLEAN /\ (~crossed' => ~crossed /\ \A w \in Verifications : verification[w].at = "idle")
  BY <1>1 DEF SignInv
<1>7. QED
  BY <1>1, <1>5, <1>6 DEF SignInv, SignaturesAreUsedOnce

LEMMA SeenKeeps ==
    ASSUME SignInv, NEW v \in Verifications, SeenBefore(v)
    PROVE  SignInv'
<1>1. /\ verification[v].at = "ask" /\ UNCHANGED <<time, stamp, seenUntil, accepted, crossed>>
      /\ \E to \in {IF seenUntil > time THEN "idle" ELSE "note", "idle"} : Verifying(v, to)
  BY DEF SeenBefore
<1>2. PICK to \in {"idle", "note"} : Verifying(v, to) /\ (to = "note" => ~(seenUntil > time))
  BY <1>1
<1>3. /\ verification[v].age \in Nat /\ verification[v].age <= MaxCheck
      /\ time <= stamp + MaxAge + verification[v].age
  BY <1>1 DEF SignInv, Timely, NotVerifying
<1>4. to \in {"idle", "ask", "note"}
  OBVIOUS
<1>5. /\ verification' = [w \in Verifications |-> verification'[w]]
      /\ \A w \in Verifications : w # v => verification'[w] = verification[w]
      /\ verification'[v].at = to
      /\ \A w \in Verifications : Timely(verification[w])'
  BY <1>1, <1>2, <1>3, <1>4, VerifyingGives
<1>6. to = "note" => ~(stamp + MaxCheck < MaxAge /\ accepted > 0)
  BY <1>2, <1>3, CredentialsAssumption DEF SignInv
<1>7. QED
  BY <1>1, <1>2, <1>5, <1>6 DEF SignInv, SignaturesAreUsedOnce

LEMMA NoteKeeps ==
    ASSUME SignInv, NEW v \in Verifications, NoteSeen(v)
    PROVE  SignInv'
<1>1. /\ verification[v].at = "note" /\ UNCHANGED <<time, stamp, crossed>> /\ Verifying(v, "idle")
      /\ \/ seenUntil' = SeenExpiry /\ accepted' = Min({accepted + 1, 2})
         \/ UNCHANGED <<seenUntil, accepted>>
  BY DEF NoteSeen
<1>2. /\ verification' = [w \in Verifications |-> verification'[w]]
      /\ \A w \in Verifications : w # v => verification'[w] = verification[w]
      /\ verification'[v].at = "idle"
      /\ \A w \in Verifications : Timely(verification[w])'
  <2>1. PICK to \in {"idle", "ask", "note"} : to = "idle"
    OBVIOUS
  <2>2. Verifying(v, to)
    BY <1>1, <2>1
  <2>3. QED
    BY <1>1, <2>1, <2>2, VerifyingGives
<1>3. ~crossed => \A w \in Verifications : verification'[w].at = "idle"
  BY <1>1, <1>2 DEF SignInv
<1>4. CASE UNCHANGED <<seenUntil, accepted>>
  BY <1>1, <1>2, <1>3, <1>4 DEF SignInv, SignaturesAreUsedOnce
<1>5. CASE seenUntil' = SeenExpiry /\ accepted' = Min({accepted + 1, 2})
  <2>1. /\ accepted \in Nat /\ accepted' = IF accepted + 1 <= 2 THEN accepted + 1 ELSE 2
        /\ seenUntil' = time + MaxAge /\ time \in Nat /\ time >= MaxAge /\ MaxAge \in Nat
    BY <1>5, MinOfTwo, CredentialsAssumption DEF SeenExpiry, SignInv
  <2>2. ~crossed /\ stamp + MaxCheck < MaxAge => ~(accepted > 0)
    BY <1>1 DEF SignInv
  <2>3. accepted' \in Nat /\ seenUntil' \in Nat /\ seenUntil' >= 2 * MaxAge /\ SignaturesAreUsedOnce'
    BY <1>1, <2>1, <2>2 DEF SignaturesAreUsedOnce
  <2>4. QED
    BY <1>1, <1>2, <1>3, <2>3 DEF SignInv
<1>6. QED
  BY <1>1, <1>4, <1>5

LEMMA SignTickKeeps ==
    ASSUME SignInv, SignTick
    PROVE  SignInv'
<1>1. /\ time' = time + 1 /\ UNCHANGED <<stamp, seenUntil, accepted, crossed>>
      /\ verification' = [v \in Verifications |-> verification'[v]]
      /\ \A v \in Verifications : /\ verification[v].age < MaxCheck
                                  /\ verification'[v] = IF verification[v] = NotVerifying THEN NotVerifying
                                                        ELSE [verification[v] EXCEPT !.age = @ + 1]
  BY DEF SignTick
<1>2. time \in Nat /\ stamp \in Nat /\ MaxAge \in Nat /\ MaxCheck \in Nat
  BY CredentialsAssumption DEF SignInv
<1>3. ASSUME NEW v \in Verifications PROVE Timely(verification[v])' /\ verification'[v].at = verification[v].at
  <2>1. CASE verification[v] = NotVerifying
    BY <1>1, <2>1 DEF Timely
  <2>2. CASE verification[v] # NotVerifying
    <3>1. /\ DOMAIN verification[v] = {"at", "age"} /\ verification[v].at \in {"ask", "note"}
          /\ verification[v].age \in Nat /\ time <= stamp + MaxAge + verification[v].age
      BY <2>2 DEF SignInv, Timely
    <3>2. PICK r : r = [verification[v] EXCEPT !.age = @ + 1]
      OBVIOUS
    <3>3. DOMAIN r = {"at", "age"} /\ r.at = verification[v].at /\ r.age = verification[v].age + 1
      BY <3>1, <3>2
    <3>4. verification'[v] = r /\ verification[v].age < MaxCheck
      BY <1>1, <2>2, <3>2
    <3>5. r.age \in Nat /\ r.age <= MaxCheck /\ time' <= stamp' + MaxAge + r.age
      BY <1>1, <1>2, <3>1, <3>3, <3>4
    <3>6. QED
      BY <3>1, <3>3, <3>4, <3>5 DEF Timely
  <2>3. QED
    BY <2>1, <2>2
<1>4. time' \in Nat /\ time' >= MaxAge
  BY <1>1, <1>2 DEF SignInv
<1>5. QED
  BY <1>1, <1>3, <1>4 DEF SignInv, SignaturesAreUsedOnce

LEMMA SignInvNext == SignInv /\ [SignNext]_signVars => SignInv'
<1> SUFFICES ASSUME SignInv, [SignNext]_signVars PROVE SignInv'
  OBVIOUS
<1>1. CASE SignTick
  BY <1>1, SignTickKeeps
<1>2. ASSUME NEW v \in Verifications, Verify(v) PROVE SignInv'
  BY <1>2, SignVerifyKeeps
<1>3. ASSUME NEW v \in Verifications, SeenBefore(v) PROVE SignInv'
  BY <1>3, SeenKeeps
<1>4. ASSUME NEW v \in Verifications, NoteSeen(v) PROVE SignInv'
  BY <1>4, NoteKeeps
<1>5. CASE UNCHANGED signVars
  BY <1>5 DEF signVars, SignInv, Timely, SignaturesAreUsedOnce
<1>6. QED
  BY <1>1, <1>2, <1>3, <1>4, <1>5 DEF SignNext

(***************************************************************************)
(* For any window and any number of verifications: one signature is        *)
(* accepted once, if verifications follow each other and none takes longer *)
(* than the signature took to arrive (HmacVerifier.verifyLegacy).          *)
(***************************************************************************)
THEOREM SignaturesStayUsed == SignSpec => []SignaturesAreUsedOnce
<1>1. SignInv => SignaturesAreUsedOnce
  BY DEF SignInv
<1>2. QED
  BY <1>1, SignInvInit, SignInvNext, PTL DEF SignSpec

-----------------------------------------------------------------------------
(* ApiKeyStrategy *)

\* A request that came after the revocation is refused, or about to read it.
Refusable(r) ==
    r = NotCalled \/
    /\ DOMAIN r = {"at", "server", "late"} /\ r.late \in BOOLEAN
    /\ r.late => r.at = "refused" \/ (r.at = "cache" /\ keyEntry = "revoked")

KeyInv ==
    /\ keyWiring \in {"module", "cached"} /\ keyEntry \in {"none", "active", "revoked"}
    /\ revoking = [s \in Servers |-> revoking[s]]
    /\ keyCall = [c \in TokenCalls |-> keyCall[c]]
    /\ keyWiring = "cached" => \A s \in Servers : revoking[s] = "done" => keyEntry = "revoked"
    /\ \A c \in TokenCalls : Refusable(keyCall[c])

LEMMA KeyInvInit == KeyInit => KeyInv
  BY DEF KeyInit, KeyInv, Refusable

\* What a step of one request leaves to show: r is what becomes of it.
LEMMA KeyCallKeeps ==
    ASSUME KeyInv, NEW c \in TokenCalls, NEW r, keyCall' = [keyCall EXCEPT ![c] = r], Refusable(r)',
           UNCHANGED <<keyWiring, keyRecord, keyEntry, revokedKeys, revoking>>
    PROVE  KeyInv'
<1>1. /\ keyCall' = [d \in TokenCalls |-> keyCall'[d]] /\ keyCall'[c] = r
      /\ \A d \in TokenCalls : d # c => keyCall'[d] = keyCall[d]
  BY DEF KeyInv
<1>2. \A d \in TokenCalls : Refusable(keyCall[d])'
  BY <1>1 DEF KeyInv, Refusable
<1>3. QED
  BY <1>1, <1>2 DEF KeyInv

LEMMA AuthenticateKeeps ==
    ASSUME KeyInv, NEW c \in TokenCalls, NEW s \in Servers, AuthenticateKey(c, s)
    PROVE  KeyInv'
<1>1. PICK r : r = [at |-> IF s \in revokedKeys THEN "refused" ELSE IF keyWiring = "cached" THEN "cache" ELSE "record",
                    server |-> s, late |-> KeyIsOut(s)]
  OBVIOUS
<1>2. keyCall' = [keyCall EXCEPT ![c] = r] /\ UNCHANGED <<keyWiring, keyRecord, keyEntry, revokedKeys, revoking>>
  BY <1>1 DEF AuthenticateKey
<1>3. Refusable(r)
  BY <1>1 DEF Refusable, KeyInv, KeyIsOut
<1>4. Refusable(r)'
  BY <1>2, <1>3 DEF Refusable
<1>5. QED
  BY <1>2, <1>4, KeyCallKeeps

LEMMA KeyAnswerKeeps ==
    ASSUME KeyInv, NEW c \in TokenCalls, ReadKeyEntry(c) \/ FindByKeyHash(c)
    PROVE  KeyInv'
<1>1. UNCHANGED <<keyWiring, keyRecord, keyEntry, revokedKeys, revoking>>
  BY DEF ReadKeyEntry, FindByKeyHash
<1>2. PICK to : Ends(c, to) /\ (keyCall[c].late => to = "refused")
  BY DEF ReadKeyEntry, FindByKeyHash, Asking, KeyInv, Refusable, NotCalled
<1>3. DOMAIN keyCall[c] = {"at", "server", "late"} /\ keyCall[c].late \in BOOLEAN
  BY DEF ReadKeyEntry, FindByKeyHash, Asking, KeyInv, Refusable, NotCalled
<1>4. PICK r : r = [keyCall[c] EXCEPT !.at = to]
  OBVIOUS
<1>5. keyCall' = [keyCall EXCEPT ![c] = r]
  BY <1>2, <1>4 DEF Ends
<1>6. Refusable(r)'
  BY <1>2, <1>3, <1>4 DEF Refusable
<1>7. QED
  BY <1>1, <1>5, <1>6, KeyCallKeeps

LEMMA KeyServerKeeps ==
    ASSUME KeyInv, NEW s \in Servers, RevokeApiKey(s) \/ WriteRevoked(s) \/ ServerRestarts(s)
    PROVE  KeyInv'
<1>1. /\ keyWiring' = keyWiring /\ keyEntry' \in {keyEntry, "revoked"}
      /\ keyCall' = [c \in TokenCalls |-> keyCall'[c]]
      /\ \A c \in TokenCalls : keyCall'[c] \in {NotCalled, keyCall[c]}
  BY DEF RevokeApiKey, WriteRevoked, ServerRestarts, KeyInv
<1>2. \A c \in TokenCalls : Refusable(keyCall[c])'
  BY <1>1 DEF KeyInv, Refusable
<1>3. /\ revoking' = [t \in Servers |-> revoking'[t]]
      /\ \A t \in Servers : t # s => revoking'[t] = revoking[t]
  BY DEF RevokeApiKey, WriteRevoked, ServerRestarts, KeyInv
<1>4. keyWiring = "cached" /\ revoking'[s] = "done" => revoking[s] = "done" \/ keyEntry' = "revoked"
  BY DEF RevokeApiKey, WriteRevoked, ServerRestarts, KeyInv
<1>5. QED
  BY <1>1, <1>2, <1>3, <1>4 DEF KeyInv

LEMMA KeyInvNext == KeyInv /\ [KeyNext]_keyVars => KeyInv'
<1> SUFFICES ASSUME KeyInv, [KeyNext]_keyVars PROVE KeyInv'
  OBVIOUS
<1>1. ASSUME NEW c \in TokenCalls, NEW s \in Servers, AuthenticateKey(c, s) PROVE KeyInv'
  BY <1>1, AuthenticateKeeps
<1>2. ASSUME NEW c \in TokenCalls, ReadKeyEntry(c) \/ FindByKeyHash(c) PROVE KeyInv'
  BY <1>2, KeyAnswerKeeps
<1>3. ASSUME NEW s \in Servers, RevokeApiKey(s) \/ WriteRevoked(s) \/ ServerRestarts(s) PROVE KeyInv'
  BY <1>3, KeyServerKeeps
<1>4. CASE UNCHANGED keyVars
  BY <1>4 DEF keyVars, KeyInv, Refusable
<1>5. QED
  BY <1>1, <1>2, <1>3, <1>4 DEF KeyNext

(***************************************************************************)
(* For any servers and requests: one that begins after revokeApiKey has    *)
(* returned is refused, in every process if there is a cache and in the    *)
(* one that revoked the key otherwise.                                     *)
(***************************************************************************)
THEOREM KeysStayRevoked == KeySpec => []RevokedKeysAreRefused
<1>1. KeyInv => RevokedKeysAreRefused
  BY DEF KeyInv, Refusable, RevokedKeysAreRefused, Asking, NotCalled
<1>2. QED
  BY <1>1, KeyInvInit, KeyInvNext, PTL DEF KeySpec

-----------------------------------------------------------------------------
(* Roles and permissions *)

(***************************************************************************)
(* Whatever roles and permissions a context holds, no special check lets   *)
(* pass what the general one refuses (PermissionChecker).                  *)
(***************************************************************************)
LEMMA PermissionsAgree == ChecksAgree
  BY DEF ChecksAgree, ContextPermits, HasPermission, CanViewDelivery, CanModifyDestination,
         CanViewAuditLog, HasRole, RolePermissions, RolePermissionsMap, Permissions

-----------------------------------------------------------------------------
(* SecretsManager *)

Kept(k, ttl) ==
    /\ DOMAIN k = {"value", "left"} /\ k.value \in Nat /\ k.left \in Nat /\ k.left <= ttl
    /\ k # NotKept => k.value > 0 /\ k.left > 0
Busy(b) ==
    /\ DOMAIN b = {"value", "age"} /\ b.value \in Nat /\ b.age \in Nat /\ b.age <= MaxRead
    /\ b # NotBusy => b.value > 0

\* A value the server has replaced.
OldFor(s, value) == value > 0 /\ value < own[s]

SecretTypes ==
    /\ own = [s \in Servers |-> own[s]] /\ environment = own
    /\ remembered = [s \in Servers |-> remembered[s]] /\ reading = [s \in Servers |-> reading[s]]
    /\ writing = [s \in Servers |-> writing[s]] /\ settled = [s \in Servers |-> settled[s]]
    /\ Kept(shared, SharedTtl)
    /\ \A s \in Servers :
          /\ own[s] \in Nat /\ own[s] > 0 /\ own[s] <= MaxRotations /\ settled[s] \in Nat
          /\ Kept(remembered[s], SecretTtl) /\ Busy(reading[s]) /\ Busy(writing[s])

(***************************************************************************)
(* A replaced value is where it may still be so long after the server set  *)
(* its own: in a write begun before, then in Redis, in a read of it, and   *)
(* in the cache of the process.                                            *)
(***************************************************************************)
Fading(s) ==
    /\ \A t \in Servers : OldFor(s, writing[t].value) => settled[s] <= writing[t].age
    /\ OldFor(s, shared.value) => settled[s] + shared.left <= MaxRead + SharedTtl
    /\ OldFor(s, reading[s].value) => settled[s] <= MaxRead + SharedTtl + reading[s].age
    /\ OldFor(s, remembered[s].value) => settled[s] + remembered[s].left <= LateBy

SecretInv ==
    /\ SecretTypes
    /\ \A s \in Servers : Fading(s)
    /\ ~stale

\* A set of naturals with a bound has a greatest element.
LEMMA BoundedHasMax ==
    ASSUME NEW S, S # {}, NEW b \in Nat, \A x \in S : x \in Nat /\ x <= b
    PROVE  Max(S) \in S /\ \A x \in S : x <= Max(S)
<1> DEFINE T == {n \in Nat : b - n \in S}
<1>1. T \subseteq Nat /\ T # {}
  <2>1. PICK x \in S : TRUE
    OBVIOUS
  <2>2. b - x \in Nat /\ b - (b - x) = x
    BY <2>1
  <2>3. b - x \in T
    BY <2>1, <2>2
  <2>4. QED
    BY <2>3
<1>2. PICK n \in T : \A m \in T : ~(<<m, n>> \in OpToRel(<, Nat))
  <2> HIDE DEF T
  <2>1. QED
    BY <1>1, NatLessThanWellFounded, WFMin
<1>3. \A m \in T : ~(m < n)
  BY <1>1, <1>2 DEF OpToRel
<1>4. b - n \in S /\ n \in Nat
  BY <1>2
<1>5. ASSUME NEW x \in S PROVE x <= b - n
  <2>1. x \in Nat /\ x <= b /\ b - x \in Nat /\ b - (b - x) = x
    OBVIOUS
  <2>2. b - x \in T
    BY <2>1
  <2>3. ~(b - x < n)
    BY <1>3, <2>2
  <2>4. QED
    BY <1>4, <2>1, <2>3
<1>6. \E x \in S : \A y \in S : x >= y
  <2>1. \A y \in S : b - n >= y
    BY <1>4, <1>5
  <2>2. QED
    BY <1>4, <2>1
<1>7. Max(S) \in S /\ \A y \in S : Max(S) >= y
  BY <1>6 DEF Max
<1>8. QED
  BY <1>7

\* setSecret and rotateSecret store a value nobody has set before.
LEMMA NewestIsNew ==
    ASSUME SecretTypes, Servers # {}
    PROVE  Newest \in Nat /\ \A s \in Servers : own[s] < Newest
<1> DEFINE S == {own[s] : s \in Servers}
<1>1. S # {} /\ (\A x \in S : x \in Nat /\ x <= MaxRotations) /\ MaxRotations \in Nat
  BY CredentialsAssumption DEF SecretTypes
<1>2. Max(S) \in S /\ \A x \in S : x <= Max(S)
  <2> HIDE DEF S
  <2>1. QED
    BY <1>1, BoundedHasMax
<1>3. Max(S) \in Nat /\ \A s \in Servers : own[s] \in Nat /\ own[s] <= Max(S)
  BY <1>1, <1>2
<1>4. Newest = Max(S) + 1
  BY DEF Newest
<1>5. QED
  <2> HIDE DEF S
  <2>1. QED
    BY <1>3, <1>4

LEMMA SecretNumbers ==
    /\ SharedTtl \in Nat \ {0} /\ SecretTtl \in Nat \ {0} /\ MaxRead \in Nat /\ MaxRotations \in Nat \ {0}
    /\ LateBy \in Nat /\ LateBy = MaxRead + SharedTtl + MaxRead + SecretTtl
  BY CredentialsAssumption DEF LateBy

LEMMA Nothing ==
    /\ Kept(NotKept, SharedTtl) /\ Kept(NotKept, SecretTtl) /\ Busy(NotBusy)
    /\ NotKept.value = 0 /\ NotKept.left = 0 /\ NotBusy.value = 0 /\ NotBusy.age = 0
  BY SecretNumbers DEF Kept, Busy, NotKept, NotBusy

LEMMA SecretInvInit == SecretInit => SecretInv
<1> SUFFICES ASSUME SecretInit PROVE SecretInv
  OBVIOUS
<1>1. SecretTypes
  BY Nothing, SecretNumbers DEF SecretInit, SecretTypes
<1>2. \A s \in Servers : Fading(s)
  BY Nothing DEF SecretInit, Fading, OldFor
<1>3. QED
  BY <1>1, <1>2 DEF SecretInit, SecretInv

LEMMA GetSecretKeeps ==
    ASSUME SecretInv, NEW s \in Servers, GetSecret(s)
    PROVE  SecretInv'
<1> USE SecretNumbers
<1>1. reading[s] = NotBusy /\ UNCHANGED <<environment, shared, writing, own, settled>>
  BY DEF GetSecret
<1>2. SecretTypes /\ (\A t \in Servers : Fading(t)) /\ ~stale
  BY DEF SecretInv
<1>3. CASE remembered[s] # NotKept /\ Got(s, remembered[s].value) /\ UNCHANGED <<reading, remembered>>
  <2>1. remembered[s].value < own[s] => settled[s] < LateBy
    BY <1>2, <1>3 DEF SecretTypes, Kept, Fading, OldFor
  <2>2. ~(remembered[s].value < own[s] /\ settled[s] >= LateBy)
    BY <1>2, <2>1 DEF SecretTypes
  <2>3. ~stale'
    BY <1>2, <1>3, <2>2, Zenon DEF Got
  <2>4. SecretTypes' /\ \A t \in Servers : Fading(t)'
    BY <1>1, <1>2, <1>3 DEF SecretTypes, Fading, OldFor
  <2>5. QED
    BY <2>3, <2>4 DEF SecretInv
<1>4. CASE /\ shared # NotKept /\ UNCHANGED <<remembered, stale>>
           /\ reading' = [reading EXCEPT ![s] = [value |-> shared.value, age |-> 0]]
  <2>1. PICK r : r = [value |-> shared.value, age |-> 0]
    OBVIOUS
  <2>2. Busy(r) /\ r.value = shared.value /\ r.age = 0
    BY <1>2, <1>4, <2>1 DEF SecretTypes, Kept, Busy
  <2>3. /\ reading' = [t \in Servers |-> reading'[t]] /\ reading'[s] = r
        /\ \A t \in Servers : t # s => reading'[t] = reading[t]
    BY <1>2, <1>4, <2>1 DEF SecretTypes
  <2>4. SecretTypes'
    BY <1>1, <1>2, <1>4, <2>2, <2>3 DEF SecretTypes
  <2>5. OldFor(s, r.value) => settled[s] <= MaxRead + SharedTtl + r.age
    BY <1>2, <2>2 DEF SecretTypes, Kept, Fading
  <2>6. \A t \in Servers : Fading(t)'
    BY <1>1, <1>2, <1>4, <2>3, <2>5 DEF Fading, OldFor
  <2>7. QED
    BY <1>2, <1>4, <2>4, <2>6 DEF SecretInv
<1>5. CASE Got(s, environment[s]) /\ CacheSecret(s, environment[s]) /\ UNCHANGED reading
  <2>1. PICK r : r = [value |-> own[s], left |-> SecretTtl]
    OBVIOUS
  <2>2. Kept(r, SecretTtl) /\ r.value = own[s]
    BY <1>2, <2>1 DEF SecretTypes, Kept
  <2>3. /\ remembered' = [t \in Servers |-> remembered'[t]] /\ remembered'[s] = r
        /\ \A t \in Servers : t # s => remembered'[t] = remembered[t]
    BY <1>2, <1>5, <2>1 DEF SecretTypes, CacheSecret
  <2>4. SecretTypes'
    BY <1>1, <1>2, <1>5, <2>2, <2>3 DEF SecretTypes
  <2>5. ~OldFor(s, r.value)
    BY <1>2, <2>2 DEF SecretTypes, OldFor
  <2>6. \A t \in Servers : Fading(t)'
    BY <1>1, <1>2, <1>5, <2>3, <2>5 DEF Fading, OldFor
  <2>7. ~(environment[s] < own[s] /\ settled[s] >= LateBy)
    BY <1>2 DEF SecretTypes
  <2>8. ~stale'
    BY <1>2, <1>5, <2>7, Zenon DEF Got
  <2>9. QED
    BY <2>4, <2>6, <2>8 DEF SecretInv
<1>6. QED
  BY <1>3, <1>4, <1>5 DEF GetSecret

LEMMA GotFromRedisKeeps ==
    ASSUME SecretInv, NEW s \in Servers, GotFromRedis(s)
    PROVE  SecretInv'
<1> USE SecretNumbers
<1>1. /\ reading[s] # NotBusy /\ UNCHANGED <<environment, shared, writing, own, settled>>
      /\ Got(s, reading[s].value) /\ CacheSecret(s, reading[s].value)
      /\ reading' = [reading EXCEPT ![s] = NotBusy]
  BY DEF GotFromRedis
<1>2. SecretTypes /\ (\A t \in Servers : Fading(t)) /\ ~stale
  BY DEF SecretInv
<1>3. PICK r : r = [value |-> reading[s].value, left |-> SecretTtl]
  OBVIOUS
<1>4. Kept(r, SecretTtl) /\ r.value = reading[s].value /\ r.left = SecretTtl /\ r.value > 0
  BY <1>1, <1>2, <1>3 DEF SecretTypes, Kept, Busy
<1>5. /\ remembered' = [t \in Servers |-> remembered'[t]] /\ remembered'[s] = r
      /\ \A t \in Servers : t # s => remembered'[t] = remembered[t]
  BY <1>1, <1>2, <1>3 DEF SecretTypes, CacheSecret
<1>6. /\ reading' = [t \in Servers |-> reading'[t]] /\ reading'[s] = NotBusy
      /\ \A t \in Servers : t # s => reading'[t] = reading[t]
  BY <1>1, <1>2 DEF SecretTypes
<1>7. SecretTypes'
  BY <1>1, <1>2, <1>4, <1>5, <1>6, Nothing DEF SecretTypes
<1>8. r.value < own[s] => settled[s] <= MaxRead + SharedTtl + MaxRead
  BY <1>2, <1>4 DEF SecretTypes, Busy, Fading, OldFor
<1>9. ~stale'
  <2>1. ~(reading[s].value < own[s] /\ settled[s] >= LateBy)
    BY <1>2, <1>4, <1>8 DEF SecretTypes
  <2>2. QED
    BY <1>1, <1>2, <2>1, Zenon DEF Got
<1>10. OldFor(s, r.value) => settled[s] + r.left <= LateBy
  BY <1>2, <1>4, <1>8 DEF OldFor, SecretTypes
<1>11. \A t \in Servers : Fading(t)'
  BY <1>1, <1>2, <1>5, <1>6, <1>10, Nothing DEF Fading, OldFor
<1>12. QED
  BY <1>7, <1>9, <1>11 DEF SecretInv

LEMMA SetSecretKeeps ==
    ASSUME SecretInv, NEW s \in Servers, SetSecret(s)
    PROVE  SecretInv'
<1> USE SecretNumbers
<1>1. /\ Newest <= MaxRotations /\ writing[s] = NotBusy
      /\ CacheSecret(s, Newest) /\ environment' = [environment EXCEPT ![s] = Newest]
      /\ own' = [own EXCEPT ![s] = Newest] /\ settled' = [settled EXCEPT ![s] = 0]
      /\ writing' = [writing EXCEPT ![s] = [value |-> Newest, age |-> 0]]
      /\ UNCHANGED <<shared, reading, stale>>
  BY DEF SetSecret
<1>2. SecretTypes /\ (\A t \in Servers : Fading(t)) /\ ~stale
  BY DEF SecretInv
<1>3. PICK n : n = Newest
  OBVIOUS
<1>4. n \in Nat /\ n > 0 /\ n <= MaxRotations /\ \A t \in Servers : own[t] < n
  <2>1. Newest \in Nat /\ \A t \in Servers : own[t] < Newest
    BY <1>2, NewestIsNew
  <2>2. QED
    BY <1>1, <1>2, <1>3, <2>1 DEF SecretTypes
<1>5. PICK k : k = [value |-> n, left |-> SecretTtl]
  OBVIOUS
<1>6. PICK w : w = [value |-> n, age |-> 0]
  OBVIOUS
<1>7. Kept(k, SecretTtl) /\ Busy(w) /\ k.value = n /\ w.value = n
  BY <1>4, <1>5, <1>6 DEF Kept, Busy
<1>8. /\ own' = [t \in Servers |-> own'[t]] /\ own'[s] = n /\ environment' = own'
      /\ settled' = [t \in Servers |-> settled'[t]] /\ settled'[s] = 0
      /\ writing' = [t \in Servers |-> writing'[t]] /\ writing'[s] = w
      /\ remembered' = [t \in Servers |-> remembered'[t]] /\ remembered'[s] = k
  BY <1>1, <1>2, <1>3, <1>5, <1>6 DEF SecretTypes, CacheSecret
<1>9. \A t \in Servers : t # s => /\ own'[t] = own[t] /\ settled'[t] = settled[t]
                                  /\ writing'[t] = writing[t] /\ remembered'[t] = remembered[t]
  BY <1>1, <1>2 DEF SecretTypes, CacheSecret
<1>10. SecretTypes'
  BY <1>1, <1>2, <1>4, <1>7, <1>8, <1>9 DEF SecretTypes
<1>11. Fading(s)'
  <2>1. \A t \in Servers : settled'[s] <= writing'[t].age
    BY <1>8, <1>10 DEF SecretTypes, Busy
  <2>2. settled'[s] + shared'.left <= MaxRead + SharedTtl
    BY <1>8, <1>10 DEF SecretTypes, Kept
  <2>3. settled'[s] <= MaxRead + SharedTtl + reading'[s].age
    BY <1>8, <1>10 DEF SecretTypes, Busy
  <2>4. ~(remembered'[s].value < own'[s])
    BY <1>4, <1>7, <1>8
  <2>5. QED
    BY <2>1, <2>2, <2>3, <2>4 DEF Fading, OldFor
<1>12. ASSUME NEW t \in Servers, t # s PROVE Fading(t)'
  <2>1. ~(n < own[t])
    BY <1>2, <1>4 DEF SecretTypes
  <2>2. Fading(t)
    BY <1>2
  <2>3. QED
    BY <1>1, <1>7, <1>8, <1>9, <1>12, <2>1, <2>2 DEF Fading, OldFor
<1>13. QED
  BY <1>1, <1>2, <1>10, <1>11, <1>12 DEF SecretInv

LEMMA SecretWrittenKeeps ==
    ASSUME SecretInv, NEW s \in Servers, SecretWritten(s)
    PROVE  SecretInv'
<1> USE SecretNumbers
<1>1. /\ writing[s] # NotBusy /\ writing' = [writing EXCEPT ![s] = NotBusy]
      /\ shared' \in {[value |-> writing[s].value, left |-> SharedTtl], shared}
      /\ UNCHANGED <<environment, remembered, reading, own, settled, stale>>
  BY DEF SecretWritten
<1>2. SecretTypes /\ (\A t \in Servers : Fading(t)) /\ ~stale
  BY DEF SecretInv
<1>3. /\ writing' = [t \in Servers |-> writing'[t]] /\ writing'[s] = NotBusy
      /\ \A t \in Servers : t # s => writing'[t] = writing[t]
  BY <1>1, <1>2 DEF SecretTypes
<1>4. Kept(shared', SharedTtl) /\ \A t \in Servers : OldFor(t, shared'.value) => settled[t] + shared'.left <= MaxRead + SharedTtl
  <2>1. CASE shared' = shared
    BY <1>2, <2>1 DEF SecretTypes, Fading
  <2>2. CASE shared' = [value |-> writing[s].value, left |-> SharedTtl]
    <3>1. Kept(shared', SharedTtl) /\ shared'.value = writing[s].value /\ shared'.left = SharedTtl
      BY <1>1, <1>2, <2>2 DEF SecretTypes, Kept, Busy
    <3>2. QED
      BY <1>2, <3>1 DEF SecretTypes, Busy, Fading
  <2>3. QED
    BY <1>1, <2>1, <2>2
<1>5. SecretTypes'
  BY <1>1, <1>2, <1>3, <1>4, Nothing DEF SecretTypes
<1>6. \A t \in Servers : Fading(t)'
  BY <1>1, <1>2, <1>3, <1>4, Nothing DEF Fading, OldFor
<1>7. QED
  BY <1>1, <1>2, <1>5, <1>6 DEF SecretInv

LEMMA OlderIs ==
    ASSUME NEW k, NEW ttl \in Nat, Kept(k, ttl)
    PROVE  /\ Kept(Older(k), ttl) /\ Older(k).value \in {0, k.value}
           /\ Older(k).value > 0 => Older(k).left + 1 = k.left
<1>1. CASE k.left <= 1
  BY <1>1 DEF Older, Kept, NotKept
<1>2. CASE ~(k.left <= 1)
  <2>1. PICK r : r = [k EXCEPT !.left = @ - 1]
    OBVIOUS
  <2>2. /\ DOMAIN r = {"value", "left"} /\ r.value = k.value /\ r.left = k.left - 1 /\ r = Older(k)
    BY <1>2, <2>1 DEF Kept, Older
  <2>3. k # NotKept
    BY <1>2 DEF NotKept
  <2>4. Kept(r, ttl) /\ r.left + 1 = k.left
    BY <1>2, <2>2, <2>3 DEF Kept
  <2>5. QED
    BY <2>2, <2>4
<1>3. QED
  BY <1>1, <1>2

LEMMA LongerIs ==
    ASSUME NEW b, Busy(b), b.age < MaxRead
    PROVE  /\ Busy(Longer(b)) /\ Longer(b).value = b.value
           /\ Longer(b).value > 0 => Longer(b).age = b.age + 1
<1>1. CASE b = NotBusy
  BY <1>1, Nothing DEF Longer
<1>2. CASE b # NotBusy
  <2>1. PICK r : r = [b EXCEPT !.age = @ + 1]
    OBVIOUS
  <2>2. /\ DOMAIN r = {"value", "age"} /\ r.value = b.value /\ r.age = b.age + 1 /\ r = Longer(b)
    BY <1>2, <2>1 DEF Busy, Longer
  <2>3. Busy(r)
    BY <1>2, <2>2, SecretNumbers DEF Busy
  <2>4. QED
    BY <2>2, <2>3
<1>3. QED
  BY <1>1, <1>2

LEMMA SecretTickKeeps ==
    ASSUME SecretInv, SecretTick
    PROVE  SecretInv'
<1> USE SecretNumbers
<1>1. /\ \A s \in Servers : reading[s].age < MaxRead /\ writing[s].age < MaxRead
      /\ reading' = [s \in Servers |-> Longer(reading[s])]
      /\ writing' = [s \in Servers |-> Longer(writing[s])]
      /\ remembered' = [s \in Servers |-> Older(remembered[s])] /\ shared' = Older(shared)
      /\ settled' = [s \in Servers |-> Min({settled[s] + 1, LateBy})]
      /\ UNCHANGED <<environment, own, stale>>
  BY DEF SecretTick
<1>2. SecretTypes /\ (\A t \in Servers : Fading(t)) /\ ~stale
  BY DEF SecretInv
<1>3. /\ reading' = [s \in Servers |-> reading'[s]] /\ writing' = [s \in Servers |-> writing'[s]]
      /\ remembered' = [s \in Servers |-> remembered'[s]] /\ settled' = [s \in Servers |-> settled'[s]]
  BY <1>1
<1>4. ASSUME NEW s \in Servers
      PROVE  /\ Busy(reading'[s]) /\ reading'[s].value = reading[s].value
             /\ reading'[s].value > 0 => reading'[s].age = reading[s].age + 1
             /\ Busy(writing'[s]) /\ writing'[s].value = writing[s].value
             /\ writing'[s].value > 0 => writing'[s].age = writing[s].age + 1
  <2>1. Busy(reading[s]) /\ Busy(writing[s]) /\ reading[s].age < MaxRead /\ writing[s].age < MaxRead
    BY <1>1, <1>2 DEF SecretTypes
  <2>2. reading'[s] = Longer(reading[s]) /\ writing'[s] = Longer(writing[s])
    BY <1>1
  <2>3. QED
    BY <2>1, <2>2, LongerIs
<1>5. ASSUME NEW s \in Servers
      PROVE  /\ Kept(remembered'[s], SecretTtl) /\ remembered'[s].value \in {0, remembered[s].value}
             /\ remembered'[s].value > 0 => remembered'[s].left + 1 = remembered[s].left
  <2>1. Kept(remembered[s], SecretTtl) /\ remembered'[s] = Older(remembered[s])
    BY <1>1, <1>2 DEF SecretTypes
  <2>2. QED
    BY <2>1, OlderIs
<1>6. /\ Kept(shared', SharedTtl) /\ shared'.value \in {0, shared.value}
      /\ shared'.value > 0 => shared'.left + 1 = shared.left
  BY <1>1, <1>2, OlderIs DEF SecretTypes
<1>7. ASSUME NEW s \in Servers PROVE settled'[s] \in Nat /\ settled'[s] <= settled[s] + 1 /\ settled[s] \in Nat
  <2>1. settled[s] \in Nat /\ settled'[s] = Min({settled[s] + 1, LateBy})
    BY <1>1, <1>2 DEF SecretTypes
  <2>2. settled'[s] = IF settled[s] + 1 <= LateBy THEN settled[s] + 1 ELSE LateBy
    BY <2>1, MinOfTwo
  <2>3. QED
    BY <2>1, <2>2
<1>8. SecretTypes'
  BY <1>1, <1>2, <1>3, <1>4, <1>5, <1>6, <1>7 DEF SecretTypes
<1>9. ASSUME NEW s \in Servers PROVE Fading(s)'
  <2>1. Fading(s) /\ own'[s] = own[s]
    BY <1>1, <1>2
  <2>2. \A t \in Servers : OldFor(s, writing[t].value)' => settled'[s] <= writing'[t].age
    BY <1>2, <1>4, <1>7, <2>1 DEF Fading, OldFor, SecretTypes, Busy
  <2>3. OldFor(s, shared.value)' => settled'[s] + shared'.left <= MaxRead + SharedTtl
    BY <1>2, <1>6, <1>7, <2>1 DEF Fading, OldFor, SecretTypes, Kept
  <2>4. OldFor(s, reading[s].value)' => settled'[s] <= MaxRead + SharedTtl + reading'[s].age
    BY <1>2, <1>4, <1>7, <2>1 DEF Fading, OldFor, SecretTypes, Busy
  <2>5. OldFor(s, remembered[s].value)' => settled'[s] + remembered'[s].left <= LateBy
    BY <1>2, <1>5, <1>7, <2>1 DEF Fading, OldFor, SecretTypes, Kept
  <2>6. QED
    BY <2>2, <2>3, <2>4, <2>5 DEF Fading, LateBy
<1>10. QED
  BY <1>1, <1>2, <1>8, <1>9 DEF SecretInv

LEMMA SecretInvNext == SecretInv /\ [SecretNext]_secretVars => SecretInv'
<1> SUFFICES ASSUME SecretInv, [SecretNext]_secretVars PROVE SecretInv'
  OBVIOUS
<1>1. ASSUME NEW s \in Servers, GetSecret(s) PROVE SecretInv'
  BY <1>1, GetSecretKeeps
<1>2. ASSUME NEW s \in Servers, GotFromRedis(s) PROVE SecretInv'
  BY <1>2, GotFromRedisKeeps
<1>3. ASSUME NEW s \in Servers, SetSecret(s) PROVE SecretInv'
  BY <1>3, SetSecretKeeps
<1>4. ASSUME NEW s \in Servers, SecretWritten(s) PROVE SecretInv'
  BY <1>4, SecretWrittenKeeps
<1>5. CASE SecretTick
  BY <1>5, SecretTickKeeps
<1>6. CASE UNCHANGED secretVars
  BY <1>6 DEF secretVars, SecretInv, SecretTypes, Fading, OldFor
<1>7. QED
  BY <1>1, <1>2, <1>3, <1>4, <1>5, <1>6 DEF SecretNext

(***************************************************************************)
(* For any servers and lifetimes: a server gets no value older than the    *)
(* one it set, once a write begun before, what it kept in Redis, a read of *)
(* that and what the read kept are over (SecretsManager).                  *)
(***************************************************************************)
THEOREM RotationsStaySettled == SecretSpec => []RotationsSettle
<1>1. SecretInv => RotationsSettle
  BY DEF SecretInv, RotationsSettle
<1>2. QED
  BY <1>1, SecretInvInit, SecretInvNext, PTL DEF SecretSpec

-----------------------------------------------------------------------------
(***************************************************************************)
(* What was withdrawn or used up is refused from then on, for any servers, *)
(* calls, lifetimes and windows (the security module).                     *)
(***************************************************************************)
THEOREM CredentialsStayGood == CredentialsSpec => []CredentialsHold
<1>1. CredentialsSpec => TokenSpec /\ SignSpec /\ SecretSpec /\ KeySpec
  BY DEF CredentialsSpec
<1>2. /\ RevokedStaysRevoked /\ ExchangedOnce /\ SignaturesAreUsedOnce /\ RotationsSettle
      /\ RevokedKeysAreRefused
      => CredentialsHold
  BY PermissionsAgree DEF CredentialsHold
<1>3. QED
  BY <1>1, <1>2, TokensStayRevoked, SignaturesStayUsed, RotationsStaySettled, KeysStayRevoked, PTL

-----------------------------------------------------------------------------
(* RateLimiting *)

\* The steps a request can wait for.
Commands ==
    IF limiter \in {"sliding", "advanced"} THEN {"trim", "add", "count"}
    ELSE IF limiter = "quota" THEN {"get", "track"} ELSE {"get", "set"}

\* A request under way takes less than a tick.
Request(r) ==
    /\ DOMAIN r = {"at", "node", "t", "id", "ask", "bucket"}
    /\ r.at \in Commands /\ r.node \in ApiNodes /\ r.t = clock
    /\ r.ask \in Asks /\ (r.ask = 1 \/ limiter = "floor")

LimitBase ==
    /\ limiter \in Limiters
    /\ clock \in Nat /\ slack \in Nat /\ outages \in Nat
    /\ call = [c \in Callers |-> call[c]] /\ memory = [n \in ApiNodes |-> memory[n]]
    /\ \A c \in Callers : call[c] = NoCall \/ Request(call[c])
    /\ IsFiniteSet(granted)
    /\ \A g \in granted : g = [id |-> g.id, at |-> g.at, via |-> g.via] /\ g.at \in Nat /\ g.at <= clock

\* The member of the sorted set that stands for a granted request.
HitOf(g) == [score |-> g.at, id |-> IF limiter = "sliding" THEN g.id ELSE g.at]
Recent(g) == g.at > clock - Window

\* What only a reset takes out of the set while the window lasts.
LostGrants == {g \in granted : g.via = "redis" /\ Recent(g) /\ HitOf(g) \notin redis}
LostCalls == {c \in Callers : Waits(c, "count") /\ Member(c) \notin redis}

(***************************************************************************)
(* The grants of the present window are in the set they were counted in,   *)
(* but for those that were under way at a reset.                           *)
(***************************************************************************)
WindowInv ==
    /\ IsFiniteSet(redis) /\ \A n \in ApiNodes : IsFiniteSet(memory[n])
    /\ limiter = "sliding" =>
         /\ \A g \in granted : g.via # "redis" /\ Recent(g) => g.via \in ApiNodes /\ HitOf(g) \in memory[g.via]
         /\ Cardinality(LostGrants) + Cardinality(LostCalls) <= slack
    /\ limiter = "advanced" =>
         /\ \A g \in granted : Recent(g) => HitOf(g) \in redis
         /\ \A c \in Callers : call[c].at \in {"trim", "count"} => Member(c) \in redis
    /\ SlidingWindowHolds

Bucket(b) ==
    /\ DOMAIN b = {"tokens", "last"}
    /\ b.tokens \in Nat /\ b.tokens <= Capacity /\ b.last \in Nat /\ b.last <= clock
OneBucket(raw) == raw = {} \/ \E b \in raw : raw = {b} /\ Bucket(b)

\* What a request read of the bucket, and writes back.
Held(b) == Bucket(b) /\ b.last = clock /\ b.tokens >= IF limiter = "floor" THEN Rate ELSE 1

\* What was granted and what the bucket holds now has been paid for.
Ledger ==
    limiter # "floor" =>
        Cardinality(granted) + Refilled(redis, clock).tokens
            <= Capacity + slack + IF limiter = "legacy" THEN clock * Rate ELSE 0

BucketInv ==
    /\ OneBucket(redis) /\ \A n \in ApiNodes : OneBucket(memory[n])
    /\ \A c \in Callers : Waits(c, "set") => Held(call[c].bucket)
    /\ Ledger
    /\ SmallCallsPass

Tracking == {c \in Callers : Waits(c, "track")}
OneCount(raw) == raw = {} \/ \E k \in raw : raw = {k} /\ k \in Nat

QuotaInv ==
    /\ OneCount(redis) /\ \A n \in ApiNodes : OneCount(memory[n])
    /\ outages = 0 => /\ Cardinality(granted) <= Counted(redis)
                      /\ Cardinality(granted) + Cardinality(Tracking) < Limit + Cardinality(Callers)

LimitInv ==
    /\ LimitBase
    /\ limiter \in {"sliding", "advanced"} => WindowInv
    /\ limiter \in {"legacy", "burst", "floor"} => BucketInv
    /\ limiter = "quota" => QuotaInv

LEMMA LimitNumbers ==
    /\ Rate \in Nat /\ Rate > 0 /\ Window \in Nat /\ Window > 0 /\ Limit \in Nat /\ Limit > 0
    /\ Capacity \in Nat /\ Capacity >= Rate /\ Capacity = Rate * Window
    /\ \A a \in Asks : a \in Nat /\ a > 0 /\ a <= Capacity
    /\ IsFiniteSet(Callers) /\ IsFiniteSet(ApiNodes) /\ "redis" \notin ApiNodes
<1>1. /\ Rate \in Nat /\ Rate > 0 /\ Window \in Nat /\ Window > 0 /\ Limit \in Nat /\ Limit > 0
      /\ IsFiniteSet(Callers) /\ IsFiniteSet(ApiNodes) /\ "redis" \notin ApiNodes
      /\ Asks \subseteq 1..Rate * Window
  BY LimitAssumption
<1>2. Rate * Window \in Nat /\ Rate * Window >= Rate
  BY <1>1
<1>3. QED
  BY <1>1, <1>2 DEF Capacity

\* A limiter is one of the six.
LEMMA SixLimiters ==
    LimitBase => limiter \in {"sliding", "advanced", "legacy", "floor", "burst", "quota"}
  BY LimitAssumption DEF LimitBase

LEMMA Busied ==
    ASSUME LimitBase, NEW c \in Callers, call[c].at # "idle"
    PROVE  call[c] # NoCall /\ Request(call[c])
  BY DEF LimitBase, NoCall

Grant(c, via) == [id |-> call[c].id, at |-> call[c].t, via |-> via]

\* A step of one request: r is what becomes of it.
LEMMA GoesKeepsBase ==
    ASSUME LimitBase, NEW c \in Callers, NEW r, Goes(c, r), r = NoCall \/ Request(r),
           UNCHANGED <<limiter, clock>>, slack' \in Nat, outages' \in Nat,
           memory' = [n \in ApiNodes |-> memory'[n]], granted' = granted
    PROVE  LimitBase'
<1>1. /\ call' = [d \in Callers |-> call'[d]] /\ call'[c] = r
      /\ \A d \in Callers : d # c => call'[d] = call[d]
  BY DEF LimitBase, Goes
<1>2. \A d \in Callers : call'[d] = NoCall \/ Request(call'[d])
  BY <1>1 DEF LimitBase
<1>3. \A d \in Callers : call'[d] = NoCall \/ Request(call[d])'
  BY <1>2 DEF Request, Commands
<1>4. QED
  BY <1>1, <1>3 DEF LimitBase

\* A request that is over.
LEMMA OverKeepsBase ==
    ASSUME LimitBase, NEW c \in Callers, call[c] # NoCall, Goes(c, NoCall),
           UNCHANGED <<limiter, clock>>, slack' \in Nat, outages' \in Nat,
           memory' = [n \in ApiNodes |-> memory'[n]],
           granted' = granted \/ \E via : granted' = granted \cup {Grant(c, via)}
    PROVE  LimitBase'
<1>1. /\ call' = [d \in Callers |-> call'[d]] /\ call'[c] = NoCall
      /\ \A d \in Callers : d # c => call'[d] = call[d]
  BY DEF LimitBase, Goes
<1>2. \A d \in Callers : call'[d] = NoCall \/ Request(call'[d])
  BY <1>1 DEF LimitBase
<1>3. \A d \in Callers : call'[d] = NoCall \/ Request(call[d])'
  BY <1>2 DEF Request, Commands
<1>4. /\ IsFiniteSet(granted')
      /\ \A g \in granted' : g = [id |-> g.id, at |-> g.at, via |-> g.via] /\ g.at \in Nat /\ g.at <= clock
  <2>1. CASE granted' = granted
    BY <2>1 DEF LimitBase
  <2>2. CASE \E via : granted' = granted \cup {Grant(c, via)}
    <3>1. PICK via : granted' = granted \cup {Grant(c, via)}
      BY <2>2
    <3>2. PICK g : g = Grant(c, via)
      OBVIOUS
    <3>3. g = [id |-> g.id, at |-> g.at, via |-> g.via] /\ g.at = clock
      BY <3>2 DEF Grant, LimitBase, Request
    <3>4. IsFiniteSet(granted \cup {g})
      BY FS_AddElement DEF LimitBase
    <3>5. QED
      BY <3>1, <3>2, <3>3, <3>4 DEF LimitBase
  <2>3. QED
    BY <2>1, <2>2
<1>5. QED
  BY <1>1, <1>3, <1>4 DEF LimitBase

\* What Settle leaves of the history.
LEMMA SettleMeans ==
    ASSUME NEW c \in Callers, NEW ok, NEW via, Settle(c, ok, via)
    PROVE  /\ Goes(c, NoCall)
           /\ (ok /\ granted' = granted \cup {Grant(c, via)} /\ refused' = refused)
              \/ (~ok /\ granted' = granted /\ refused' = refused \cup {call[c].ask})
  BY Zenon DEF Settle, Grant

LEMMA LimitBaseInit == LimitInit => LimitBase
<1> SUFFICES ASSUME LimitInit PROVE LimitBase
  OBVIOUS
<1>1. IsFiniteSet(granted) /\ granted = {}
  BY FS_EmptySet DEF LimitInit
<1>2. QED
  BY <1>1 DEF LimitInit, LimitBase

LEMMA ArriveKeepsBase ==
    ASSUME LimitBase, NEW c \in Callers, NEW n \in ApiNodes, NEW ask \in Asks, Arrive(c, n, ask)
    PROVE  LimitBase'
<1>1. PICK r : r = [at |-> CASE limiter = "sliding" -> "trim" [] limiter = "advanced" -> "add"
                            [] OTHER -> "get",
                    node |-> n, t |-> clock, id |-> hits, ask |-> ask, bucket |-> NoBucket]
  OBVIOUS
<1>2. Goes(c, r) /\ UNCHANGED <<limiter, clock, memory, granted, slack, outages>> /\ (ask = 1 \/ limiter = "floor")
  BY <1>1 DEF Arrive
<1>3. r.at = IF limiter = "sliding" THEN "trim" ELSE IF limiter = "advanced" THEN "add" ELSE "get"
  BY <1>1
<1>4. /\ DOMAIN r = {"at", "node", "t", "id", "ask", "bucket"} /\ r.node = n /\ r.t = clock /\ r.ask = ask
  BY <1>1
<1>5. Request(r)
  BY <1>2, <1>3, <1>4, SixLimiters DEF Request, Commands
<1>6. QED
  BY <1>2, <1>5, GoesKeepsBase DEF LimitBase

LEMMA HitsKeepBase ==
    ASSUME LimitBase, NEW c \in Callers, Trim(c) \/ Add(c)
    PROVE  LimitBase'
<1>1. call[c].at \in {"trim", "add"}
  BY DEF Trim, Add, Waits
<1>2. Request(call[c])
  BY <1>1, Busied
<1>3. limiter \in {"sliding", "advanced"}
  BY <1>1, <1>2, SixLimiters DEF Request, Commands
<1>4. PICK to \in {"trim", "add", "count"} : Goes(c, [call[c] EXCEPT !.at = to])
  BY DEF Trim, Add
<1>5. PICK r : r = [call[c] EXCEPT !.at = to]
  OBVIOUS
<1>6. Request(r)
  BY <1>2, <1>3, <1>5 DEF Request, Commands
<1>7. Goes(c, r) /\ UNCHANGED <<limiter, clock, memory, granted, slack, outages>>
  BY <1>4, <1>5 DEF Trim, Add, LimitRest
<1>8. QED
  BY <1>6, <1>7, GoesKeepsBase DEF LimitBase

LEMMA CountKeepsBase ==
    ASSUME LimitBase, NEW c \in Callers, Count(c)
    PROVE  LimitBase'
<1>1. UNCHANGED <<limiter, clock, memory, slack, outages>> /\ call[c].at = "count"
  BY DEF Count, LimitRest, Waits
<1>2. Settle(c, Cardinality(redis) <= Limit, "redis")
  BY DEF Count
<1>3. Goes(c, NoCall) /\ (granted' = granted \/ \E via : granted' = granted \cup {Grant(c, via)})
  BY <1>2 DEF Settle, Grant
<1>4. QED
  BY <1>1, <1>3, Busied, OverKeepsBase DEF LimitBase

LEMMA GetBucketKeepsBase ==
    ASSUME LimitBase, NEW c \in Callers, GetBucket(c)
    PROVE  LimitBase'
<1>1. UNCHANGED <<limiter, clock, memory, slack, outages>> /\ call[c].at = "get"
      /\ limiter \in {"legacy", "floor", "burst"}
  BY DEF GetBucket, LimitRest, Waits
<1>2. call[c] # NoCall /\ Request(call[c])
  BY <1>1, Busied
<1>3. PICK b : b = Refilled(redis, call[c].t)
  OBVIOUS
<1>4. PICK r : r = [call[c] EXCEPT !.at = "set", !.bucket = b]
  OBVIOUS
<1>5. Request(r)
  BY <1>1, <1>2, <1>4 DEF Request, Commands
<1>6. CASE Goes(c, r) /\ granted' = granted
  BY <1>1, <1>5, <1>6, GoesKeepsBase DEF LimitBase
<1>7. CASE Settle(c, FALSE, "redis")
  <2>1. Goes(c, NoCall) /\ granted' = granted
    BY <1>7 DEF Settle
  <2>2. QED
    BY <1>1, <1>2, <2>1, OverKeepsBase DEF LimitBase
<1>8. QED
  BY <1>3, <1>4, <1>6, <1>7 DEF GetBucket

LEMMA SetBucketKeepsBase ==
    ASSUME LimitBase, NEW c \in Callers, SetBucket(c), PutBack(c) \in Nat
    PROVE  LimitBase'
<1>1. UNCHANGED <<limiter, clock, memory, outages>> /\ call[c].at = "set" /\ slack' = slack + PutBack(c)
  BY DEF SetBucket, LimitRest, Waits
<1>2. Goes(c, NoCall) /\ (granted' = granted \/ \E via : granted' = granted \cup {Grant(c, via)})
  BY DEF SetBucket, Settle, Grant
<1>3. slack' \in Nat
  BY <1>1 DEF LimitBase
<1>4. QED
  BY <1>1, <1>2, <1>3, Busied, OverKeepsBase DEF LimitBase

LEMMA QuotaKeepsBase ==
    ASSUME LimitBase, NEW c \in Callers, CheckQuota(c) \/ TrackUsage(c)
    PROVE  LimitBase'
<1>1. /\ UNCHANGED <<limiter, clock, slack, outages>> /\ call[c].at \in {"get", "track"}
      /\ memory' = [n \in ApiNodes |-> memory'[n]]
  BY DEF CheckQuota, TrackUsage, LimitRest, Waits, LimitBase
<1>2. call[c] # NoCall /\ Request(call[c])
  BY <1>1, Busied
<1>3. PICK r : r = [call[c] EXCEPT !.at = "track"]
  OBVIOUS
<1>4. CASE limiter = "quota" /\ Goes(c, r) /\ granted' = granted
  <2>1. Request(r)
    BY <1>2, <1>3, <1>4 DEF Request, Commands
  <2>2. QED
    BY <1>1, <1>4, <2>1, GoesKeepsBase DEF LimitBase
<1>5. CASE Goes(c, NoCall) /\ (granted' = granted \/ \E via : granted' = granted \cup {Grant(c, via)})
  BY <1>1, <1>2, <1>5, OverKeepsBase DEF LimitBase
<1>6. QED
  BY <1>3, <1>4, <1>5 DEF CheckQuota, TrackUsage, Settle, Grant

LEMMA FailKeepsBase ==
    ASSUME LimitBase, NEW c \in Callers, RedisFails(c)
    PROVE  LimitBase'
<1>1. /\ UNCHANGED <<limiter, clock, redis, hits>> /\ call[c] # NoCall /\ Fallback(c) /\ outages' = outages + 1
  BY DEF RedisFails, LimitRest
<1>2. Request(call[c]) /\ outages' \in Nat
  BY <1>1 DEF LimitBase
<1>3. memory' = [n \in ApiNodes |-> memory'[n]] /\ slack' = slack
  BY <1>1 DEF Fallback, LimitBase
<1>4. PICK r : r = [call[c] EXCEPT !.at = "track"]
  OBVIOUS
<1>5. CASE limiter = "quota" /\ Goes(c, r) /\ granted' = granted
  <2>1. Request(r)
    BY <1>2, <1>4, <1>5 DEF Request, Commands
  <2>2. QED
    BY <1>1, <1>2, <1>3, <1>5, <2>1, GoesKeepsBase DEF LimitBase
<1>6. CASE Goes(c, NoCall) /\ (granted' = granted \/ \E via : granted' = granted \cup {Grant(c, via)})
  BY <1>1, <1>2, <1>3, <1>6, OverKeepsBase DEF LimitBase
<1>7. QED
  BY <1>1, <1>4, <1>5, <1>6 DEF Fallback, Settle, Grant

LEMMA FlightsFinite == IsFiniteSet(InFlight) /\ Cardinality(InFlight) \in Nat
<1>1. InFlight \subseteq Callers
  BY DEF InFlight
<1>2. QED
  BY <1>1, LimitNumbers, FS_Subset, FS_CardinalityType

LEMMA ResetKeepsBase ==
    ASSUME LimitBase, NEW n \in ApiNodes, Reset(n)
    PROVE  LimitBase'
<1>1. /\ UNCHANGED <<limiter, clock, call>> /\ outages' = outages + 1 /\ granted' \subseteq granted
      /\ slack' = slack + IF limiter = "legacy" THEN Capacity ELSE Cardinality(InFlight)
      /\ memory' = [m \in ApiNodes |-> memory'[m]]
  BY DEF Reset, LimitBase
<1>2. slack' \in Nat /\ outages' \in Nat
  BY <1>1, FlightsFinite, LimitNumbers DEF LimitBase
<1>3. IsFiniteSet(granted')
  BY <1>1, FS_Subset DEF LimitBase
<1>4. QED
  BY <1>1, <1>2, <1>3 DEF LimitBase, Request, Commands

LEMMA TickKeepsBase ==
    ASSUME LimitBase, LimitTick
    PROVE  LimitBase'
<1>1. /\ UNCHANGED <<limiter, memory, call, granted, outages>> /\ clock' = clock + 1
      /\ \A c \in Callers : call[c] = NoCall
      /\ slack' = slack \/ slack' = slack + IF limiter = "burst" THEN Capacity ELSE 0
  BY DEF LimitTick, InFlight
<1>2. slack' \in Nat /\ clock' \in Nat /\ clock <= clock'
  BY <1>1, LimitNumbers DEF LimitBase
<1>3. QED
  BY <1>1, <1>2 DEF LimitBase

\* The grants of one source in the window that ends at t, and in the present one.
Within(v, t) == {g \in granted : g.via = v /\ g.at \in (t - Window + 1)..t}
Present(v) == Within(v, clock)
Moments(grants) == {g.at : g \in grants}

LEMMA WindowsByName ==
    SlidingWindowHolds <=>
        \A v \in Sources, t \in 0..clock :
            /\ limiter = "sliding" => Cardinality(Within(v, t)) <= Limit + slack
            /\ limiter = "advanced" => Cardinality(Moments(Within(v, t))) <= Limit
  BY DEF SlidingWindowHolds, Within, Moments

\* Fewer grants, and no more moments.
LEMMA FewerGrants ==
    ASSUME NEW S, NEW T, IsFiniteSet(T), S \subseteq T
    PROVE  /\ IsFiniteSet(S) /\ Cardinality(S) \in Nat /\ Cardinality(T) \in Nat
           /\ Cardinality(S) <= Cardinality(T)
  BY FS_Subset, FS_CardinalityType

LEMMA MomentsFinite ==
    ASSUME LimitBase, NEW v, NEW t \in Nat
    PROVE  IsFiniteSet(Moments(Within(v, t))) /\ IsFiniteSet(Within(v, t))
<1>1. Moments(Within(v, t)) \subseteq 0..t
  BY DEF Moments, Within, LimitBase
<1>2. IsFiniteSet(0..t)
  BY FS_Interval
<1>3. Within(v, t) \subseteq granted /\ IsFiniteSet(granted)
  BY DEF Within, LimitBase
<1>4. QED
  BY <1>1, <1>2, <1>3, FS_Subset

(***************************************************************************)
(* Windows that are over see no new grant, so only the present one matters. *)
(***************************************************************************)
LEMMA WindowsStay ==
    ASSUME LimitBase, LimitBase', SlidingWindowHolds, limiter' = limiter, slack' >= slack,
           \/ clock' = clock /\ \A g \in granted' : g \in granted \/ g.at = clock
           \/ clock' = clock + 1 /\ granted' = granted,
           \A v \in Sources :
              \/ Present(v)' \subseteq Present(v)
              \/ /\ limiter = "sliding" => Cardinality(Present(v)') <= Limit + slack'
                 /\ limiter = "advanced" => Cardinality(Moments(Present(v)')) <= Limit
    PROVE  SlidingWindowHolds'
<1>0. clock \in Nat /\ clock' \in Nat /\ slack \in Nat /\ slack' \in Nat /\ Window \in Nat /\ Limit \in Nat
  BY LimitNumbers DEF LimitBase
<1>1. ASSUME NEW v \in Sources, NEW t \in 0..clock', t # clock'
      PROVE  Within(v, t)' \subseteq Within(v, t) /\ t \in 0..clock
  <2>1. t \in 0..clock /\ t \in Nat
    BY <1>0, <1>1
  <2>2. CASE clock' = clock /\ \A g \in granted' : g \in granted \/ g.at = clock
    BY <1>0, <1>1, <2>1, <2>2 DEF Within
  <2>3. CASE clock' = clock + 1 /\ granted' = granted
    BY <2>1, <2>3 DEF Within
  <2>4. QED
    BY <2>1, <2>2, <2>3
<1>2. ASSUME NEW v \in Sources, NEW t \in 0..clock, NEW W, W \subseteq Within(v, t)
      PROVE  /\ limiter = "sliding" => Cardinality(W) <= Limit + slack'
             /\ limiter = "advanced" => Cardinality(Moments(W)) <= Limit
  <2>1. Moments(W) \subseteq Moments(Within(v, t))
    BY <1>2 DEF Moments
  <2>2. IsFiniteSet(Moments(Within(v, t))) /\ IsFiniteSet(Within(v, t))
    BY <1>0, MomentsFinite
  <2>3. /\ limiter = "sliding" => Cardinality(Within(v, t)) <= Limit + slack
        /\ limiter = "advanced" => Cardinality(Moments(Within(v, t))) <= Limit
    BY WindowsByName
  <2>4. /\ Cardinality(W) \in Nat /\ Cardinality(Within(v, t)) \in Nat
        /\ Cardinality(W) <= Cardinality(Within(v, t))
    BY <1>2, <2>2, FewerGrants
  <2>5. /\ Cardinality(Moments(W)) \in Nat /\ Cardinality(Moments(Within(v, t))) \in Nat
        /\ Cardinality(Moments(W)) <= Cardinality(Moments(Within(v, t)))
    BY <2>1, <2>2, FewerGrants
  <2>6. QED
    BY <1>0, <2>3, <2>4, <2>5
<1>3. ASSUME NEW v \in Sources, NEW t \in 0..clock'
      PROVE  /\ limiter' = "sliding" => Cardinality(Within(v, t)') <= Limit + slack'
             /\ limiter' = "advanced" => Cardinality(Moments(Within(v, t)')) <= Limit
  <2>1. CASE t # clock'
    BY <1>1, <1>2, <1>3, <2>1
  <2>2. CASE t = clock'
    <3>1. Within(v, t)' = Present(v)'
      BY <2>2 DEF Present, Within
    <3>2. CASE Present(v)' \subseteq Present(v)
      <4>1. Within(v, t)' \subseteq Within(v, clock) /\ clock \in 0..clock
        BY <1>0, <3>1, <3>2 DEF Present
      <4>2. QED
        BY <1>2, <4>1
    <3>3. CASE /\ limiter = "sliding" => Cardinality(Present(v)') <= Limit + slack'
               /\ limiter = "advanced" => Cardinality(Moments(Present(v)')) <= Limit
      BY <3>1, <3>3
    <3>4. QED
      BY <3>2, <3>3
  <2>3. QED
    BY <2>1, <2>2
<1>4. SlidingWindowHolds'
  BY <1>3 DEF SlidingWindowHolds, Within, Moments
<1>5. QED
  BY <1>4

\* The accounts of what a reset has lost.
LEMMA LostFinite ==
    ASSUME LimitBase
    PROVE  /\ IsFiniteSet(LostGrants) /\ IsFiniteSet(LostCalls)
           /\ Cardinality(LostGrants) \in Nat /\ Cardinality(LostCalls) \in Nat
<1>1. LostGrants \subseteq granted /\ LostCalls \subseteq Callers /\ IsFiniteSet(granted)
  BY DEF LostGrants, LostCalls, LimitBase
<1>2. QED
  BY <1>1, LimitNumbers, FewerGrants

LEMMA NothingMoreIsLost ==
    ASSUME LimitBase, Cardinality(LostGrants) + Cardinality(LostCalls) <= slack,
           LostGrants' \subseteq LostGrants, LostCalls' \subseteq LostCalls, slack' \in Nat, slack' >= slack
    PROVE  Cardinality(LostGrants') + Cardinality(LostCalls') <= slack'
<1>1. /\ Cardinality(LostGrants) \in Nat /\ Cardinality(LostCalls) \in Nat /\ slack \in Nat
      /\ Cardinality(LostGrants') \in Nat /\ Cardinality(LostCalls') \in Nat
      /\ Cardinality(LostGrants') <= Cardinality(LostGrants) /\ Cardinality(LostCalls') <= Cardinality(LostCalls)
  BY LostFinite, FewerGrants DEF LimitBase
<1>2. QED
  BY <1>1

\* The other requests go on waiting, with the members they had.
LEMMA OthersWait ==
    ASSUME LimitBase, NEW c \in Callers, NEW r, Goes(c, r), limiter' = limiter
    PROVE  /\ call'[c] = r
           /\ \A d \in Callers : d # c => call'[d] = call[d] /\ Member(d)' = Member(d)
<1>1. call'[c] = r /\ \A d \in Callers : d # c => call'[d] = call[d]
  BY DEF LimitBase, Goes
<1>2. QED
  BY <1>1 DEF Member

\* A step of a request that grants and loses nothing.
LEMMA WindowGoesOn ==
    ASSUME LimitBase, LimitBase', WindowInv, limiter \in {"sliding", "advanced"}, NEW c \in Callers, NEW r, Goes(c, r),
           UNCHANGED <<limiter, clock, memory, granted, slack>>,
           IsFiniteSet(redis'),
           \A h : h \in redis /\ h.score > clock - Window => h \in redis',
           r.at \in {"trim", "count"} => Member(c)' \in redis' \/ (limiter = "sliding" /\ r.at = "trim"),
           \A d \in Callers : call[d].at # "idle" => call[d].t = clock
    PROVE  WindowInv'
<1>1. call'[c] = r /\ \A d \in Callers : d # c => call'[d] = call[d] /\ Member(d)' = Member(d)
  BY OthersWait
<1>2. \A g \in granted : Recent(g) /\ HitOf(g) \in redis => HitOf(g) \in redis' /\ HitOf(g)' = HitOf(g) /\ Recent(g)'
  BY DEF HitOf, Recent
<1>3. \A d \in Callers : call[d].at \in {"trim", "count"} /\ Member(d) \in redis => Member(d) \in redis'
  <2>1. ASSUME NEW d \in Callers, call[d].at \in {"trim", "count"}, Member(d) \in redis
        PROVE  Member(d) \in redis'
    <3>1. Member(d).score = clock
      BY <2>1 DEF Member
    <3>2. clock > clock - Window
      BY LimitNumbers DEF LimitBase
    <3>3. QED
      BY <2>1, <3>1, <3>2
  <2>2. QED
    BY <2>1
<1>4. LostGrants' \subseteq LostGrants
  BY <1>2 DEF LostGrants, HitOf, Recent
<1>5. limiter = "sliding" => LostCalls' \subseteq LostCalls
  BY <1>1, <1>3 DEF LostCalls, Waits
<1>6. limiter = "sliding" => Cardinality(LostGrants') + Cardinality(LostCalls') <= slack'
  BY <1>4, <1>5, NothingMoreIsLost DEF WindowInv, LimitBase
<1>7. limiter = "sliding" => \A g \in granted' : g.via # "redis" /\ Recent(g)' => g.via \in ApiNodes /\ HitOf(g)' \in memory'[g.via]
  BY DEF WindowInv, HitOf, Recent
<1>8. limiter = "advanced" => \A g \in granted' : Recent(g)' => HitOf(g)' \in redis'
  BY <1>2 DEF WindowInv, Recent
<1>9. limiter = "advanced" => \A d \in Callers : call'[d].at \in {"trim", "count"} => Member(d)' \in redis'
  BY <1>1, <1>3 DEF WindowInv
<1>10. SlidingWindowHolds'
  BY DEF WindowInv, SlidingWindowHolds
<1>11. QED
  BY <1>6, <1>7, <1>8, <1>9, <1>10 DEF WindowInv

LEMMA AllAtClock ==
    ASSUME LimitBase
    PROVE  \A d \in Callers : call[d].at # "idle" => call[d].t = clock
  BY DEF LimitBase, Request, NoCall

LEMMA ArriveKeepsWindow ==
    ASSUME LimitBase, LimitBase', WindowInv, limiter \in {"sliding", "advanced"},
           NEW c \in Callers, NEW n \in ApiNodes, NEW ask \in Asks, Arrive(c, n, ask)
    PROVE  WindowInv'
<1>1. PICK r : r = [at |-> CASE limiter = "sliding" -> "trim" [] limiter = "advanced" -> "add"
                            [] OTHER -> "get",
                    node |-> n, t |-> clock, id |-> hits, ask |-> ask, bucket |-> NoBucket]
  OBVIOUS
<1>2. Goes(c, r) /\ UNCHANGED <<limiter, clock, redis, memory, granted, slack>>
  BY <1>1 DEF Arrive
<1>3. r.at = IF limiter = "sliding" THEN "trim" ELSE "add"
  BY <1>1
<1>4. IsFiniteSet(redis') /\ \A h : h \in redis => h \in redis'
  BY <1>2 DEF WindowInv
<1>5. QED
  BY <1>2, <1>3, <1>4, AllAtClock, WindowGoesOn

LEMMA TrimKeepsWindow ==
    ASSUME LimitBase, LimitBase', WindowInv, limiter \in {"sliding", "advanced"}, NEW c \in Callers, Trim(c)
    PROVE  WindowInv'
<1>1. /\ call[c].at = "trim" /\ redis' = Trimmed(redis, call[c].t)
      /\ UNCHANGED <<limiter, clock, memory, granted, slack>>
  BY DEF Trim, Waits, LimitRest
<1>2. PICK r : r = [call[c] EXCEPT !.at = IF limiter = "sliding" THEN "add" ELSE "count"]
  OBVIOUS
<1>3. Goes(c, r)
  BY <1>2 DEF Trim
<1>4. Request(call[c])
  BY <1>1, Busied
<1>5. r.at = (IF limiter = "sliding" THEN "add" ELSE "count") /\ r.t = call[c].t /\ r.id = call[c].id
  BY <1>2, <1>4 DEF Request
<1>6. call[c].t = clock /\ redis' = {h \in redis : h.score > clock - Window}
  BY <1>1, <1>4 DEF Request, Trimmed
<1>7. IsFiniteSet(redis') /\ \A h : h \in redis /\ h.score > clock - Window => h \in redis'
  BY <1>6, FS_Subset DEF WindowInv
<1>8. limiter = "advanced" => Member(c)' \in redis'
  <2>1. Member(c)' = Member(c) /\ Member(c).score = clock
    BY <1>1, <1>3, <1>5, <1>6, OthersWait DEF Member
  <2>2. clock > clock - Window
    BY LimitNumbers DEF LimitBase
  <2>3. QED
    BY <1>1, <1>6, <2>1, <2>2 DEF WindowInv
<1>9. QED
  BY <1>1, <1>3, <1>5, <1>7, <1>8, AllAtClock, WindowGoesOn

LEMMA AddKeepsWindow ==
    ASSUME LimitBase, LimitBase', WindowInv, limiter \in {"sliding", "advanced"}, NEW c \in Callers, Add(c)
    PROVE  WindowInv'
<1>1. /\ call[c].at = "add" /\ redis' = redis \cup {Member(c)}
      /\ UNCHANGED <<limiter, clock, memory, granted, slack>>
  BY DEF Add, Waits, LimitRest
<1>2. PICK r : r = [call[c] EXCEPT !.at = IF limiter = "sliding" THEN "count" ELSE "trim"]
  OBVIOUS
<1>3. Goes(c, r)
  BY <1>2 DEF Add
<1>4. Request(call[c])
  BY <1>1, Busied
<1>5. r.t = call[c].t /\ r.id = call[c].id
  BY <1>2, <1>4 DEF Request
<1>6. Member(c)' = Member(c)
  BY <1>1, <1>3, <1>5, OthersWait DEF Member
<1>7. IsFiniteSet(redis') /\ (\A h : h \in redis => h \in redis') /\ Member(c)' \in redis'
  BY <1>1, <1>6, FS_AddElement DEF WindowInv
<1>8. QED
  BY <1>1, <1>3, <1>7, AllAtClock, WindowGoesOn

\* Grants of one source that are in a set are no more than the set.
LEMMA GrantsFit ==
    ASSUME limiter = "sliding", NEW R, IsFiniteSet(R), NEW W, \A g, h \in W : g.via = h.via,
           \A g \in W : g = [id |-> g.id, at |-> g.at, via |-> g.via] /\ HitOf(g) \in R
    PROVE  IsFiniteSet(W) /\ Cardinality(W) <= Cardinality(R)
<1> DEFINE f == [g \in W |-> HitOf(g)]
<1>1. f \in [W -> R]
  OBVIOUS
<1>2. ASSUME NEW g \in W, NEW h \in W, f[g] = f[h] PROVE g = h
  <2>1. g.id = h.id /\ g.at = h.at /\ g.via = h.via
    BY <1>2 DEF HitOf
  <2>2. [id |-> g.id, at |-> g.at, via |-> g.via] = [id |-> h.id, at |-> h.at, via |-> h.via]
    BY <2>1, Zenon
  <2>3. QED
    BY <2>2, Zenon
<1>3. f \in Injection(W, R)
  BY <1>1, <1>2 DEF Injection, IsInjective
<1>4. QED
  BY <1>3, FS_Injection

LEMMA MomentsFit ==
    ASSUME NEW R, IsFiniteSet(R), NEW T, \A a \in T : [score |-> a, id |-> a] \in R
    PROVE  IsFiniteSet(T) /\ Cardinality(T) <= Cardinality(R)
<1> DEFINE f == [a \in T |-> [score |-> a, id |-> a]]
<1>1. f \in [T -> R] /\ \A a \in T, b \in T : f[a] = f[b] => a = b
  OBVIOUS
<1>2. f \in Injection(T, R)
  BY <1>1 DEF Injection, IsInjective
<1>3. QED
  BY <1>2, FS_Injection

\* A request that ends and grants nothing.
LEMMA WindowRefuses ==
    ASSUME LimitBase, LimitBase', WindowInv, limiter \in {"sliding", "advanced"}, NEW c \in Callers, Goes(c, NoCall),
           UNCHANGED <<limiter, clock, redis, memory, granted, slack>>
    PROVE  WindowInv'
<1>1. NoCall.at = "idle"
  BY DEF NoCall
<1>2. QED
  BY <1>1, AllAtClock, WindowGoesOn DEF WindowInv

LEMMA CountGrants ==
    ASSUME LimitBase, LimitBase', WindowInv, NEW c \in Callers, call[c].at = "count",
           limiter \in {"sliding", "advanced"}, Goes(c, NoCall), Cardinality(redis) <= Limit,
           NEW v, v = "redis", granted' = granted \cup {Grant(c, v)},
           UNCHANGED <<limiter, clock, redis, memory, slack>>
    PROVE  WindowInv'
<1> DEFINE new == Grant(c, v)
<1>1. Request(call[c]) /\ call[c].t = clock
  BY Busied DEF Request
<1>2. new.id = call[c].id /\ new.at = clock /\ new.via = "redis"
  BY <1>1 DEF Grant
<1>3. HitOf(new) = Member(c)
  BY <1>1, <1>2 DEF HitOf, Member
<1>4. new \in granted' /\ \A g \in granted' : g \in granted \/ g = new
  OBVIOUS
<1> HIDE DEF new
<1>5. call'[c] = NoCall /\ \A d \in Callers : d # c => call'[d] = call[d] /\ Member(d)' = Member(d)
  BY OthersWait
<1>6. \A g : HitOf(g)' = HitOf(g) /\ (Recent(g)' <=> Recent(g))
  BY DEF HitOf, Recent
<1>7. /\ clock \in Nat /\ slack \in Nat /\ Window \in Nat /\ Limit \in Nat
      /\ \A w : \A g \in Present(w)' : g \in granted' /\ g.via = w /\ Recent(g) /\ g.at \in Nat
  BY LimitNumbers DEF LimitBase, Present, Within, Recent
<1>8. \A w \in Sources : w # "redis" => Present(w)' \subseteq Present(w)
  BY <1>2, <1>4 DEF Present, Within
<1>9. LostCalls' = LostCalls \ {c}
  BY <1>5 DEF LostCalls, Waits, NoCall
<1>10. limiter = "sliding" => /\ Cardinality(LostGrants') + Cardinality(LostCalls') <= slack
                              /\ Cardinality(Present(v)') <= Limit + slack
  <2> SUFFICES ASSUME limiter = "sliding"
               PROVE  /\ Cardinality(LostGrants') + Cardinality(LostCalls') <= slack
                      /\ Cardinality(Present(v)') <= Limit + slack
    OBVIOUS
  <2>1. /\ IsFiniteSet(LostGrants) /\ IsFiniteSet(LostCalls)
        /\ Cardinality(LostGrants) \in Nat /\ Cardinality(LostCalls) \in Nat
        /\ Cardinality(LostGrants) + Cardinality(LostCalls) <= slack
    BY LostFinite DEF WindowInv
  <2>2. /\ IsFiniteSet(LostGrants') /\ IsFiniteSet(LostCalls')
        /\ Cardinality(LostGrants') \in Nat /\ Cardinality(LostCalls') \in Nat
        /\ Cardinality(LostGrants') + Cardinality(LostCalls') <= slack
    <3>1. CASE Member(c) \in redis
      <4>1. LostGrants' \subseteq LostGrants
        BY <1>2, <1>3, <1>4, <1>6, <3>1 DEF LostGrants
      <4>2. LostCalls' \subseteq LostCalls
        BY <1>9
      <4>3. QED
        BY <1>7, <2>1, <4>1, <4>2, FewerGrants
    <3>2. CASE Member(c) \notin redis
      <4>1. c \in LostCalls
        BY <3>2 DEF LostCalls, Waits
      <4>2. IsFiniteSet(LostCalls') /\ Cardinality(LostCalls') = Cardinality(LostCalls) - 1
        BY <1>9, <2>1, <4>1, FS_RemoveElement
      <4>3. LostGrants' \subseteq LostGrants \cup {new}
        BY <1>4, <1>6 DEF LostGrants
      <4>4. IsFiniteSet(LostGrants \cup {new}) /\ Cardinality(LostGrants \cup {new}) <= Cardinality(LostGrants) + 1
        BY <2>1, FS_AddElement
      <4>5. /\ IsFiniteSet(LostGrants') /\ Cardinality(LostGrants') \in Nat
            /\ Cardinality(LostGrants') <= Cardinality(LostGrants \cup {new})
            /\ Cardinality(LostGrants \cup {new}) \in Nat
        BY <4>3, <4>4, FewerGrants
      <4>6. Cardinality(LostCalls') \in Nat
        BY <4>2, FS_CardinalityType
      <4>7. QED
        BY <1>7, <2>1, <4>2, <4>4, <4>5, <4>6
    <3>3. QED
      BY <3>1, <3>2
  <2> DEFINE A == {g \in Present(v)' : HitOf(g) \in redis}
  <2>3. IsFiniteSet(A) /\ Cardinality(A) <= Cardinality(redis)
    <3>1. \A g \in A : g = [id |-> g.id, at |-> g.at, via |-> g.via] /\ g.via = v /\ HitOf(g) \in redis
      BY <1>7 DEF LimitBase
    <3>2. IsFiniteSet(redis)
      BY DEF WindowInv
    <3> HIDE DEF A
    <3>3. QED
      BY <3>1, <3>2, GrantsFit
  <2>4. Present(v)' \subseteq A \cup LostGrants'
    BY <1>6, <1>7 DEF LostGrants
  <2>5. /\ IsFiniteSet(A \cup LostGrants')
        /\ Cardinality(A \cup LostGrants') <= Cardinality(A) + Cardinality(LostGrants')
        /\ Cardinality(A) \in Nat
    <3> HIDE DEF A
    <3>1. Cardinality(A) \in Nat
      BY <2>3, FS_CardinalityType
    <3>2. Cardinality(A \cap LostGrants') \in Nat
      BY <2>3, FewerGrants
    <3>3. /\ IsFiniteSet(A \cup LostGrants')
          /\ Cardinality(A \cup LostGrants') =
                Cardinality(A) + Cardinality(LostGrants') - Cardinality(A \cap LostGrants')
      BY <2>2, <2>3, FS_Union
    <3>4. QED
      BY <2>2, <3>1, <3>2, <3>3
  <2>6. Cardinality(Present(v)') <= Cardinality(A \cup LostGrants') /\ Cardinality(Present(v)') \in Nat
        /\ Cardinality(A \cup LostGrants') \in Nat
    <3> HIDE DEF A
    <3>1. QED
      BY <2>4, <2>5, FewerGrants
  <2>7. Cardinality(redis) \in Nat
    BY FS_CardinalityType DEF WindowInv
  <2> HIDE DEF A
  <2>8. QED
    BY <1>7, <2>2, <2>3, <2>5, <2>6, <2>7
<1>11. limiter = "advanced" => /\ \A g \in granted' : Recent(g) => HitOf(g) \in redis
                               /\ Cardinality(Moments(Present(v)')) <= Limit
  <2> SUFFICES ASSUME limiter = "advanced"
               PROVE  /\ \A g \in granted' : Recent(g) => HitOf(g) \in redis
                      /\ Cardinality(Moments(Present(v)')) <= Limit
    OBVIOUS
  <2>1. \A g \in granted' : Recent(g) => HitOf(g) \in redis
    BY <1>3, <1>4 DEF WindowInv
  <2>2. \A a \in Moments(Present(v)') : [score |-> a, id |-> a] \in redis
    BY <1>7, <2>1 DEF Moments, HitOf
  <2>3. IsFiniteSet(redis) /\ Cardinality(redis) \in Nat
    BY FS_CardinalityType DEF WindowInv
  <2>4. IsFiniteSet(Moments(Present(v)')) /\ Cardinality(Moments(Present(v)')) <= Cardinality(redis)
    BY <2>2, <2>3, MomentsFit
  <2>5. Cardinality(Moments(Present(v)')) \in Nat
    BY <2>4, FS_CardinalityType
  <2>6. QED
    BY <1>7, <2>1, <2>3, <2>4, <2>5
<1>12. SlidingWindowHolds'
  <2>1. \A g \in granted' : g \in granted \/ g.at = clock
    BY <1>2, <1>4
  <2>2. \A w \in Sources :
              \/ Present(w)' \subseteq Present(w)
              \/ /\ limiter = "sliding" => Cardinality(Present(w)') <= Limit + slack'
                 /\ limiter = "advanced" => Cardinality(Moments(Present(w)')) <= Limit
    BY <1>8, <1>10, <1>11
  <2>3. SlidingWindowHolds /\ slack' >= slack
    BY <1>7 DEF WindowInv
  <2>4. QED
    BY <2>1, <2>2, <2>3, WindowsStay
<1>13. limiter = "sliding" =>
         \A g \in granted' : g.via # "redis" /\ Recent(g)' => g.via \in ApiNodes /\ HitOf(g)' \in memory'[g.via]
  BY <1>2, <1>4, <1>6 DEF WindowInv
<1>14. limiter = "advanced" => \A d \in Callers : call'[d].at \in {"trim", "count"} => Member(d)' \in redis'
  BY <1>5 DEF WindowInv, NoCall
<1>15. QED
  BY <1>6, <1>10, <1>11, <1>12, <1>13, <1>14 DEF WindowInv

LEMMA CountKeepsWindow ==
    ASSUME LimitBase, LimitBase', WindowInv, limiter \in {"sliding", "advanced"}, NEW c \in Callers, Count(c)
    PROVE  WindowInv'
<1>1. /\ call[c].at = "count" /\ Settle(c, Cardinality(redis) <= Limit, "redis")
      /\ UNCHANGED <<limiter, clock, redis, memory, slack>>
  BY DEF Count, Waits, LimitRest
<1>2. PICK v : v = "redis"
  OBVIOUS
<1>3. Goes(c, NoCall) /\ (granted' = granted \/ (Cardinality(redis) <= Limit /\ granted' = granted \cup {Grant(c, v)}))
  BY <1>1, <1>2 DEF Settle, Grant
<1>4. QED
  BY <1>1, <1>2, <1>3, WindowRefuses, CountGrants

\* The memory of a process counts for the process alone.
LEMMA FallbackGrants ==
    ASSUME LimitBase, LimitBase', WindowInv, NEW c \in Callers, call[c] # NoCall, limiter = "sliding",
           Goes(c, NoCall), NEW n \in ApiNodes, n = call[c].node,
           NEW kept, kept = Trimmed(memory[n], call[c].t) \cup {Member(c)},
           memory' = [memory EXCEPT ![n] = kept],
           granted' = granted \/ (Cardinality(kept) <= Limit /\ granted' = granted \cup {Grant(c, n)}),
           UNCHANGED <<limiter, clock, redis, slack>>
    PROVE  WindowInv'
<1> DEFINE new == Grant(c, n)
<1>1. Request(call[c]) /\ call[c].t = clock
  BY DEF LimitBase, Request
<1>2. new.id = call[c].id /\ new.at = clock /\ new.via = n /\ n # "redis"
  BY <1>1, LimitNumbers DEF Grant
<1>3. HitOf(new) = Member(c)
  BY <1>1, <1>2 DEF HitOf, Member
<1>4. \A g \in granted' : g \in granted \/ (g = new /\ Cardinality(kept) <= Limit)
  OBVIOUS
<1> HIDE DEF new
<1>5. call'[c] = NoCall /\ \A d \in Callers : d # c => call'[d] = call[d] /\ Member(d)' = Member(d)
  BY OthersWait
<1>6. \A g : HitOf(g)' = HitOf(g) /\ (Recent(g)' <=> Recent(g))
  BY DEF HitOf, Recent
<1>7. /\ clock \in Nat /\ slack \in Nat /\ Window \in Nat /\ Limit \in Nat
      /\ \A w : \A g \in Present(w)' : g \in granted' /\ g.via = w /\ Recent(g) /\ g.at \in Nat
  BY LimitNumbers DEF LimitBase, Present, Within, Recent
<1>8. IsFiniteSet(kept) /\ Cardinality(kept) \in Nat
  <2>1. Trimmed(memory[n], call[c].t) \subseteq memory[n] /\ IsFiniteSet(memory[n])
    BY DEF Trimmed, WindowInv
  <2>2. QED
    BY <2>1, FS_Subset, FS_AddElement, FS_CardinalityType
<1>9. memory'[n] = kept /\ \A m \in ApiNodes : m # n => memory'[m] = memory[m]
  BY DEF LimitBase
<1>10. \A g \in granted' : Recent(g) /\ g.via = n => HitOf(g) \in kept
  <2>1. ASSUME NEW g \in granted, Recent(g), g.via = n PROVE HitOf(g) \in kept
    <3>1. HitOf(g) \in memory[n]
      BY <1>2, <2>1 DEF WindowInv
    <3>2. HitOf(g).score > call[c].t - Window
      BY <1>1, <2>1 DEF HitOf, Recent
    <3>3. QED
      BY <3>1, <3>2 DEF Trimmed
  <2>2. QED
    BY <1>3, <1>4, <2>1
<1>11. \A g \in granted' : g.via # "redis" /\ Recent(g)' => g.via \in ApiNodes /\ HitOf(g)' \in memory'[g.via]
  <2>1. ASSUME NEW g \in granted', g.via # "redis", Recent(g), g.via # n
        PROVE  g.via \in ApiNodes /\ HitOf(g) \in memory'[g.via]
    <3>1. g \in granted
      BY <1>2, <1>4, <2>1
    <3>2. QED
      BY <1>9, <2>1, <3>1 DEF WindowInv
  <2>2. QED
    BY <1>6, <1>9, <1>10, <2>1
<1>12. LostGrants' \subseteq LostGrants
  BY <1>2, <1>4, <1>6 DEF LostGrants
<1>13. LostCalls' \subseteq LostCalls
  BY <1>5 DEF LostCalls, Waits, NoCall
<1>14. Cardinality(LostGrants') + Cardinality(LostCalls') <= slack'
  BY <1>7, <1>12, <1>13, NothingMoreIsLost DEF WindowInv
<1>15. Present(n)' \subseteq Present(n) \/ Cardinality(Present(n)') <= Limit + slack
  <2>1. CASE granted' = granted
    BY <2>1 DEF Present, Within
  <2>2. CASE Cardinality(kept) <= Limit
    <3>1. \A g \in Present(n)' : g = [id |-> g.id, at |-> g.at, via |-> g.via] /\ g.via = n /\ HitOf(g) \in kept
      BY <1>7, <1>10 DEF LimitBase
    <3>2. PICK W : W = Present(n)'
      OBVIOUS
    <3>3. IsFiniteSet(W) /\ Cardinality(W) <= Cardinality(kept) /\ Cardinality(W) \in Nat
      <4>1. /\ \A g, h \in W : g.via = h.via
            /\ \A g \in W : g = [id |-> g.id, at |-> g.at, via |-> g.via] /\ HitOf(g) \in kept
        BY <3>1, <3>2
      <4>2. IsFiniteSet(W) /\ Cardinality(W) <= Cardinality(kept)
        BY <1>8, <4>1, GrantsFit
      <4>3. QED
        BY <4>2, FS_CardinalityType
    <3>4. QED
      BY <1>7, <1>8, <2>2, <3>2, <3>3
  <2>3. QED
    BY <2>1, <2>2
<1>16. \A w \in Sources : w # n => Present(w)' \subseteq Present(w)
  BY <1>2, <1>4 DEF Present, Within
<1>17. SlidingWindowHolds'
  <2>1. \A g \in granted' : g \in granted \/ g.at = clock
    BY <1>2, <1>4
  <2>2. \A w \in Sources :
              \/ Present(w)' \subseteq Present(w)
              \/ /\ limiter = "sliding" => Cardinality(Present(w)') <= Limit + slack'
                 /\ limiter = "advanced" => Cardinality(Moments(Present(w)')) <= Limit
    BY <1>15, <1>16
  <2>3. SlidingWindowHolds /\ slack' >= slack
    BY <1>7 DEF WindowInv
  <2>4. QED
    BY <2>1, <2>2, <2>3, WindowsStay
<1>18. \A m \in ApiNodes : IsFiniteSet(memory'[m])
  BY <1>8, <1>9 DEF WindowInv
<1>19. QED
  BY <1>11, <1>14, <1>17, <1>18 DEF WindowInv

LEMMA FailKeepsWindow ==
    ASSUME LimitBase, LimitBase', WindowInv, limiter \in {"sliding", "advanced"}, NEW c \in Callers, RedisFails(c)
    PROVE  WindowInv'
<1>1. UNCHANGED <<limiter, clock, redis>> /\ call[c] # NoCall /\ Fallback(c)
  BY DEF RedisFails, LimitRest
<1>2. CASE limiter = "advanced"
  <2>1. Goes(c, NoCall) /\ UNCHANGED <<memory, granted, slack>>
    BY <1>1, <1>2 DEF Fallback
  <2>2. QED
    BY <1>1, <2>1, WindowRefuses
<1>3. CASE limiter = "sliding"
  <2>1. PICK n \in ApiNodes : n = call[c].node
    BY <1>1 DEF LimitBase, Request
  <2>2. PICK kept : kept = Trimmed(memory[n], call[c].t) \cup {Member(c)}
    OBVIOUS
  <2>3. memory' = [memory EXCEPT ![n] = kept] /\ Settle(c, Cardinality(kept) <= Limit, n) /\ slack' = slack
    BY <1>1, <1>3, <2>1, <2>2 DEF Fallback
  <2>4. Goes(c, NoCall) /\ (granted' = granted \/ (Cardinality(kept) <= Limit /\ granted' = granted \cup {Grant(c, n)}))
    BY <2>3 DEF Settle, Grant
  <2>5. QED
    BY <1>1, <1>3, <2>1, <2>2, <2>3, <2>4, FallbackGrants
<1>4. QED
  BY <1>2, <1>3

LEMMA ResetKeepsWindow ==
    ASSUME LimitBase, LimitBase', WindowInv, limiter \in {"sliding", "advanced"}, NEW n \in ApiNodes, Reset(n)
    PROVE  WindowInv'
<1>1. /\ limiter = "sliding" /\ UNCHANGED <<limiter, clock, call>>
      /\ redis' = {} /\ memory' = [memory EXCEPT ![n] = {}]
      /\ granted' = {g \in granted : g.via \notin {"redis", n}}
      /\ slack' = slack + Cardinality(InFlight)
  BY DEF Reset
<1>2. slack \in Nat /\ slack' \in Nat /\ Cardinality(InFlight) \in Nat /\ IsFiniteSet(InFlight) /\ slack' >= slack
  BY <1>1, FlightsFinite DEF LimitBase
<1>3. LostGrants' = {}
  BY <1>1 DEF LostGrants
<1>4. LostCalls' \subseteq InFlight
  BY <1>1 DEF LostCalls, InFlight, Waits, NoCall
<1>5. Cardinality(LostCalls') \in Nat /\ Cardinality(LostCalls') <= Cardinality(InFlight)
  BY <1>2, <1>4, FewerGrants
<1>6. Cardinality(LostGrants') + Cardinality(LostCalls') <= slack'
  BY <1>1, <1>2, <1>3, <1>5, FS_EmptySet
<1>7. \A g \in granted' : g.via # "redis" /\ Recent(g)' => g.via \in ApiNodes /\ HitOf(g)' \in memory'[g.via]
  BY <1>1 DEF WindowInv, HitOf, Recent, LimitBase
<1>8. /\ IsFiniteSet(redis') /\ \A m \in ApiNodes : IsFiniteSet(memory'[m])
  BY <1>1, FS_EmptySet DEF WindowInv, LimitBase
<1>9. \A v \in Sources : Present(v)' \subseteq Present(v)
  BY <1>1 DEF Present, Within
<1>10. SlidingWindowHolds'
  BY <1>1, <1>2, <1>9, WindowsStay DEF WindowInv
<1>11. QED
  BY <1>1, <1>6, <1>7, <1>8, <1>10 DEF WindowInv

LEMMA TickKeepsWindow ==
    ASSUME LimitBase, LimitBase', WindowInv, limiter \in {"sliding", "advanced"}, LimitTick
    PROVE  WindowInv'
<1>1. /\ UNCHANGED <<limiter, redis, memory, call, granted, slack>> /\ clock' = clock + 1
      /\ \A c \in Callers : call[c].at = "idle"
  BY DEF LimitTick, InFlight, NoCall
<1>2. clock \in Nat /\ slack \in Nat /\ Window \in Nat /\ \A g \in granted : g.at \in Nat /\ g.at <= clock
  BY LimitNumbers DEF LimitBase
<1>3. \A g \in granted : HitOf(g)' = HitOf(g) /\ (Recent(g)' => Recent(g))
  BY <1>1, <1>2 DEF HitOf, Recent
<1>4. LostGrants' \subseteq LostGrants /\ LostCalls' \subseteq LostCalls
  BY <1>1, <1>3 DEF LostGrants, LostCalls, Waits
<1>5. limiter = "sliding" => Cardinality(LostGrants') + Cardinality(LostCalls') <= slack'
  BY <1>1, <1>2, <1>4, NothingMoreIsLost DEF WindowInv
<1>6. \A v \in Sources : Present(v)' \subseteq Present(v)
  BY <1>1, <1>2 DEF Present, Within
<1>7. SlidingWindowHolds'
  BY <1>1, <1>2, <1>6, WindowsStay DEF WindowInv
<1>8. QED
  BY <1>1, <1>3, <1>5, <1>7 DEF WindowInv

LEMMA WindowInvInit ==
    ASSUME LimitInit, limiter \in {"sliding", "advanced"}
    PROVE  WindowInv
<1>1. /\ redis = {} /\ granted = {} /\ clock = 0 /\ slack = 0
      /\ \A n \in ApiNodes : memory[n] = {}
      /\ \A c \in Callers : call[c].at = "idle"
  BY DEF LimitInit, NoCall
<1>2. LostGrants = {} /\ LostCalls = {}
  BY <1>1 DEF LostGrants, LostCalls, Waits
<1>3. \A v, t : Within(v, t) = {} /\ Moments(Within(v, t)) = {}
  BY <1>1 DEF Within, Moments
<1>4. \A v, t : Cardinality(Within(v, t)) = 0 /\ Cardinality(Moments(Within(v, t))) = 0
  BY <1>3, FS_EmptySet
<1>5. 0 <= Limit + slack /\ 0 <= Limit
  BY <1>1, LimitNumbers
<1>6. SlidingWindowHolds
  BY <1>4, <1>5, WindowsByName
<1>7. QED
  BY <1>1, <1>2, <1>6, FS_EmptySet DEF WindowInv

LEMMA WindowInvNext ==
    ASSUME LimitBase, LimitBase', WindowInv, limiter \in {"sliding", "advanced"}, LimitNext
    PROVE  WindowInv'
<1>1. ASSUME NEW c \in Callers, NEW n \in ApiNodes, NEW ask \in Asks, Arrive(c, n, ask) PROVE WindowInv'
  BY <1>1, ArriveKeepsWindow
<1>2. ASSUME NEW c \in Callers, Trim(c) PROVE WindowInv'
  BY <1>2, TrimKeepsWindow
<1>3. ASSUME NEW c \in Callers, Add(c) PROVE WindowInv'
  BY <1>3, AddKeepsWindow
<1>4. ASSUME NEW c \in Callers, Count(c) PROVE WindowInv'
  BY <1>4, CountKeepsWindow
<1>5. ASSUME NEW c \in Callers, SetBucket(c) \/ TrackUsage(c) PROVE FALSE
  <2>1. call[c].at \in {"set", "track"}
    BY <1>5 DEF SetBucket, TrackUsage, Waits
  <2>2. QED
    BY <2>1, Busied DEF Request, Commands
<1>6. ASSUME NEW c \in Callers, GetBucket(c) \/ CheckQuota(c) PROVE FALSE
  BY <1>6 DEF GetBucket, CheckQuota
<1>7. ASSUME NEW c \in Callers, RedisFails(c) PROVE WindowInv'
  BY <1>7, FailKeepsWindow
<1>8. ASSUME NEW n \in ApiNodes, Reset(n) PROVE WindowInv'
  BY <1>8, ResetKeepsWindow
<1>9. CASE LimitTick
  BY <1>9, TickKeepsWindow
<1>10. QED
  BY <1>1, <1>2, <1>3, <1>4, <1>5, <1>6, <1>7, <1>8, <1>9 DEF LimitNext

-----------------------------------------------------------------------------
(* The buckets *)

Buckets == {"legacy", "burst", "floor"}

LEMMA NowIsNoRefill == \A a \in Int : a - a = 0 /\ 0 * a = 0 /\ (a - a) * Rate = 0
  BY LimitNumbers

LEMMA RefillIs ==
    ASSUME LimitBase, NEW b, Bucket(b)
    PROVE  /\ Refill(b, clock) \in Nat
           /\ limiter # "floor" => Refill(b, clock) = (clock - b.last) * Rate
           /\ limiter = "floor" => Refill(b, clock) >= Rate
<1>1. /\ clock - b.last \in Nat /\ Rate \in Nat
  BY LimitNumbers DEF LimitBase, Bucket
<1>2. PICK x \in Nat : x = (clock - b.last) * Rate
  BY <1>1
<1>3. Max({Rate, x}) \in Nat /\ Max({Rate, x}) >= Rate
  BY <1>1, <1>2, MaxOfTwo
<1>4. QED
  BY <1>2, <1>3 DEF Refill

\* A bucket as it is now.
LEMMA RefilledOne ==
    ASSUME LimitBase, NEW b, Bucket(b)
    PROVE  /\ Bucket(Refilled({b}, clock)) /\ Refilled({b}, clock).last = clock
           /\ limiter = "burst" => Refilled({b}, clock).tokens = b.tokens
           /\ limiter # "burst" =>
                Refilled({b}, clock).tokens =
                    IF b.tokens + Refill(b, clock) <= Capacity THEN b.tokens + Refill(b, clock) ELSE Capacity
<1>1. {b} # {} /\ (CHOOSE x \in {b} : TRUE) = b
  OBVIOUS
<1>2. Refilled({b}, clock) = [tokens |-> IF limiter = "burst" THEN b.tokens
                                         ELSE Min({Capacity, b.tokens + Refill(b, clock)}),
                              last |-> clock]
  BY <1>1 DEF Refilled
<1>3. /\ Capacity \in Nat /\ clock \in Nat /\ b.tokens \in Nat /\ b.tokens <= Capacity
      /\ b.tokens + Refill(b, clock) \in Nat
  BY RefillIs, LimitNumbers DEF LimitBase, Bucket
<1>4. PICK y : y = b.tokens + Refill(b, clock)
  OBVIOUS
<1>5. Min({Capacity, y}) = IF y <= Capacity THEN y ELSE Capacity
  BY <1>3, <1>4, MinOfTwo
<1>6. PICK r : r = Refilled({b}, clock)
  OBVIOUS
<1>7. /\ DOMAIN r = {"tokens", "last"} /\ r.last = clock
      /\ r.tokens = IF limiter = "burst" THEN b.tokens ELSE IF y <= Capacity THEN y ELSE Capacity
  BY <1>2, <1>4, <1>5, <1>6
<1>8. Bucket(r)
  BY <1>3, <1>4, <1>7 DEF Bucket
<1>9. QED
  BY <1>4, <1>6, <1>7, <1>8

LEMMA RefilledNone ==
    ASSUME LimitBase
    PROVE  /\ Bucket(Refilled({}, clock)) /\ Refilled({}, clock).last = clock
           /\ Refilled({}, clock).tokens = Capacity
<1>1. PICK r : r = Refilled({}, clock)
  OBVIOUS
<1>2. r = [tokens |-> Capacity, last |-> clock]
  BY <1>1 DEF Refilled
<1>3. QED
  BY <1>1, <1>2, LimitNumbers DEF Bucket, LimitBase

LEMMA RefilledIs ==
    ASSUME LimitBase, NEW raw, OneBucket(raw)
    PROVE  /\ Bucket(Refilled(raw, clock)) /\ Refilled(raw, clock).last = clock
           /\ limiter = "floor" => Refilled(raw, clock).tokens >= Rate
<1>1. CASE raw = {}
  BY <1>1, RefilledNone, LimitNumbers
<1>2. CASE \E b \in raw : raw = {b} /\ Bucket(b)
  <2>1. PICK b : raw = {b} /\ Bucket(b)
    BY <1>2
  <2>2. /\ Bucket(Refilled(raw, clock)) /\ Refilled(raw, clock).last = clock
        /\ limiter = "floor" =>
             Refilled(raw, clock).tokens =
                 IF b.tokens + Refill(b, clock) <= Capacity THEN b.tokens + Refill(b, clock) ELSE Capacity
    BY <2>1, RefilledOne
  <2>3. limiter = "floor" => Refill(b, clock) >= Rate /\ Refill(b, clock) \in Nat
    BY <2>1, RefillIs
  <2>4. b.tokens \in Nat /\ Capacity \in Nat /\ Rate \in Nat /\ Capacity >= Rate
    BY <2>1, LimitNumbers DEF Bucket
  <2>5. QED
    BY <2>2, <2>3, <2>4
<1>3. QED
  BY <1>1, <1>2 DEF OneBucket

\* A write of what was read in this tick.
LEMMA WrittenIs ==
    ASSUME LimitBase, NEW b, Bucket(b), b.last = clock, limiter # "floor"
    PROVE  Refilled({b}, clock).tokens = b.tokens
<1>1. Refill(b, clock) = 0
  BY RefillIs, NowIsNoRefill DEF LimitBase
<1>2. b.tokens \in Nat /\ b.tokens <= Capacity
  BY DEF Bucket
<1>3. QED
  BY <1>1, <1>2, RefilledOne

LEMMA ConsumedIs ==
    ASSUME LimitBase, NEW b, Bucket(b), NEW ask \in Nat, b.tokens >= ask
    PROVE  \E d : /\ Consumed(b, ask) = {d} /\ Bucket(d)
                  /\ d.tokens = b.tokens - ask /\ d.last = b.last
<1>1. PICK d : d = [b EXCEPT !.tokens = @ - ask]
  OBVIOUS
<1>2. DOMAIN d = {"tokens", "last"} /\ d.tokens = b.tokens - ask /\ d.last = b.last
  BY <1>1 DEF Bucket
<1>3. Bucket(d)
  BY <1>2, LimitNumbers DEF Bucket
<1>4. QED
  BY <1>1, <1>2, <1>3 DEF Consumed

\* A step of one request: r is what becomes of it.
LEMMA BucketGoesOn ==
    ASSUME LimitBase, BucketInv, NEW c \in Callers, NEW r, Goes(c, r), UNCHANGED <<limiter, clock>>,
           r.at = "set" => Held(r.bucket),
           OneBucket(redis'), \A n \in ApiNodes : OneBucket(memory'[n]), Ledger', SmallCallsPass'
    PROVE  BucketInv'
<1>1. /\ call'[c] = r
      /\ \A d \in Callers : d # c => call'[d] = call[d]
  BY DEF LimitBase, Goes
<1>2. \A b : (Held(b)' <=> Held(b)) /\ (Bucket(b)' <=> Bucket(b))
  BY DEF Held, Bucket
<1>3. \A d \in Callers : Waits(d, "set")' => Held(call'[d].bucket)
  BY <1>1 DEF Waits, BucketInv
<1>4. \A raw : OneBucket(raw)' <=> OneBucket(raw)
  BY <1>2 DEF OneBucket
<1>5. OneBucket(redis)' /\ (\A n \in ApiNodes : OneBucket(memory[n])')
      /\ \A d \in Callers : Waits(d, "set")' => Held(call[d].bucket)'
  BY <1>2, <1>3, <1>4 DEF OneBucket, Held, Bucket
<1>6. QED
  BY <1>5 DEF BucketInv

\* Nothing was granted, and the bucket is as it was.
LEMMA LedgerStays ==
    ASSUME LimitBase, Ledger, UNCHANGED <<limiter, clock, redis, granted, slack>>
    PROVE  Ledger'
<1>1. Refilled(redis, clock)' = Refilled(redis, clock)
  BY DEF Refilled, Refill
<1>2. QED
  BY <1>1 DEF Ledger

LEMMA ArriveKeepsBucket ==
    ASSUME LimitBase, BucketInv, limiter \in Buckets,
           NEW c \in Callers, NEW n \in ApiNodes, NEW ask \in Asks, Arrive(c, n, ask)
    PROVE  BucketInv'
<1>1. PICK r : r = [at |-> CASE limiter = "sliding" -> "trim" [] limiter = "advanced" -> "add"
                            [] OTHER -> "get",
                    node |-> n, t |-> clock, id |-> hits, ask |-> ask, bucket |-> NoBucket]
  OBVIOUS
<1>2. Goes(c, r) /\ UNCHANGED <<limiter, clock, redis, memory, granted, refused, slack>>
  BY <1>1 DEF Arrive
<1>3. r.at = "get"
  BY <1>1 DEF Buckets
<1>4. Ledger' /\ SmallCallsPass'
  BY <1>2, LedgerStays DEF BucketInv, SmallCallsPass
<1>5. QED
  BY <1>2, <1>3, <1>4, BucketGoesOn DEF BucketInv

\* A refused request of a bucket without a floor says nothing.
LEMMA RefusedIs ==
    ASSUME LimitBase, BucketInv, NEW c \in Callers, UNCHANGED limiter, Request(call[c]),
           refused' = refused \/ (refused' = refused \cup {call[c].ask}
                                  /\ (limiter = "floor" => call[c].ask > Rate))
    PROVE  SmallCallsPass'
  BY DEF BucketInv, SmallCallsPass

LEMMA GetBucketKeepsBucket ==
    ASSUME LimitBase, BucketInv, NEW c \in Callers, GetBucket(c)
    PROVE  BucketInv'
<1>1. UNCHANGED <<limiter, clock, redis, memory, slack>> /\ call[c].at = "get"
      /\ limiter \in {"legacy", "floor", "burst"}
  BY DEF GetBucket, LimitRest, Waits
<1>2. Request(call[c]) /\ call[c].t = clock
  BY <1>1, Busied DEF Request
<1>3. PICK b : b = Refilled(redis, clock)
  OBVIOUS
<1>4. PICK r : r = [call[c] EXCEPT !.at = "set", !.bucket = b]
  OBVIOUS
<1>5. Bucket(b) /\ b.last = clock /\ (limiter = "floor" => b.tokens >= Rate)
  BY <1>3, RefilledIs DEF BucketInv
<1>6. CASE Goes(c, r) /\ UNCHANGED <<granted, refused>> /\ (b.tokens >= call[c].ask \/ limiter = "floor")
  <2>1. r.at = "set" /\ r.bucket = b
    BY <1>2, <1>4 DEF Request
  <2>2. Held(b)
    BY <1>2, <1>5, <1>6, LimitNumbers DEF Held, Bucket, Request
  <2>3. Ledger' /\ SmallCallsPass'
    BY <1>1, <1>6, LedgerStays DEF BucketInv, SmallCallsPass
  <2>4. QED
    BY <1>1, <1>6, <2>1, <2>2, <2>3, BucketGoesOn DEF BucketInv
<1>7. CASE limiter # "floor" /\ Settle(c, FALSE, "redis")
  <2>1. Goes(c, NoCall) /\ granted' = granted /\ refused' = refused \cup {call[c].ask}
    BY <1>7 DEF Settle
  <2>2. Ledger' /\ SmallCallsPass'
    BY <1>1, <1>2, <1>7, <2>1, LedgerStays, RefusedIs DEF BucketInv
  <2>3. NoCall.at # "set"
    BY DEF NoCall
  <2>4. QED
    BY <1>1, <2>1, <2>2, <2>3, BucketGoesOn DEF BucketInv
<1>8. QED
  BY <1>2, <1>3, <1>4, <1>6, <1>7 DEF GetBucket

LEMMA PutBackIs ==
    ASSUME LimitBase, BucketInv, NEW c \in Callers, SetBucket(c)
    PROVE  /\ limiter \in Buckets /\ Request(call[c]) /\ call[c].t = clock
           /\ Held(call[c].bucket) /\ PutBack(c) \in Nat
           /\ PutBack(c) >= call[c].bucket.tokens - Refilled(redis, clock).tokens
<1>1. call[c].at = "set"
  BY DEF SetBucket, Waits
<1>2. Request(call[c]) /\ limiter \in Buckets /\ call[c].t = clock
  BY <1>1, Busied, SixLimiters DEF Request, Commands, Buckets
<1>3. Held(call[c].bucket)
  BY <1>1 DEF BucketInv, Waits
<1>4. Bucket(Refilled(redis, clock))
  BY RefilledIs DEF BucketInv
<1>5. PICK x \in Int : x = call[c].bucket.tokens - Refilled(redis, clock).tokens
  BY <1>3, <1>4 DEF Held, Bucket
<1>6. PutBack(c) = Max({0, x})
  BY <1>2, <1>5 DEF PutBack
<1>7. QED
  BY <1>2, <1>3, <1>5, <1>6, MaxOfTwo

LEMMA GrantedIsMore ==
    ASSUME LimitBase, granted' = granted \/ \E g : granted' = granted \cup {g}
    PROVE  /\ Cardinality(granted') <= Cardinality(granted) + 1 /\ IsFiniteSet(granted')
           /\ Cardinality(granted') \in Nat /\ Cardinality(granted) \in Nat
<1>1. IsFiniteSet(granted) /\ Cardinality(granted) \in Nat
  BY FS_CardinalityType DEF LimitBase
<1>2. ASSUME NEW g, granted' = granted \cup {g}
      PROVE  /\ Cardinality(granted') <= Cardinality(granted) + 1 /\ IsFiniteSet(granted')
             /\ Cardinality(granted') \in Nat
  <2>1. PICK S : S = granted \cup {g}
    OBVIOUS
  <2>2. IsFiniteSet(S) /\ (Cardinality(S) = Cardinality(granted) \/ Cardinality(S) = Cardinality(granted) + 1)
    BY <1>1, <2>1, FS_AddElement
  <2>3. QED
    BY <1>1, <1>2, <2>1, <2>2
<1>3. CASE granted' = granted
  BY <1>1, <1>3
<1>4. CASE \E g : granted' = granted \cup {g}
  <2>1. PICK g : granted' = granted \cup {g}
    BY <1>4
  <2>2. QED
    BY <1>1, <1>2, <2>1
<1>5. QED
  BY <1>3, <1>4

LEMMA SetBucketKeepsBucket ==
    ASSUME LimitBase, BucketInv, NEW c \in Callers, SetBucket(c)
    PROVE  BucketInv'
<1>1. UNCHANGED <<limiter, clock, memory>> /\ slack' = slack + PutBack(c)
  BY DEF SetBucket, LimitRest
<1>2. PICK b : b = call[c].bucket
  OBVIOUS
<1>3. PICK ask \in Asks : ask = call[c].ask
  BY PutBackIs DEF Request
<1>4. PICK R : R = Refilled(redis, clock)
  OBVIOUS
<1>5. /\ limiter \in Buckets /\ Request(call[c]) /\ Held(b) /\ Bucket(b) /\ b.last = clock
      /\ PutBack(c) \in Nat /\ PutBack(c) >= b.tokens - R.tokens /\ R.tokens \in Nat /\ b.tokens \in Nat
      /\ ask \in Nat /\ ask > 0 /\ (limiter # "floor" => ask = 1)
  BY <1>2, <1>3, <1>4, PutBackIs, RefilledIs, LimitNumbers DEF Held, Bucket, BucketInv, Request
<1>6. PICK ok : ok = (b.tokens >= ask)
  OBVIOUS
<1>7. redis' = (IF ok THEN Consumed(b, ask) ELSE {b}) /\ Settle(c, ok, "redis")
  BY <1>2, <1>3, <1>6 DEF SetBucket
<1>8. Goes(c, NoCall) /\ NoCall.at # "set"
  BY <1>7 DEF Settle, NoCall
<1>9. limiter # "floor" => b.tokens >= ask
  BY <1>5 DEF Held
<1>10. SmallCallsPass'
  <2>1. limiter = "floor" /\ ~ok => ask > Rate
    <3>1. ~ok => ~(b.tokens >= ask)
      BY <1>6
    <3>2. QED
      BY <1>5, <3>1, LimitNumbers DEF Held
  <2>2. refused' = refused \/ (~ok /\ refused' = refused \cup {ask})
    BY <1>3, <1>7 DEF Settle
  <2>3. CASE refused' = refused
    BY <1>1, <1>5, <2>3, RefusedIs
  <2>4. CASE ~ok /\ refused' = refused \cup {ask}
    BY <1>1, <1>3, <1>5, <1>6, <1>9, <2>1, <2>4, RefusedIs
  <2>5. QED
    BY <2>2, <2>3, <2>4
<1>11. PICK d : /\ redis' = {d} /\ Bucket(d) /\ d.last = clock
                /\ d.tokens = IF ok THEN b.tokens - ask ELSE b.tokens
  <2>1. CASE b.tokens >= ask
    BY <1>5, <1>6, <1>7, <2>1, ConsumedIs
  <2>2. CASE ~(b.tokens >= ask)
    BY <1>5, <1>6, <1>7, <2>2
  <2>3. QED
    BY <2>1, <2>2
<1>12. OneBucket(redis')
  BY <1>11 DEF OneBucket
<1>13. Ledger'
  <2>1. SUFFICES ASSUME limiter # "floor" PROVE Ledger'
    BY <1>1 DEF Ledger
  <2>2. Refilled(redis, clock)'.tokens = b.tokens - 1
    <3>1. Refilled({d}, clock).tokens = d.tokens
      BY <1>11, <2>1, WrittenIs
    <3>2. Refilled(redis, clock)' = Refilled({d}, clock)
      BY <1>1, <1>11 DEF Refilled, Refill
    <3>3. QED
      BY <1>5, <1>6, <1>9, <1>11, <2>1, <3>1, <3>2
  <2>3. Cardinality(granted') <= Cardinality(granted) + 1 /\ Cardinality(granted') \in Nat
        /\ Cardinality(granted) \in Nat
    <3>1. granted' = granted \/ \E g : granted' = granted \cup {g}
      BY <1>7 DEF Settle
    <3>2. QED
      BY <3>1, GrantedIsMore
  <2>4. PICK paid \in Nat : paid = IF limiter = "legacy" THEN clock * Rate ELSE 0
    BY LimitNumbers DEF LimitBase
  <2>5. Cardinality(granted) + R.tokens <= Capacity + slack + paid
    BY <1>4, <2>1, <2>4 DEF BucketInv, Ledger
  <2>6. Cardinality(granted') + (b.tokens - 1) <= Capacity + (slack + PutBack(c)) + paid
    BY <1>5, <2>3, <2>5, LimitNumbers DEF LimitBase
  <2>7. QED
    BY <1>1, <2>2, <2>4, <2>6 DEF Ledger
<1>14. QED
  BY <1>1, <1>8, <1>10, <1>12, <1>13, BucketGoesOn DEF BucketInv

\* TokenBucket goes on in the memory of its process.
LEMMA FailKeepsBucket ==
    ASSUME LimitBase, BucketInv, limiter \in Buckets, NEW c \in Callers, RedisFails(c)
    PROVE  BucketInv'
<1>1. UNCHANGED <<limiter, clock, redis>> /\ call[c] # NoCall /\ Fallback(c) /\ NoCall.at # "set"
  BY DEF RedisFails, LimitRest, NoCall
<1>2. Request(call[c]) /\ call[c].t = clock
  BY <1>1 DEF LimitBase, Request
<1>3. CASE limiter # "floor"
  <2>1. Goes(c, NoCall) /\ UNCHANGED <<memory, granted, refused, slack>>
    BY <1>1, <1>3 DEF Fallback, Buckets
  <2>2. Ledger' /\ SmallCallsPass'
    BY <1>1, <2>1, LedgerStays DEF BucketInv, SmallCallsPass
  <2>3. QED
    BY <1>1, <2>1, <2>2, BucketGoesOn DEF BucketInv
<1>4. CASE limiter = "floor"
  <2>1. PICK n \in ApiNodes : n = call[c].node
    BY <1>2 DEF Request
  <2>2. PICK ask \in Asks : ask = call[c].ask
    BY <1>2 DEF Request
  <2>3. PICK b : b = Refilled(memory[n], clock)
    OBVIOUS
  <2>4. PICK ok : ok = (b.tokens >= ask)
    OBVIOUS
  <2>5. /\ memory' = [memory EXCEPT ![n] = IF ok THEN Consumed(b, ask) ELSE {b}]
        /\ Settle(c, ok, n) /\ slack' = slack
    BY <1>1, <1>2, <1>4, <2>1, <2>2, <2>3, <2>4 DEF Fallback
  <2>6. Bucket(b) /\ b.tokens >= Rate /\ ask \in Nat /\ b.tokens \in Nat
    BY <1>4, <2>3, RefilledIs, LimitNumbers DEF BucketInv, Bucket
  <2>7. OneBucket(memory'[n])
    <3>1. CASE b.tokens >= ask
      BY <2>4, <2>5, <2>6, <3>1, ConsumedIs DEF OneBucket, LimitBase
    <3>2. CASE ~(b.tokens >= ask)
      BY <2>4, <2>5, <2>6, <3>2 DEF OneBucket, LimitBase
    <3>3. QED
      BY <3>1, <3>2
  <2>8. \A m \in ApiNodes : OneBucket(memory'[m])
    BY <2>5, <2>7 DEF BucketInv, LimitBase
  <2>9. SmallCallsPass'
    <3>1. refused' = refused \/ (~ok /\ refused' = refused \cup {ask})
      BY <2>2, <2>5 DEF Settle
    <3>2. ~ok => ~(b.tokens >= ask)
      BY <2>4
    <3>3. ~ok => ask > Rate
      BY <2>6, <3>2, LimitNumbers
    <3>4. QED
      BY <1>1, <1>2, <2>2, <3>1, <3>3, RefusedIs
  <2>10. Goes(c, NoCall) /\ Ledger'
    BY <1>1, <1>4, <2>5 DEF Settle, Ledger
  <2>11. QED
    BY <1>1, <2>8, <2>9, <2>10, BucketGoesOn DEF BucketInv
<1>5. QED
  BY <1>3, <1>4

LEMMA ResetKeepsBucket ==
    ASSUME LimitBase, BucketInv, limiter \in Buckets, NEW n \in ApiNodes, Reset(n)
    PROVE  BucketInv'
<1>1. /\ limiter \in {"legacy", "floor"} /\ UNCHANGED <<limiter, clock, call, refused>>
      /\ limiter = "legacy" => redis' = {} /\ memory' = memory /\ granted' = granted /\ slack' = slack + Capacity
  BY DEF Reset, Buckets
<1>2. PICK full : full = IF limiter = "floor" THEN {[tokens |-> Capacity, last |-> clock]} ELSE {}
  OBVIOUS
<1>3. redis' = full /\ (memory' = memory \/ memory' = [memory EXCEPT ![n] = full])
  BY <1>2 DEF Reset
<1>4. OneBucket(full)
  <2>1. PICK b : b = [tokens |-> Capacity, last |-> clock]
    OBVIOUS
  <2>2. Bucket(b)
    BY <2>1, LimitNumbers DEF Bucket, LimitBase
  <2>3. QED
    BY <1>2, <2>1, <2>2 DEF OneBucket
<1>5. OneBucket(redis)' /\ \A m \in ApiNodes : OneBucket(memory[m])'
  <2>1. OneBucket(redis') /\ \A m \in ApiNodes : OneBucket(memory'[m])
    BY <1>3, <1>4 DEF BucketInv, LimitBase
  <2>2. QED
    BY <1>1, <2>1 DEF OneBucket, Bucket
<1>6. \A c \in Callers : Waits(c, "set")' => Held(call[c].bucket)'
  BY <1>1 DEF BucketInv, Waits, Held, Bucket
<1>7. SmallCallsPass'
  BY <1>1 DEF BucketInv, SmallCallsPass
<1>8. Ledger'
  <2>1. SUFFICES ASSUME limiter = "legacy" PROVE Ledger'
    BY <1>1 DEF Ledger
  <2>2. Refilled(redis, clock)' = Refilled({}, clock)
    BY <1>1, <2>1 DEF Refilled
  <2>3. Refilled(redis, clock)'.tokens = Capacity
    BY <2>2, RefilledNone
  <2>4. Bucket(Refilled(redis, clock))
    BY RefilledIs DEF BucketInv
  <2>5. PICK paid \in Nat : paid = clock * Rate
    BY LimitNumbers DEF LimitBase
  <2>6. Cardinality(granted) + Refilled(redis, clock).tokens <= Capacity + slack + paid
    BY <2>1, <2>5 DEF BucketInv, Ledger
  <2>7. Cardinality(granted) + Capacity <= Capacity + (slack + Capacity) + paid
    <3>1. Cardinality(granted) \in Nat /\ slack \in Nat /\ Capacity \in Nat
      BY LimitNumbers, FS_CardinalityType DEF LimitBase
    <3>2. PICK k \in Nat : k = Refilled(redis, clock).tokens
      BY <2>4 DEF Bucket
    <3>3. QED
      BY <2>6, <3>1, <3>2
  <2>8. QED
    BY <1>1, <2>1, <2>3, <2>5, <2>7 DEF Ledger
<1>9. QED
  BY <1>5, <1>6, <1>7, <1>8 DEF BucketInv

LEMMA RefilledAt ==
    ASSUME limiter = "legacy", NEW b, Bucket(b), NEW t \in Nat, NEW y \in Nat, y = (t - b.last) * Rate
    PROVE  Refilled({b}, t).tokens = IF b.tokens + y <= Capacity THEN b.tokens + y ELSE Capacity
<1>1. {b} # {} /\ (CHOOSE x \in {b} : TRUE) = b /\ Refill(b, t) = y
  BY DEF Refill
<1>2. Refilled({b}, t).tokens = Min({Capacity, b.tokens + y})
  BY <1>1 DEF Refilled
<1>3. PICK z \in Nat : z = b.tokens + y
  BY DEF Bucket
<1>4. Min({Capacity, z}) = IF z <= Capacity THEN z ELSE Capacity
  BY LimitNumbers, MinOfTwo
<1>5. QED
  BY <1>2, <1>3, <1>4

\* One tick refills at most Rate tokens, and what expires is full by then.
LEMMA TickRefills ==
    ASSUME LimitBase, BucketInv, limiter = "legacy", LimitTick
    PROVE  /\ Refilled(redis, clock)'.tokens \in Nat
           /\ Refilled(redis, clock)'.tokens <= Refilled(redis, clock).tokens + Rate
<1>1. /\ UNCHANGED limiter /\ clock' = clock + 1
      /\ (\E b \in redis : Expires(b)) => redis' = {}
      /\ ~(\E b \in redis : Expires(b)) => redis' = redis
  BY DEF LimitTick
<1>2. /\ clock \in Nat /\ Rate \in Nat /\ Rate > 0 /\ Capacity \in Nat /\ Capacity >= Rate
      /\ Window \in Nat /\ Window > 0 /\ Capacity = Rate * Window
  BY LimitNumbers DEF LimitBase
<1>3. LimitBase'
  BY TickKeepsBase
<1>4. Refilled({}, clock)'.tokens = Capacity
  BY <1>1 DEF Refilled
<1>5. CASE redis = {}
  <2>1. redis' = {} /\ Refilled(redis, clock).tokens = Capacity
    BY <1>1, <1>5, RefilledNone
  <2>2. Refilled(redis, clock)' = Refilled({}, clock)'
    BY <2>1
  <2>3. QED
    BY <1>2, <1>4, <2>1, <2>2
<1>6. CASE \E b \in redis : redis = {b} /\ Bucket(b)
  <2>1. PICK b : redis = {b} /\ Bucket(b)
    BY <1>6
  <2>2. b.tokens \in Nat /\ b.tokens <= Capacity /\ b.last \in Nat /\ b.last <= clock
    BY <2>1 DEF Bucket
  <2>3. PICK x \in Nat : x = (clock - b.last) * Rate
    BY <1>2, <2>2
  <2>4. Refilled(redis, clock).tokens = IF b.tokens + x <= Capacity THEN b.tokens + x ELSE Capacity
    BY <2>1, <2>3, RefilledOne, RefillIs
  <2>5. CASE Expires(b)
    <3>1. clock - b.last >= Window - 1
      BY <1>2, <2>2, <2>5 DEF Expires
    <3>2. x >= (Window - 1) * Rate
      BY <1>2, <2>2, <2>3, <3>1
    <3>3. (Window - 1) * Rate = Capacity - Rate
      BY <1>2
    <3>4. redis' = {}
      BY <1>1, <2>1, <2>5
    <3>5. Refilled(redis, clock)' = Refilled({}, clock)'
      BY <3>4
    <3>6. Refilled(redis, clock)'.tokens = Capacity
      BY <1>4, <3>5
    <3>7. QED
      BY <1>2, <2>2, <2>3, <2>4, <3>2, <3>3, <3>6
  <2>6. CASE ~Expires(b)
    <3>1. redis' = {b}
      BY <1>1, <2>1, <2>6
    <3>2. PICK t \in Nat : t = clock + 1
      BY <1>2
    <3>3. Refilled(redis, clock)' = Refilled({b}, t)
      BY <1>1, <3>1, <3>2 DEF Refilled, Refill
    <3>4. PICK y \in Nat : y = (t - b.last) * Rate
      BY <1>2, <2>2, <3>2
    <3>5. Refilled({b}, t).tokens = IF b.tokens + y <= Capacity THEN b.tokens + y ELSE Capacity
      BY <2>1, <3>2, <3>4, <2>2, RefilledAt
    <3>6. y = x + Rate
      <4>1. t - b.last = (clock - b.last) + 1
        BY <1>2, <2>2, <3>2
      <4>2. PICK k \in Nat : k = clock - b.last
        BY <1>2, <2>2
      <4>3. (k + 1) * Rate = k * Rate + Rate
        BY <1>2, <4>2
      <4>4. QED
        BY <2>3, <3>4, <4>1, <4>2, <4>3
    <3>7. QED
      BY <1>2, <2>2, <2>4, <3>3, <3>5, <3>6
  <2>7. QED
    BY <2>5, <2>6
<1>7. QED
  BY <1>5, <1>6 DEF BucketInv, OneBucket

LEMMA TickKeepsBucket ==
    ASSUME LimitBase, BucketInv, limiter \in Buckets, LimitTick
    PROVE  BucketInv'
<1>1. /\ UNCHANGED <<limiter, memory, call, granted, refused>> /\ clock' = clock + 1
      /\ \A c \in Callers : call[c].at = "idle"
      /\ redis' = redis \/ redis' = {}
      /\ (redis' = redis /\ slack' = slack)
            \/ (redis' = {} /\ slack' = slack + IF limiter = "burst" THEN Capacity ELSE 0)
  BY DEF LimitTick, InFlight, NoCall
<1>2. clock \in Nat /\ clock' \in Nat /\ clock <= clock'
  BY <1>1 DEF LimitBase
<1>3. \A b : Bucket(b) => Bucket(b)'
  BY <1>2 DEF Bucket
<1>4. \A raw : OneBucket(raw) => OneBucket(raw)'
  BY <1>3 DEF OneBucket
<1>5. OneBucket(redis)' /\ \A n \in ApiNodes : OneBucket(memory[n])'
  BY <1>1, <1>4 DEF BucketInv, OneBucket
<1>6. \A c \in Callers : ~Waits(c, "set")'
  BY <1>1 DEF Waits
<1>7. SmallCallsPass'
  BY <1>1 DEF BucketInv, SmallCallsPass
<1>8. Bucket(Refilled(redis, clock))
  BY RefilledIs DEF BucketInv
<1>9. PICK now \in Nat : now = Refilled(redis, clock).tokens
  BY <1>8 DEF Bucket
<1>10. Cardinality(granted) \in Nat /\ slack \in Nat /\ Capacity \in Nat /\ Rate \in Nat
  BY LimitNumbers, FS_CardinalityType DEF LimitBase
<1>11. PICK later : later = Refilled(redis, clock)'.tokens
  OBVIOUS
<1>12. CASE limiter = "legacy"
  <2>1. later \in Nat /\ later <= now + Rate
    BY <1>9, <1>11, <1>12, TickRefills
  <2>2. PICK paid \in Nat : paid = clock * Rate
    BY <1>2, <1>10
  <2>3. clock' * Rate = paid + Rate
    BY <1>1, <1>2, <1>10, <2>2
  <2>4. Cardinality(granted) + now <= Capacity + slack + paid
    BY <1>9, <1>12, <2>2 DEF BucketInv, Ledger
  <2>5. slack' = slack
    BY <1>1, <1>10, <1>12
  <2>6. Cardinality(granted) + later <= Capacity + slack' + (paid + Rate)
    BY <1>10, <2>1, <2>4, <2>5
  <2>7. Ledger'
    BY <1>1, <1>11, <1>12, <2>3, <2>6 DEF Ledger
  <2>8. QED
    BY <1>5, <1>6, <1>7, <2>7 DEF BucketInv
<1>13. CASE limiter = "burst"
  <2>1. Cardinality(granted) + now <= Capacity + slack
    BY <1>9, <1>10, <1>13 DEF BucketInv, Ledger
  <2>2. later \in Nat /\ Cardinality(granted) + later <= Capacity + slack'
    <3>1. CASE redis' = redis /\ slack' = slack
      <4>1. Refilled(redis, clock)'.tokens = Refilled(redis, clock).tokens
        BY <1>1, <1>13, <3>1 DEF Refilled
      <4>2. QED
        BY <1>9, <1>10, <1>11, <2>1, <3>1, <4>1
    <3>2. CASE redis' = {} /\ slack' = slack + Capacity
      <4>1. Refilled(redis, clock)'.tokens = Capacity
        BY <3>2 DEF Refilled
      <4>2. QED
        BY <1>9, <1>10, <1>11, <2>1, <3>2, <4>1
    <3>3. QED
      BY <1>1, <1>13, <3>1, <3>2
  <2>3. Ledger'
    BY <1>1, <1>10, <1>11, <1>13, <2>2 DEF Ledger, LimitBase
  <2>4. QED
    BY <1>5, <1>6, <1>7, <2>3 DEF BucketInv
<1>14. CASE limiter = "floor"
  <2>1. Ledger'
    BY <1>1, <1>14 DEF Ledger
  <2>2. QED
    BY <1>5, <1>6, <1>7, <2>1 DEF BucketInv
<1>15. QED
  BY <1>12, <1>13, <1>14 DEF Buckets

LEMMA BucketInvInit ==
    ASSUME LimitInit, limiter \in Buckets
    PROVE  BucketInv
<1>1. /\ redis = {} /\ granted = {} /\ refused = {} /\ clock = 0 /\ slack = 0
      /\ \A n \in ApiNodes : memory[n] = {}
      /\ \A c \in Callers : call[c].at = "idle"
  BY DEF LimitInit, NoCall
<1>2. Ledger
  <2>1. Refilled(redis, clock).tokens = Capacity
    BY <1>1, LimitBaseInit, RefilledNone
  <2>2. Cardinality(granted) = 0
    BY <1>1, FS_EmptySet
  <2>3. 0 * Rate = 0 /\ Capacity \in Nat
    BY LimitNumbers
  <2>4. QED
    BY <1>1, <2>1, <2>2, <2>3 DEF Ledger
<1>3. QED
  BY <1>1, <1>2 DEF BucketInv, OneBucket, Waits, SmallCallsPass

LEMMA BucketInvNext ==
    ASSUME LimitBase, BucketInv, limiter \in Buckets, LimitNext
    PROVE  BucketInv'
<1>1. ASSUME NEW c \in Callers, NEW n \in ApiNodes, NEW ask \in Asks, Arrive(c, n, ask) PROVE BucketInv'
  BY <1>1, ArriveKeepsBucket
<1>2. ASSUME NEW c \in Callers, Trim(c) \/ Add(c) \/ Count(c) \/ TrackUsage(c) PROVE FALSE
  <2>1. call[c].at \in {"trim", "add", "count", "track"}
    BY <1>2 DEF Trim, Add, Count, TrackUsage, Waits
  <2>2. QED
    BY <2>1, Busied DEF Request, Commands, Buckets
<1>3. ASSUME NEW c \in Callers, GetBucket(c) PROVE BucketInv'
  BY <1>3, GetBucketKeepsBucket
<1>4. ASSUME NEW c \in Callers, SetBucket(c) PROVE BucketInv'
  BY <1>4, SetBucketKeepsBucket
<1>5. ASSUME NEW c \in Callers, CheckQuota(c) PROVE FALSE
  BY <1>5 DEF CheckQuota, Buckets
<1>6. ASSUME NEW c \in Callers, RedisFails(c) PROVE BucketInv'
  BY <1>6, FailKeepsBucket
<1>7. ASSUME NEW n \in ApiNodes, Reset(n) PROVE BucketInv'
  BY <1>7, ResetKeepsBucket
<1>8. CASE LimitTick
  BY <1>8, TickKeepsBucket
<1>9. QED
  BY <1>1, <1>2, <1>3, <1>4, <1>5, <1>6, <1>7, <1>8 DEF LimitNext

-----------------------------------------------------------------------------
(* The quota *)

LEMMA CountIs == \A raw : OneCount(raw) => Counted(raw) \in Nat
<1> SUFFICES ASSUME NEW raw, OneCount(raw) PROVE Counted(raw) \in Nat
  OBVIOUS
<1>1. CASE raw = {}
  BY <1>1 DEF Counted
<1>2. CASE \E k \in raw : raw = {k} /\ k \in Nat
  <2>1. PICK k \in Nat : raw = {k}
    BY <1>2
  <2>2. (CHOOSE x \in {k} : TRUE) = k /\ {k} # {}
    OBVIOUS
  <2>3. QED
    BY <2>1, <2>2 DEF Counted
<1>3. QED
  BY <1>1, <1>2 DEF OneCount

\* One more use is counted.
LEMMA CountedOneMore ==
    ASSUME NEW raw, OneCount(raw)
    PROVE  OneCount({Counted(raw) + 1}) /\ Counted({Counted(raw) + 1}) = Counted(raw) + 1
<1>1. PICK k \in Nat : k = Counted(raw) + 1
  BY CountIs
<1>2. (CHOOSE x \in {k} : TRUE) = k /\ {k} # {}
  OBVIOUS
<1>3. OneCount({k}) /\ Counted({k}) = k
  BY <1>2 DEF OneCount, Counted
<1>4. QED
  BY <1>1, <1>3

LEMMA TrackingFinite ==
    /\ IsFiniteSet(Tracking) /\ Cardinality(Tracking) \in Nat
    /\ Cardinality(Tracking) <= Cardinality(Callers) /\ Cardinality(Callers) \in Nat
<1>1. Tracking \subseteq Callers
  BY DEF Tracking
<1>2. PICK T : T = Tracking
  OBVIOUS
<1>3. QED
  BY <1>1, <1>2, LimitNumbers, FS_Subset, FS_CardinalityType

LEMMA CheckQuotaKeepsQuota ==
    ASSUME LimitBase, LimitBase', QuotaInv, NEW c \in Callers, CheckQuota(c)
    PROVE  QuotaInv'
<1>1. /\ UNCHANGED <<limiter, redis, memory, outages>> /\ call[c].at = "get" /\ granted' = granted
  BY DEF CheckQuota, LimitRest, Waits, Settle
<1>2. PICK r : r = [call[c] EXCEPT !.at = "track"]
  OBVIOUS
<1>3. OneCount(redis)' /\ \A n \in ApiNodes : OneCount(memory[n])'
  BY <1>1 DEF QuotaInv, OneCount
<1>4. PICK used : used = Counted(IF redis = {} THEN memory[call[c].node] ELSE redis)
  OBVIOUS
<1>5. /\ Cardinality(granted) \in Nat /\ Counted(redis) \in Nat /\ Limit \in Nat
      /\ Cardinality(Tracking') \in Nat /\ Cardinality(Tracking') <= Cardinality(Callers)
      /\ Cardinality(Callers) \in Nat
  <2>1. PICK T : T = Tracking' /\ T \subseteq Callers
    BY DEF Tracking
  <2>2. Cardinality(T) \in Nat /\ Cardinality(T) <= Cardinality(Callers) /\ Cardinality(Callers) \in Nat
    BY <2>1, LimitNumbers, FS_Subset, FS_CardinalityType
  <2>3. QED
    BY <2>1, <2>2, CountIs, LimitNumbers, FS_CardinalityType DEF LimitBase, QuotaInv
<1>6. CASE used < Limit
  <2>1. Counted(redis) < Limit
    BY <1>4, <1>5, <1>6, LimitNumbers DEF Counted
  <2>2. QED
    BY <1>1, <1>3, <1>5, <2>1 DEF QuotaInv
<1>7. CASE Settle(c, FALSE, "redis")
  <2>1. Goes(c, NoCall)
    BY <1>7 DEF Settle
  <2>2. Tracking' \subseteq Tracking
    BY <2>1 DEF Goes, LimitBase, Tracking, Waits, NoCall
  <2>3. Cardinality(Tracking') <= Cardinality(Tracking) /\ Cardinality(Tracking) \in Nat
    <3>1. PICK T : T = Tracking'
      OBVIOUS
    <3>2. QED
      BY <2>2, <3>1, TrackingFinite, FewerGrants
  <2>4. QED
    BY <1>1, <1>3, <1>5, <2>3, LimitNumbers DEF QuotaInv
<1>8. QED
  BY <1>4, <1>6, <1>7 DEF CheckQuota

LEMMA TrackUsageKeepsQuota ==
    ASSUME LimitBase, LimitBase', QuotaInv, NEW c \in Callers, TrackUsage(c)
    PROVE  QuotaInv'
<1>1. /\ UNCHANGED <<limiter, outages>> /\ call[c].at = "track" /\ Settle(c, TRUE, "redis")
      /\ memory' = [memory EXCEPT ![call[c].node] = {Counted(@) + 1}]
      /\ redis' = {Counted(redis) + 1}
  BY DEF TrackUsage, LimitRest, Waits
<1>2. /\ OneCount(redis') /\ Counted(redis)' = Counted(redis) + 1
  <2>1. PICK R : R = redis'
    OBVIOUS
  <2>2. OneCount(R) /\ Counted(R) = Counted(redis) + 1
    BY <1>1, <2>1, CountedOneMore DEF QuotaInv
  <2>3. QED
    BY <2>1, <2>2 DEF Counted
<1>3. \A n \in ApiNodes : OneCount(memory'[n])
  BY <1>1, CountedOneMore DEF QuotaInv, LimitBase
<1>4. Goes(c, NoCall) /\ \E g : granted' = granted \cup {g}
  BY <1>1 DEF Settle
<1>5. /\ Cardinality(granted') <= Cardinality(granted) + 1
      /\ Cardinality(granted') \in Nat /\ Cardinality(granted) \in Nat
  BY <1>4, GrantedIsMore
<1>6. Cardinality(Tracking') = Cardinality(Tracking) - 1 /\ Cardinality(Tracking) \in Nat
      /\ Cardinality(Tracking') \in Nat
  <2>1. Tracking' = Tracking \ {c} /\ c \in Tracking
    BY <1>1, <1>4 DEF Goes, LimitBase, Tracking, Waits, NoCall
  <2>2. PICK T : T = Tracking
    OBVIOUS
  <2>3. IsFiniteSet(T) /\ Cardinality(T) \in Nat
    BY <2>2, TrackingFinite
  <2>4. Cardinality(T \ {c}) = Cardinality(T) - 1 /\ IsFiniteSet(T \ {c})
    BY <2>1, <2>2, <2>3, FS_RemoveElement
  <2>5. Cardinality(T \ {c}) \in Nat
    BY <2>4, FS_CardinalityType
  <2>6. QED
    BY <2>1, <2>2, <2>3, <2>4, <2>5
<1>7. Counted(redis) \in Nat /\ Limit \in Nat /\ Cardinality(Callers) \in Nat
  BY CountIs, TrackingFinite, LimitNumbers DEF QuotaInv
<1>8. outages = 0 => /\ Cardinality(granted') <= Counted(redis)'
                     /\ Cardinality(granted') + Cardinality(Tracking') < Limit + Cardinality(Callers)
  BY <1>2, <1>5, <1>6, <1>7 DEF QuotaInv
<1>9. OneCount(redis)' /\ \A n \in ApiNodes : OneCount(memory[n])'
  BY <1>2, <1>3 DEF OneCount
<1>10. QED
  BY <1>1, <1>8, <1>9 DEF QuotaInv

\* Whatever leaves the counts alone and starts no use.
LEMMA QuotaGoesOn ==
    ASSUME LimitBase, QuotaInv, UNCHANGED <<redis, memory, granted, outages>>, Tracking' \subseteq Tracking
    PROVE  QuotaInv'
<1>1. PICK T : T = Tracking'
  OBVIOUS
<1>2. Cardinality(T) <= Cardinality(Tracking) /\ Cardinality(Tracking) \in Nat /\ Cardinality(T) \in Nat
  BY <1>1, TrackingFinite, FewerGrants
<1>3. Cardinality(granted) \in Nat /\ Limit \in Nat /\ Cardinality(Callers) \in Nat
  BY TrackingFinite, LimitNumbers, FS_CardinalityType DEF LimitBase
<1>4. QED
  BY <1>1, <1>2, <1>3 DEF QuotaInv, OneCount, Counted

LEMMA ArriveKeepsQuota ==
    ASSUME LimitBase, QuotaInv, limiter = "quota",
           NEW c \in Callers, NEW n \in ApiNodes, NEW ask \in Asks, Arrive(c, n, ask)
    PROVE  QuotaInv'
<1>1. PICK r : r = [at |-> CASE limiter = "sliding" -> "trim" [] limiter = "advanced" -> "add"
                            [] OTHER -> "get",
                    node |-> n, t |-> clock, id |-> hits, ask |-> ask, bucket |-> NoBucket]
  OBVIOUS
<1>2. Goes(c, r) /\ UNCHANGED <<redis, memory, granted, outages>> /\ r.at = "get"
  BY <1>1 DEF Arrive
<1>3. Tracking' \subseteq Tracking
  BY <1>2 DEF Goes, LimitBase, Tracking, Waits
<1>4. QED
  BY <1>2, <1>3, QuotaGoesOn

\* Without Redis, and by a reset, counts are lost: no promise is left.
LEMMA OutagesKeepQuota ==
    ASSUME LimitBase, QuotaInv, limiter = "quota",
           (\E c \in Callers : RedisFails(c)) \/ (\E n \in ApiNodes : Reset(n))
    PROVE  QuotaInv'
<1>1. outages' # 0
  BY DEF RedisFails, Reset, LimitBase
<1>2. OneCount(redis') /\ \A m \in ApiNodes : OneCount(memory'[m])
  <2>1. ASSUME NEW c \in Callers, RedisFails(c)
        PROVE  OneCount(redis') /\ \A m \in ApiNodes : OneCount(memory'[m])
    <3>1. redis' = redis /\ Fallback(c)
      BY <2>1 DEF RedisFails
    <3>2. memory' = memory \/ memory' = [memory EXCEPT ![call[c].node] = {Counted(@) + 1}]
      BY <3>1 DEF Fallback
    <3>3. QED
      BY <3>1, <3>2, CountedOneMore DEF QuotaInv, LimitBase
  <2>2. ASSUME NEW n \in ApiNodes, Reset(n)
        PROVE  OneCount(redis') /\ \A m \in ApiNodes : OneCount(memory'[m])
    BY <2>2 DEF Reset, QuotaInv, LimitBase, OneCount
  <2>3. QED
    BY <2>1, <2>2
<1>3. QED
  BY <1>1, <1>2 DEF QuotaInv, OneCount

LEMMA QuotaInvNext ==
    ASSUME LimitBase, LimitBase', QuotaInv, limiter = "quota", LimitNext
    PROVE  QuotaInv'
<1>1. ASSUME NEW c \in Callers, NEW n \in ApiNodes, NEW ask \in Asks, Arrive(c, n, ask) PROVE QuotaInv'
  BY <1>1, ArriveKeepsQuota
<1>2. ASSUME NEW c \in Callers, Trim(c) \/ Add(c) \/ Count(c) \/ SetBucket(c) PROVE FALSE
  <2>1. call[c].at \in {"trim", "add", "count", "set"}
    BY <1>2 DEF Trim, Add, Count, SetBucket, Waits
  <2>2. QED
    BY <2>1, Busied DEF Request, Commands
<1>3. ASSUME NEW c \in Callers, GetBucket(c) PROVE FALSE
  BY <1>3 DEF GetBucket
<1>4. ASSUME NEW c \in Callers, CheckQuota(c) PROVE QuotaInv'
  BY <1>4, CheckQuotaKeepsQuota
<1>5. ASSUME NEW c \in Callers, TrackUsage(c) PROVE QuotaInv'
  BY <1>5, TrackUsageKeepsQuota
<1>6. ASSUME NEW c \in Callers, RedisFails(c) PROVE QuotaInv'
  BY <1>6, OutagesKeepQuota
<1>7. ASSUME NEW n \in ApiNodes, Reset(n) PROVE QuotaInv'
  BY <1>7, OutagesKeepQuota
<1>8. CASE LimitTick
  <2>1. UNCHANGED <<memory, call, granted, outages>> /\ redis' = redis
    BY <1>8 DEF LimitTick
  <2>2. Tracking' = Tracking
    BY <2>1 DEF Tracking, Waits
  <2>3. QED
    BY <2>1, <2>2, QuotaGoesOn
<1>9. QED
  BY <1>1, <1>2, <1>3, <1>4, <1>5, <1>6, <1>7, <1>8 DEF LimitNext

-----------------------------------------------------------------------------
LEMMA LimitInvInit == LimitInit => LimitInv
<1> SUFFICES ASSUME LimitInit PROVE LimitInv
  OBVIOUS
<1>1. ASSUME limiter = "quota" PROVE QuotaInv
  <2>1. /\ redis = {} /\ granted = {} /\ \A n \in ApiNodes : memory[n] = {}
        /\ \A c \in Callers : call[c].at = "idle"
    BY DEF LimitInit, NoCall
  <2>2. Tracking = {}
    BY <2>1 DEF Tracking, Waits
  <2>3. Cardinality(granted) = 0 /\ Cardinality(Tracking) = 0 /\ Counted(redis) = 0
    BY <2>1, <2>2, FS_EmptySet DEF Counted
  <2>4. 0 < Limit + Cardinality(Callers)
    BY LimitNumbers, TrackingFinite
  <2>5. QED
    BY <2>1, <2>3, <2>4 DEF QuotaInv, OneCount
<1>2. QED
  BY <1>1, LimitBaseInit, WindowInvInit, BucketInvInit DEF LimitInv, Buckets

LEMMA LimitBaseNext ==
    ASSUME LimitInv, LimitNext
    PROVE  LimitBase'
<1>1. LimitBase
  BY DEF LimitInv
<1>2. ASSUME NEW c \in Callers, SetBucket(c) PROVE LimitBase'
  <2>1. call[c].at = "set"
    BY <1>2 DEF SetBucket, Waits
  <2>2. limiter \in Buckets
    BY <1>1, <2>1, Busied, SixLimiters DEF Request, Commands, Buckets
  <2>3. BucketInv
    BY <2>2 DEF LimitInv, Buckets
  <2>4. QED
    BY <1>1, <1>2, <2>3, PutBackIs, SetBucketKeepsBase
<1>3. QED
  BY <1>1, <1>2, ArriveKeepsBase, HitsKeepBase, CountKeepsBase, GetBucketKeepsBase, QuotaKeepsBase,
     FailKeepsBase, ResetKeepsBase, TickKeepsBase DEF LimitNext

LEMMA LimitInvNext == LimitInv /\ [LimitNext]_limitVars => LimitInv'
<1> SUFFICES ASSUME LimitInv, [LimitNext]_limitVars PROVE LimitInv'
  OBVIOUS
<1>1. CASE LimitNext
  <2>1. LimitBase /\ LimitBase'
    BY <1>1, LimitBaseNext DEF LimitInv
  <2>2. limiter' = limiter
    BY <1>1 DEF LimitNext, Arrive, Trim, Add, Count, GetBucket, SetBucket, CheckQuota, TrackUsage,
                RedisFails, Reset, LimitTick, LimitRest
  <2>3. ASSUME limiter \in {"sliding", "advanced"} PROVE WindowInv'
    BY <1>1, <2>1, <2>3, WindowInvNext DEF LimitInv
  <2>4. ASSUME limiter \in {"legacy", "burst", "floor"} PROVE BucketInv'
    BY <1>1, <2>1, <2>4, BucketInvNext DEF LimitInv, Buckets
  <2>5. ASSUME limiter = "quota" PROVE QuotaInv'
    BY <1>1, <2>1, <2>5, QuotaInvNext DEF LimitInv
  <2>6. QED
    BY <2>1, <2>2, <2>3, <2>4, <2>5 DEF LimitInv
<1>2. CASE UNCHANGED limitVars
  <2>1. UNCHANGED <<limiter, clock, redis, memory, call, granted, refused, slack, outages>>
    BY <1>2 DEF limitVars
  <2>2. LimitBase' <=> LimitBase
    BY <2>1 DEF LimitBase, Request, Commands
  <2>3. /\ SlidingWindowHolds' <=> SlidingWindowHolds
        /\ LostGrants' = LostGrants /\ LostCalls' = LostCalls
    BY <2>1 DEF SlidingWindowHolds, Sources, LostGrants, LostCalls, Recent, HitOf, Waits, Member
  <2>4. WindowInv' <=> WindowInv
    BY <2>1, <2>3 DEF WindowInv, Recent, HitOf, Member
  <2>5. /\ Refilled(redis, clock)' = Refilled(redis, clock)
        /\ \A b : Bucket(b)' <=> Bucket(b)
    BY <2>1 DEF Refilled, Refill, Bucket
  <2>6. Ledger' <=> Ledger
    BY <2>1, <2>5 DEF Ledger
  <2>7. BucketInv' <=> BucketInv
    BY <2>1, <2>6 DEF BucketInv, OneBucket, Bucket, Held, SmallCallsPass, Waits
  <2>8. QuotaInv' <=> QuotaInv
    BY <2>1 DEF QuotaInv, OneCount, Counted, Tracking, Waits
  <2>9. QED
    BY <2>1, <2>2, <2>4, <2>7, <2>8 DEF LimitInv
<1>3. QED
  BY <1>1, <1>2

\* A reading of LimitInv: the ledger and the counts give the promises.
LEMMA LimitInvHolds == LimitInv => LimitsHold
<1> SUFFICES ASSUME LimitInv PROVE LimitsHold
  OBVIOUS
<1>1. SlidingWindowHolds
  BY DEF LimitInv, WindowInv, SlidingWindowHolds
<1>2. BucketHolds
  <2>1. SUFFICES ASSUME limiter \in {"legacy", "burst"} PROVE BucketHolds
    BY DEF BucketHolds
  <2>2. BucketInv /\ LimitBase
    BY <2>1 DEF LimitInv
  <2>3. PICK now \in Nat : now = Refilled(redis, clock).tokens
    BY <2>2, RefilledIs DEF BucketInv, Bucket
  <2>4. PICK paid \in Nat : paid = IF limiter = "legacy" THEN clock * Rate ELSE 0
    BY <2>2, LimitNumbers DEF LimitBase
  <2>5. Cardinality(granted) + now <= Capacity + slack + paid
    BY <2>1, <2>2, <2>3, <2>4 DEF BucketInv, Ledger
  <2>6. Cardinality(granted) \in Nat /\ slack \in Nat /\ Capacity \in Nat
    BY <2>2, LimitNumbers, FS_CardinalityType DEF LimitBase
  <2>7. Cardinality(granted) <= Capacity + slack + paid
    BY <2>3, <2>4, <2>5, <2>6
  <2>8. QED
    BY <2>4, <2>7 DEF BucketHolds
<1>3. SmallCallsPass
  BY DEF LimitInv, BucketInv, SmallCallsPass
<1>4. QuotaHolds
  <2>1. SUFFICES ASSUME limiter = "quota", outages = 0
                 PROVE  Cardinality(granted) < Limit + Cardinality(Callers)
    BY DEF QuotaHolds
  <2>2. Cardinality(granted) + Cardinality(Tracking) < Limit + Cardinality(Callers)
    BY <2>1 DEF LimitInv, QuotaInv
  <2>3. Cardinality(granted) \in Nat /\ Limit \in Nat
    BY LimitNumbers, FS_CardinalityType DEF LimitInv, LimitBase
  <2>4. QED
    BY <2>2, <2>3, TrackingFinite
<1>5. QED
  BY <1>1, <1>2, <1>3, <1>4 DEF LimitsHold

(***************************************************************************)
(* For every number of processes, requests under way, limits and rates,    *)
(* each limiter of src/security grants what it is configured to grant.     *)
(***************************************************************************)
THEOREM LimitsStay == LimitSpec => []LimitsHold
<1>1. QED
  BY LimitInvInit, LimitInvNext, LimitInvHolds, PTL DEF LimitSpec

-----------------------------------------------------------------------------
(* RequestChain: the layers of a route *)

ChainSpec == ChainInit /\ [][ChainNext]_chainVars

FrontLayers == {"auth", "role", "limit", "admin", "audit"}
OwnLayers == FrontLayers \cup {"handler", "notFound", "errors"}
AllLayers == OwnLayers \cup {"json", "bodyErrors", "correlation", "logging", "timing"}
FrontLength(route) == IF route = "unknown" THEN 0 ELSE Len(Mounted(route))

LEMMA RouterDomains ==
    /\ DOMAIN ResultRoutes = {"ingestResult", "getResult"}
    /\ DOMAIN DeliveryRoutes = {"listDeliveries", "getDelivery", "retryDelivery"}
    /\ DOMAIN DestinationRoutes = {"listDestinations", "changeDestination"}
    /\ DOMAIN LineageRoutes = {"getLineage"}
    /\ DOMAIN HealthRoutes = {"getHealth", "getHealthDetails"}
    /\ DOMAIN MetricsRoutes = {"getMetrics"}
    /\ DOMAIN AdminRoutes = {"admin"}
  BY DEF ResultRoutes, DeliveryRoutes, DestinationRoutes, LineageRoutes, HealthRoutes, MetricsRoutes, AdminRoutes

LEMMA RoutersMount ==
    \A router \in Routers : \A route \in DOMAIN router :
        router[route] \in Seq(FrontLayers) /\ (route = "admin" => router[route] = <<"admin", "audit">>)
<1>1. /\ <<"auth">> \in Seq(FrontLayers) /\ <<"auth", "role">> \in Seq(FrontLayers)
      /\ <<"limit">> \in Seq(FrontLayers) /\ <<>> \in Seq(FrontLayers)
      /\ <<"admin", "audit">> \in Seq(FrontLayers)
  BY DEF FrontLayers
<1>2. /\ Known = <<"auth">> \/ Known = <<>>
      /\ Trusted = <<"auth", "role">> \/ Trusted = <<>>
      /\ Limited = <<"limit">> \/ Limited = <<>>
  BY DEF Known, Trusted, Limited, Guarding, Limiting
<1>3. Known \in Seq(FrontLayers) /\ Trusted \in Seq(FrontLayers) /\ Limited \in Seq(FrontLayers)
  BY <1>1, <1>2
<1>4. Known \o Limited \in Seq(FrontLayers) /\ Trusted \o Limited \in Seq(FrontLayers)
  BY <1>3, ConcatProperties
<1>5. \A route \in DOMAIN ResultRoutes : ResultRoutes[route] \in Seq(FrontLayers) /\ route # "admin"
  <2>1. ResultRoutes["ingestResult"] = Known \o Limited /\ ResultRoutes["getResult"] = Known \o Limited
    BY DEF ResultRoutes
  <2>2. QED
    BY <1>4, <2>1, RouterDomains
<1>6. \A route \in DOMAIN DeliveryRoutes : DeliveryRoutes[route] \in Seq(FrontLayers) /\ route # "admin"
  <2>1. /\ DeliveryRoutes["listDeliveries"] = Limited /\ DeliveryRoutes["getDelivery"] = Known \o Limited
        /\ DeliveryRoutes["retryDelivery"] = Trusted \o Limited
    BY DEF DeliveryRoutes
  <2>2. QED
    BY <1>3, <1>4, <2>1, RouterDomains
<1>7. \A route \in DOMAIN DestinationRoutes : DestinationRoutes[route] \in Seq(FrontLayers) /\ route # "admin"
  <2>1. /\ DestinationRoutes["listDestinations"] = Known \o Limited
        /\ DestinationRoutes["changeDestination"] = Trusted \o Limited
    BY DEF DestinationRoutes
  <2>2. QED
    BY <1>4, <2>1, RouterDomains
<1>8. \A route \in DOMAIN LineageRoutes : LineageRoutes[route] \in Seq(FrontLayers) /\ route # "admin"
  <2>1. LineageRoutes["getLineage"] = Limited
    BY DEF LineageRoutes
  <2>2. QED
    BY <1>3, <2>1, RouterDomains
<1>9. \A route \in DOMAIN HealthRoutes : HealthRoutes[route] \in Seq(FrontLayers) /\ route # "admin"
  <2>1. HealthRoutes["getHealth"] = <<>> /\ HealthRoutes["getHealthDetails"] = Trusted
    BY DEF HealthRoutes
  <2>2. QED
    BY <1>1, <1>3, <2>1, RouterDomains
<1>10. \A route \in DOMAIN MetricsRoutes : MetricsRoutes[route] \in Seq(FrontLayers) /\ route # "admin"
  <2>1. MetricsRoutes["getMetrics"] = <<>>
    BY DEF MetricsRoutes
  <2>2. QED
    BY <1>1, <2>1, RouterDomains
<1>11. \A route \in DOMAIN AdminRoutes :
          AdminRoutes[route] \in Seq(FrontLayers) /\ AdminRoutes[route] = <<"admin", "audit">>
  <2>1. AdminRoutes["admin"] = <<"admin", "audit">>
    BY DEF AdminRoutes
  <2>2. QED
    BY <1>1, <2>1, RouterDomains
<1>12. QED
  BY <1>5, <1>6, <1>7, <1>8, <1>9, <1>10, <1>11 DEF Routers

LEMMA MountedFacts ==
    ASSUME NEW route \in Routes, route # "unknown"
    PROVE  Mounted(route) \in Seq(FrontLayers) /\ (route = "admin" => Mounted(route) = <<"admin", "audit">>)
<1>1. \E router \in Routers : route \in DOMAIN router
  <2>1. route \in UNION {DOMAIN router : router \in Routers}
    BY Zenon DEF Routes
  <2>2. QED
    BY <2>1
<1> DEFINE mine == CHOOSE router \in Routers : route \in DOMAIN router
<1>2. mine \in Routers /\ route \in DOMAIN mine /\ Mounted(route) = mine[route]
  BY <1>1 DEF Mounted
<1>3. QED
  BY <1>2, RoutersMount

\* A handler throws nothing but what the stores may make it throw, and answers with numbers.
LEMMA ControllersThrow ==
    \A controller \in Controllers : \A route \in DOMAIN controller : controller[route].throws \subseteq Stored /\ controller[route].ok \subseteq Nat
<1>1. \A route \in DOMAIN ResultController : ResultController[route].throws \subseteq Stored /\ ResultController[route].ok \subseteq Nat
  BY DEF ResultController, Acts
<1>2. \A route \in DOMAIN DeliveryController : DeliveryController[route].throws \subseteq Stored /\ DeliveryController[route].ok \subseteq Nat
  BY DEF DeliveryController, Acts, Stored
<1>3. \A route \in DOMAIN DestinationController : DestinationController[route].throws \subseteq Stored /\ DestinationController[route].ok \subseteq Nat
  BY DEF DestinationController, Acts, Stored
<1>4. \A route \in DOMAIN LineageController : LineageController[route].throws \subseteq Stored /\ LineageController[route].ok \subseteq Nat
  BY DEF LineageController, Acts, Stored
<1>5. \A route \in DOMAIN HealthController : HealthController[route].throws \subseteq Stored /\ HealthController[route].ok \subseteq Nat
  BY DEF HealthController, Acts, Stored
<1>6. \A route \in DOMAIN MetricsController : MetricsController[route].throws \subseteq Stored /\ MetricsController[route].ok \subseteq Nat
  BY DEF MetricsController, Acts, Stored
<1>7. QED
  BY <1>1, <1>2, <1>3, <1>4, <1>5, <1>6 DEF Controllers

LEMMA ActsThrow ==
    ASSUME NEW route \in Routes \ {"unknown", "admin"}
    PROVE  ActOf(route).throws \subseteq Stored /\ ActOf(route).ok \subseteq Nat
<1>1. \E controller \in Controllers : route \in DOMAIN controller
  <2>1. \E router \in Routers : route \in DOMAIN router
    <3>1. route \in UNION {DOMAIN router : router \in Routers}
      BY Zenon DEF Routes
    <3>2. QED
      BY <3>1
  <2>2. /\ DOMAIN ResultRoutes = DOMAIN ResultController
        /\ DOMAIN DeliveryRoutes = DOMAIN DeliveryController
        /\ DOMAIN DestinationRoutes = DOMAIN DestinationController
        /\ DOMAIN LineageRoutes = DOMAIN LineageController
        /\ DOMAIN HealthRoutes = DOMAIN HealthController
        /\ DOMAIN MetricsRoutes = DOMAIN MetricsController
        /\ DOMAIN AdminRoutes = {"admin"}
    BY DEF ResultRoutes, ResultController, DeliveryRoutes, DeliveryController, DestinationRoutes,
           DestinationController, LineageRoutes, LineageController, HealthRoutes, HealthController,
           MetricsRoutes, MetricsController, AdminRoutes
  <2>3. QED
    BY <2>1, <2>2 DEF Routers, Controllers
<1>2. QED
  BY <1>1, ControllersThrow DEF ActOf

LEMMA ThreeParts ==
    ASSUME NEW S, NEW a \in Seq(S), NEW b \in Seq(S), NEW c \in Seq(S)
    PROVE  /\ Len(a) \in Nat /\ Len(b) \in Nat /\ Len(c) \in Nat
           /\ Len(a \o b \o c) = Len(a) + Len(b) + Len(c)
           /\ \A i \in 1..Len(a) : (a \o b \o c)[i] = a[i]
           /\ \A i \in 1..Len(b) : (a \o b \o c)[Len(a) + i] = b[i]
           /\ \A i \in 1..Len(c) : (a \o b \o c)[Len(a) + Len(b) + i] = c[i]
<1>1. Len(a) \in Nat /\ Len(b) \in Nat /\ Len(c) \in Nat
  BY LenProperties
<1>2. /\ a \o b \in Seq(S) /\ Len(a \o b) = Len(a) + Len(b)
      /\ \A i \in 1..(Len(a) + Len(b)) : (a \o b)[i] = IF i <= Len(a) THEN a[i] ELSE b[i - Len(a)]
  BY ConcatProperties
<1> DEFINE ab == a \o b
<1>3. ab \in Seq(S) /\ Len(ab) = Len(a) + Len(b)
      /\ \A i \in 1..(Len(a) + Len(b)) : ab[i] = IF i <= Len(a) THEN a[i] ELSE b[i - Len(a)]
  BY <1>2
<1>9. ab \in Seq(S)
  BY <1>2
<1> HIDE DEF ab
<1>4. /\ Len(ab \o c) = Len(ab) + Len(c)
      /\ \A i \in 1..(Len(ab) + Len(c)) : (ab \o c)[i] = IF i <= Len(ab) THEN ab[i] ELSE c[i - Len(ab)]
  BY <1>9, ConcatProperties
<1>5. ASSUME NEW i \in 1..Len(a) PROVE (ab \o c)[i] = a[i]
  BY <1>1, <1>3, <1>4
<1>6. ASSUME NEW i \in 1..Len(b) PROVE (ab \o c)[Len(a) + i] = b[i]
  <2>1. Len(a) + i \in 1..(Len(a) + Len(b)) /\ ~(Len(a) + i <= Len(a)) /\ Len(a) + i - Len(a) = i
    BY <1>1
  <2>2. ab[Len(a) + i] = b[i]
    BY <1>3, <2>1
  <2>3. Len(a) + i \in 1..(Len(ab) + Len(c)) /\ Len(a) + i <= Len(ab)
    BY <1>1, <1>3, <2>1
  <2>4. QED
    BY <1>4, <2>2, <2>3
<1>7. ASSUME NEW i \in 1..Len(c) PROVE (ab \o c)[Len(a) + Len(b) + i] = c[i]
  <2>1. /\ Len(a) + Len(b) + i \in 1..(Len(ab) + Len(c)) /\ ~(Len(a) + Len(b) + i <= Len(ab))
        /\ Len(a) + Len(b) + i - Len(ab) = i
    BY <1>1, <1>3
  <2>2. (ab \o c)[Len(a) + Len(b) + i] = c[Len(a) + Len(b) + i - Len(ab)]
    BY <1>4, <2>1
  <2>3. QED
    BY <2>1, <2>2
<1>8. QED
  BY <1>1, <1>3, <1>4, <1>5, <1>6, <1>7 DEF ab

(***************************************************************************)
(* The chain of a route: the five global layers, what is mounted for the   *)
(* route, its handler, and the two layers at the end.                      *)
(***************************************************************************)
LEMMA ChainFacts ==
    ASSUME NEW route \in Routes
    PROVE  /\ FrontLength(route) \in Nat
           /\ route = "unknown" => Len(Chain(route)) = 7
           /\ route # "unknown" => Len(Chain(route)) = FrontLength(route) + 8
           /\ Chain(route)[1] = "json" /\ Chain(route)[2] = "bodyErrors"
           /\ Chain(route)[3] = "correlation" /\ Chain(route)[4] = "logging" /\ Chain(route)[5] = "timing"
           /\ Chain(route)[Len(Chain(route)) - 1] = "notFound" /\ Chain(route)[Len(Chain(route))] = "errors"
           /\ route # "unknown" =>
                /\ \A i \in 1..FrontLength(route) : Chain(route)[5 + i] = Mounted(route)[i]
                /\ Chain(route)[FrontLength(route) + 6] = "handler"
  <1> DEFINE mounted == IF route = "unknown" THEN <<>> ELSE Mounted(route) \o <<"handler">>
             last == <<"notFound", "errors">>
             ownLength == IF route = "unknown" THEN 0 ELSE FrontLength(route) + 1
             whole == Chain(route)
  <1>1. /\ Global \in Seq(AllLayers) /\ Len(Global) = 5
        /\ Global[1] = "json" /\ Global[2] = "bodyErrors" /\ Global[3] = "correlation"
        /\ Global[4] = "logging" /\ Global[5] = "timing"
    BY DEF Global, AllLayers, OwnLayers
  <1>2. last \in Seq(AllLayers) /\ Len(last) = 2 /\ last[1] = "notFound" /\ last[2] = "errors"
    BY DEF AllLayers, OwnLayers
  <1>3. route # "unknown" =>
          /\ Mounted(route) \in Seq(AllLayers) /\ FrontLength(route) = Len(Mounted(route))
          /\ FrontLength(route) \in Nat
    <2>1. route # "unknown" => Mounted(route) \in Seq(FrontLayers)
      BY MountedFacts
    <2>2. FrontLayers \subseteq AllLayers
      BY DEF AllLayers, OwnLayers
    <2>3. QED
      BY <2>1, <2>2, SeqMonotonic, LenProperties DEF FrontLength
  <1>4. FrontLength(route) \in Nat
    BY <1>3 DEF FrontLength
  <1>5. /\ mounted \in Seq(AllLayers) /\ Len(mounted) = ownLength
        /\ route # "unknown" => /\ \A i \in 1..FrontLength(route) : mounted[i] = Mounted(route)[i]
                                /\ mounted[FrontLength(route) + 1] = "handler"
    <2>1. CASE route = "unknown"
      BY <2>1
    <2>2. CASE route # "unknown"
      <3> DEFINE front == Mounted(route)
                 tail == <<"handler">>
      <3>1. tail \in Seq(AllLayers) /\ Len(tail) = 1 /\ tail[1] = "handler"
        BY DEF AllLayers, OwnLayers
      <3>2. front \in Seq(AllLayers) /\ FrontLength(route) = Len(front) /\ Len(front) \in Nat
        BY <1>3, <2>2
      <3>3. mounted = front \o tail
        BY <2>2
      <3> HIDE DEF front, tail
      <3>8. front \in Seq(AllLayers) /\ tail \in Seq(AllLayers)
        BY <3>1, <3>2
      <3>4. /\ front \o tail \in Seq(AllLayers) /\ Len(front \o tail) = Len(front) + Len(tail)
            /\ \A i \in 1..(Len(front) + Len(tail)) :
                 (front \o tail)[i] = IF i <= Len(front) THEN front[i] ELSE tail[i - Len(front)]
        BY <3>8, ConcatProperties
      <3>5. \A i \in 1..Len(front) : (front \o tail)[i] = front[i]
        BY <3>1, <3>2, <3>4
      <3>6. (front \o tail)[Len(front) + 1] = tail[1]
        BY <3>1, <3>2, <3>4
      <3>7. QED
        BY <2>2, <3>1, <3>2, <3>3, <3>4, <3>5, <3>6 DEF front
    <2>3. QED
      BY <2>1, <2>2
  <1>6. whole = Global \o mounted \o last
    BY DEF Chain
  <1>7. ownLength \in Nat
    BY <1>4
  <1> HIDE DEF mounted, last, ownLength, whole
  <1>8. /\ Len(whole) = 7 + ownLength
        /\ \A i \in 1..5 : whole[i] = Global[i]
        /\ \A i \in 1..ownLength : whole[5 + i] = mounted[i]
        /\ \A i \in 1..2 : whole[5 + ownLength + i] = last[i]
    <2>1. Global \in Seq(AllLayers) /\ mounted \in Seq(AllLayers) /\ last \in Seq(AllLayers)
      BY <1>1, <1>2, <1>5
    <2>2. /\ Len(Global \o mounted \o last) = Len(Global) + Len(mounted) + Len(last)
          /\ \A i \in 1..Len(Global) : (Global \o mounted \o last)[i] = Global[i]
          /\ \A i \in 1..Len(mounted) : (Global \o mounted \o last)[Len(Global) + i] = mounted[i]
          /\ \A i \in 1..Len(last) : (Global \o mounted \o last)[Len(Global) + Len(mounted) + i] = last[i]
      BY <2>1, ThreeParts
    <2>3. Len(Global) = 5 /\ Len(mounted) = ownLength /\ Len(last) = 2
      BY <1>1, <1>2, <1>5
    <2>4. 5 + ownLength + 2 = 7 + ownLength
      BY <1>7
    <2>5. QED
      BY <1>6, <2>2, <2>3, <2>4
  <1>9. whole[Len(whole) - 1] = "notFound" /\ whole[Len(whole)] = "errors"
    <2>1. Len(whole) - 1 = 5 + ownLength + 1 /\ Len(whole) = 5 + ownLength + 2
      BY <1>7, <1>8
    <2>2. whole[5 + ownLength + 1] = last[1] /\ whole[5 + ownLength + 2] = last[2]
      BY <1>8
    <2>3. QED
      BY <1>2, <2>1, <2>2
  <1>10. route # "unknown" =>
            /\ \A i \in 1..FrontLength(route) : whole[5 + i] = Mounted(route)[i]
            /\ whole[FrontLength(route) + 6] = "handler"
    <2> SUFFICES ASSUME route # "unknown"
                 PROVE  /\ \A i \in 1..FrontLength(route) : whole[5 + i] = Mounted(route)[i]
                        /\ whole[FrontLength(route) + 6] = "handler"
      OBVIOUS
    <2>1. ownLength = FrontLength(route) + 1
      BY DEF ownLength
    <2>2. 5 + (FrontLength(route) + 1) = FrontLength(route) + 6 /\ FrontLength(route) + 1 \in 1..ownLength
          /\ 1..FrontLength(route) \subseteq 1..ownLength
      BY <1>4, <2>1
    <2>3. whole[5 + (FrontLength(route) + 1)] = mounted[FrontLength(route) + 1]
      BY <1>8, <2>2
    <2>4. QED
      BY <1>5, <1>8, <2>2, <2>3
  <1>11. whole[1] = "json" /\ whole[2] = "bodyErrors" /\ whole[3] = "correlation" /\ whole[4] = "logging"
         /\ whole[5] = "timing"
    BY <1>1, <1>8
  <1>12. (route = "unknown" => Len(whole) = 7) /\ (route # "unknown" => Len(whole) = FrontLength(route) + 8)
    BY <1>4, <1>8 DEF ownLength
  <1>13. QED
    BY <1>4, <1>9, <1>10, <1>11, <1>12 DEF whole

\* Where the layers are.
LEMMA LayerPlaces ==
    ASSUME NEW route \in Routes, NEW i \in 1..Len(Chain(route))
    PROVE  /\ Len(Chain(route)) \in Nat /\ Len(Chain(route)) >= 7
           /\ Chain(route)[i] = "json" <=> i = 1
           /\ Chain(route)[i] = "bodyErrors" <=> i = 2
           /\ Chain(route)[i] = "correlation" <=> i = 3
           /\ Chain(route)[i] = "logging" <=> i = 4
           /\ Chain(route)[i] = "timing" <=> i = 5
           /\ Chain(route)[i] \in OwnLayers <=> i > 5
           /\ Chain(route)[i] = "errors" <=> i = Len(Chain(route))
           /\ Chain(route)[i] = "handler" => route # "unknown" /\ i = FrontLength(route) + 6
           /\ route = "admin" /\ i = 6 => Chain(route)[i] = "admin"
<1> DEFINE n == FrontLength(route)
           size == Len(Chain(route))
           c == Chain(route)[i]
<1>1. n \in Nat /\ i \in Nat /\ size \in Nat /\ size >= 7 /\ i <= size
  BY ChainFacts
<1>2. (route = "unknown" => size = 7) /\ (route # "unknown" => size = n + 8)
  BY ChainFacts
<1>3. /\ i = 1 => c = "json"
      /\ i = 2 => c = "bodyErrors"
      /\ i = 3 => c = "correlation"
      /\ i = 4 => c = "logging"
      /\ i = 5 => c = "timing"
      /\ i = size - 1 => c = "notFound"
      /\ i = size => c = "errors"
      /\ route # "unknown" /\ i = n + 6 => c = "handler"
  BY ChainFacts
<1>4. route = "admin" => n = 2 /\ route # "unknown"
  BY MountedFacts DEF FrontLength
<1>5. route # "unknown" /\ i > 5 /\ i < n + 6 => c \in FrontLayers /\ (route = "admin" /\ i = 6 => c = "admin")
  <2> SUFFICES ASSUME route # "unknown", i > 5, i < n + 6
               PROVE  c \in FrontLayers /\ (route = "admin" /\ i = 6 => c = "admin")
    OBVIOUS
  <2>1. i - 5 \in 1..n /\ i = 5 + (i - 5)
    BY <1>1
  <2>2. c = Mounted(route)[i - 5]
    BY <2>1, ChainFacts
  <2>3. Mounted(route) \in Seq(FrontLayers) /\ n = Len(Mounted(route))
    BY MountedFacts DEF FrontLength
  <2>4. c \in FrontLayers
    BY <2>1, <2>2, <2>3, ElementOfSeq
  <2>5. route = "admin" => Mounted(route) = <<"admin", "audit">>
    BY MountedFacts
  <2>6. QED
    BY <2>2, <2>4, <2>5
<1> HIDE DEF n, size, c
<1>6. \/ i = 1 \/ i = 2 \/ i = 3 \/ i = 4 \/ i = 5 \/ i = size - 1 \/ i = size
      \/ (route # "unknown" /\ i = n + 6) \/ (route # "unknown" /\ i > 5 /\ i < n + 6)
  BY <1>1, <1>2
<1>7. CASE i \in 1..5
  BY <1>1, <1>2, <1>3, <1>4, <1>7 DEF OwnLayers, FrontLayers, n, size, c
<1>8. CASE i = size - 1 \/ i = size
  <2>1. i > 5 /\ (i # n + 6 \/ route = "unknown")
    BY <1>1, <1>2, <1>8
  <2>2. QED
    BY <1>1, <1>2, <1>3, <1>4, <1>8, <2>1 DEF OwnLayers, FrontLayers, n, size, c
<1>9. CASE route # "unknown" /\ i = n + 6
  BY <1>1, <1>2, <1>3, <1>4, <1>9 DEF OwnLayers, FrontLayers, n, size, c
<1>10. CASE route # "unknown" /\ i > 5 /\ i < n + 6
  BY <1>1, <1>2, <1>5, <1>10 DEF OwnLayers, FrontLayers, n, size, c
<1>11. QED
  BY <1>1, <1>6, <1>7, <1>8, <1>9, <1>10

-----------------------------------------------------------------------------
(* RequestChain: the request on its way *)

Chains == [route \in Routes |-> Chain(route)]
Fronts == [route \in Routes |-> IF route = "unknown" THEN {} ELSE Range(Mounted(route))]
ErrorKinds == {"syntax", "tooLarge", "payloadTooLarge", "invalid", "unauthenticated", "unauthorized",
               "limited", "missing", "conflict", "typeError", "internal"}

\* What the handler of body errors makes of the first error.
Seen(first) == IF first = "tooLarge" THEN "payloadTooLarge" ELSE first

Requests ==
    [at : Nat, route : Routes, error : ErrorKinds \cup {NoError}, first : ErrorKinds \cup {NoError},
     auth : BOOLEAN, passed : SUBSET AllLayers, correlated : BOOLEAN, logs : BOOLEAN, gone : BOOLEAN,
     sent : Seq(Nat), logged : Nat]

Truthful(q) ==
    IF q.first = NoError THEN q.sent[1] \in {401, 403} \/ Fronts[q.route] \subseteq q.passed
                         ELSE q.sent[1] = StatusOf[Seen(q.first)]

Answered(q) ==
    /\ q.at = Len(Chains[q.route]) + 1 /\ Len(q.sent) = 1 /\ Truthful(q)
    /\ "json" \in q.passed => q.correlated /\ (q.gone \/ q.logged = 1)

(***************************************************************************)
(* Without an error a request has passed every layer behind it, and in     *)
(* the area of the administrators gets no further than the first layer;    *)
(* an error past the handler of body errors is the first one, as that      *)
(* handler reports it, and no error comes between the body and the log.    *)
(***************************************************************************)
Underway(q) ==
    /\ q.logged = 0 /\ q.at <= Len(Chains[q.route]) + 1
    /\ q.at <= 1 => q.passed = {} /\ q.error = NoError
    /\ q.error = NoError <=> q.first = NoError
    /\ q.error # NoError => q.error = Seen(q.first) \/ (q.at = 2 /\ q.error = q.first)
    /\ "json" \in q.passed => /\ q.at <= 5 => q.error = NoError
                              /\ (q.at > 3 => q.correlated) /\ (q.at > 4 => q.logs)
    /\ q.error = NoError =>
         /\ \A i \in 1..Len(Chains[q.route]) : i < q.at => Chains[q.route][i] \in ErrorLayers \cup q.passed
         /\ q.route = "admin" => q.at <= 6

RequestInv(q) == q \in Requests /\ (q.sent = <<>> \/ Answered(q)) /\ (q.sent = <<>> => Underway(q))

ChainInv == request \in [Http -> Requests] /\ \A r \in Http : RequestInv(request[r])

LEMMA ChainsStay ==
    ASSUME wiring' = wiring
    PROVE  Routes' = Routes /\ Chains' = Chains /\ Fronts' = Fronts
<1>1. Known' = Known /\ Trusted' = Trusted /\ Limited' = Limited
  BY DEF Known, Trusted, Limited, Guarding, Limiting
<1>2. ResultRoutes' = ResultRoutes
  BY <1>1 DEF ResultRoutes
<1>3. DeliveryRoutes' = DeliveryRoutes
  BY <1>1 DEF DeliveryRoutes
<1>4. DestinationRoutes' = DestinationRoutes
  BY <1>1 DEF DestinationRoutes
<1>5. LineageRoutes' = LineageRoutes
  BY <1>1 DEF LineageRoutes
<1>6. HealthRoutes' = HealthRoutes
  BY <1>1 DEF HealthRoutes
<1>7. Routers' = Routers
  BY <1>2, <1>3, <1>4, <1>5, <1>6 DEF Routers, MetricsRoutes, AdminRoutes
<1>8. Routes' = Routes
  BY <1>7 DEF Routes
<1>9. \A route : Mounted(route)' = Mounted(route)
  BY <1>7 DEF Mounted
<1>10. \A route : Chain(route)' = Chain(route)
  BY <1>9 DEF Chain, Global
<1>11. Chains' = Chains /\ Fronts' = Fronts
  BY <1>8, <1>9, <1>10 DEF Chains, Fronts
<1>12. QED
  BY <1>8, <1>11

LEMMA Places ==
    ASSUME NEW route \in Routes
    PROVE  /\ Len(Chains[route]) \in Nat /\ Len(Chains[route]) >= 7
           /\ \A i \in 1..Len(Chains[route]) :
                /\ Chains[route][i] = "json" <=> i = 1
                /\ Chains[route][i] = "bodyErrors" <=> i = 2
                /\ Chains[route][i] = "correlation" <=> i = 3
                /\ Chains[route][i] = "logging" <=> i = 4
                /\ Chains[route][i] = "timing" <=> i = 5
                /\ Chains[route][i] \in OwnLayers <=> i > 5
                /\ Chains[route][i] = "errors" <=> i = Len(Chains[route])
                /\ Chains[route][i] = "handler" => route # "unknown"
                /\ route = "admin" /\ i = 6 => Chains[route][i] = "admin"
<1>1. Chains[route] = Chain(route)
  BY DEF Chains
<1>2. Len(Chain(route)) \in Nat /\ Len(Chain(route)) >= 7
  BY ChainFacts
<1>3. QED
  BY <1>1, <1>2, LayerPlaces

\* What is mounted for a route comes before its handler.
LEMMA FrontIsBefore ==
    ASSUME NEW route \in Routes, NEW i \in 1..Len(Chains[route]), Chains[route][i] = "handler",
           NEW layer \in Fronts[route]
    PROVE  layer \notin ErrorLayers /\ \E j \in 1..Len(Chains[route]) : j < i /\ Chains[route][j] = layer
<1>1. Chains[route] = Chain(route)
  BY DEF Chains
<1>2. route # "unknown" /\ i = FrontLength(route) + 6 /\ FrontLength(route) \in Nat
      /\ Len(Chain(route)) \in Nat
  BY <1>1, LayerPlaces, ChainFacts
<1>3. Mounted(route) \in Seq(FrontLayers) /\ FrontLength(route) = Len(Mounted(route))
      /\ DOMAIN Mounted(route) = 1..Len(Mounted(route))
  BY <1>2, MountedFacts, LenProperties DEF FrontLength
<1>4. PICK k \in 1..FrontLength(route) : layer = Mounted(route)[k]
  BY <1>2, <1>3 DEF Fronts, Range
<1>5. Chain(route)[5 + k] = layer /\ layer \in FrontLayers
  BY <1>2, <1>3, <1>4, ChainFacts, ElementOfSeq
<1>6. 5 + k \in 1..Len(Chain(route)) /\ 5 + k < i
  BY <1>1, <1>2
<1>7. QED
  BY <1>1, <1>5, <1>6 DEF FrontLayers, ErrorLayers

\* What a layer needs to know of a request that has come to it.
LEMMA LayerFacts ==
    ASSUME NEW r \in Http, RequestInv(request[r]), Layer(r) \notin {"new", "end"}
    PROVE  LET q == request[r] IN
           /\ q \in Requests /\ q.route \in Routes /\ q.at \in 1..Len(Chains[q.route])
           /\ Layer(r) = Chains[q.route][q.at]
           /\ q.sent = <<>> /\ Underway(q)
<1> DEFINE q == request[r]
<1>1. q \in Requests /\ q.route \in Routes /\ q.at \in Nat
  BY DEF RequestInv, Requests
<1>2. Chains[q.route] = Chain(q.route) /\ Len(Chains[q.route]) \in Nat
  BY <1>1, Places DEF Chains
<1>3. q.at # 0 /\ ~(q.at > Len(Chain(q.route)))
  BY DEF Layer
<1>4. Layer(r) = Chain(q.route)[q.at]
  BY <1>3 DEF Layer
<1>5. q.at \in 1..Len(Chains[q.route])
  BY <1>1, <1>2, <1>3
<1>6. q.sent = <<>>
  BY <1>2, <1>5 DEF RequestInv, Answered
<1>7. QED
  BY <1>1, <1>2, <1>4, <1>5, <1>6 DEF RequestInv

LEMMA BecomesFacts ==
    ASSUME request \in [Http -> Requests], NEW r \in Http, NEW new, Becomes(r, new)
    PROVE  request'[r] = new /\ wiring' = wiring /\ \A s \in Http : s # r => request'[s] = request[s]
  BY DEF Becomes

(***************************************************************************)
(* The three ways a request leaves a layer: it passes, an error is raised, *)
(* or it is skipped.                                                       *)
(***************************************************************************)
LEMMA PassKeeps ==
    ASSUME NEW q \in Requests, NEW p \in Requests, Underway(q), q.sent = <<>>,
           q.at \in 1..Len(Chains[q.route]), NEW layer \in AllLayers, layer = Chains[q.route][q.at],
           layer \notin ErrorLayers \cup {"admin"}, q.error = NoError,
           p.at = q.at + 1, p.route = q.route, p.error = q.error, p.first = q.first, p.sent = q.sent,
           p.passed = q.passed \cup {layer}, p.logged = q.logged,
           p.correlated = (q.correlated \/ layer = "correlation"), p.logs = (q.logs \/ layer = "logging")
    PROVE  RequestInv(p)
<1>1. q.route \in Routes /\ q.at \in Nat /\ Len(Chains[q.route]) \in Nat
  BY Places DEF Requests
<1>2. (q.route = "admin" => q.at <= 6) /\ (q.route = "admin" => q.at # 6)
  BY <1>1, Places DEF Underway
<1>3. \A i \in 1..Len(Chains[p.route]) : i < p.at => Chains[p.route][i] \in ErrorLayers \cup p.passed
  BY <1>1 DEF Underway
<1>4. /\ p.error = NoError /\ p.first = NoError
      /\ p.at > 1 /\ p.at <= Len(Chains[p.route]) + 1 /\ (p.route = "admin" => p.at <= 6)
  BY <1>1, <1>2 DEF Underway
<1>5. "json" \in p.passed => (p.at > 3 => p.correlated) /\ (p.at > 4 => p.logs)
  <2>1. layer = "json" <=> q.at = 1
    BY <1>1, Places
  <2>2. (q.at = 3 => layer = "correlation") /\ (q.at = 4 => layer = "logging")
    BY <1>1, Places
  <2>3. p.correlated \in BOOLEAN /\ p.logs \in BOOLEAN
    BY DEF Requests
  <2>4. CASE "json" \in q.passed
    <3>1. (q.at > 3 => q.correlated) /\ (q.at > 4 => q.logs)
      BY <2>4 DEF Underway
    <3>2. p.at > 3 => q.at > 3 \/ q.at = 3
      BY <1>1
    <3>3. p.at > 4 => q.at > 4 \/ q.at = 4
      BY <1>1
    <3>4. QED
      BY <2>2, <3>1, <3>2, <3>3
  <2>5. CASE layer = "json"
    BY <1>1, <2>1, <2>5
  <2>6. QED
    BY <2>4, <2>5
<1>6. Underway(p)
  BY <1>3, <1>4, <1>5 DEF Underway
<1>7. QED
  BY <1>6 DEF RequestInv

LEMMA RaiseKeeps ==
    ASSUME NEW q \in Requests, NEW p \in Requests, Underway(q), q.sent = <<>>,
           q.at \in 1..Len(Chains[q.route]), NEW kind \in ErrorKinds,
           \/ q.at = 1
           \/ q.at = 2 /\ q.error # NoError /\ kind = Seen(q.error)
           \/ q.at > 5 /\ q.error = NoError /\ kind # "tooLarge",
           p.at = q.at + 1, p.route = q.route, p.error = kind, p.sent = q.sent,
           p.first = IF q.first = NoError THEN kind ELSE q.first,
           p.passed = q.passed, p.logged = q.logged, p.correlated = q.correlated, p.logs = q.logs
    PROVE  RequestInv(p)
<1>1. q.route \in Routes /\ q.at \in Nat /\ Len(Chains[q.route]) \in Nat /\ q.first \in ErrorKinds \cup {NoError}
  BY Places DEF Requests
<1>2. kind # NoError /\ p.error # NoError /\ p.first # NoError
  BY DEF ErrorKinds, NoError
<1>3. p.error = Seen(p.first) \/ (p.at = 2 /\ p.error = p.first)
  <2>1. CASE q.at = 1
    BY <2>1 DEF Underway
  <2>2. CASE q.at = 2 /\ q.error # NoError /\ kind = Seen(q.error)
    <3>1. q.error = Seen(q.first) \/ q.error = q.first
      BY <2>2 DEF Underway
    <3>2. q.first # NoError
      BY <2>2 DEF Underway
    <3>3. QED
      BY <2>2, <3>1, <3>2 DEF Seen
  <2>3. CASE q.at > 5 /\ q.error = NoError /\ kind # "tooLarge"
    BY <2>3 DEF Underway, Seen
  <2>4. QED
    BY <2>1, <2>2, <2>3
<1>4. "json" \in p.passed => p.at > 5 /\ p.correlated /\ p.logs
  <2>1. ASSUME "json" \in q.passed PROVE q.at > 5
    BY <1>1, <2>1 DEF Underway
  <2>2. QED
    BY <1>1, <2>1 DEF Underway
<1>5. p.at > 1 /\ p.at <= Len(Chains[p.route]) + 1
  BY <1>1
<1>6. Underway(p)
  <2>1. p.at \in Nat
    BY DEF Requests
  <2>2. QED
    BY <1>2, <1>3, <1>4, <1>5, <2>1 DEF Underway
<1>7. QED
  BY <1>6 DEF RequestInv

LEMMA SkipKeeps ==
    ASSUME NEW q \in Requests, NEW p \in Requests, Underway(q), q.sent = <<>>,
           q.at \in 1..Len(Chains[q.route]),
           (Chains[q.route][q.at] \in ErrorLayers) # (q.error # NoError),
           p.at = q.at + 1, p.route = q.route, p.error = q.error, p.first = q.first, p.sent = q.sent,
           p.passed = q.passed, p.logged = q.logged, p.correlated = q.correlated, p.logs = q.logs
    PROVE  RequestInv(p)
<1>1. q.route \in Routes /\ q.at \in Nat /\ Len(Chains[q.route]) \in Nat /\ Len(Chains[q.route]) >= 7
  BY Places DEF Requests
<1>2. /\ Chains[q.route][q.at] \in ErrorLayers <=> q.at = 2 \/ q.at = Len(Chains[q.route])
      /\ q.route = "admin" /\ q.at = 6 => Chains[q.route][q.at] \notin ErrorLayers
  <2>1. q.route = "admin" /\ q.at = 6 => Chains[q.route][q.at] = "admin"
    BY <1>1, Places
  <2>2. QED
    BY <1>1, <2>1, Places DEF ErrorLayers
<1>3. CASE q.error = NoError
  <2>1. q.at = 2 \/ q.at = Len(Chains[q.route])
    BY <1>2, <1>3
  <2>2. q.route = "admin" => q.at <= 6 /\ q.at # 6
    BY <1>2, <1>3 DEF Underway
  <2>3. \A i \in 1..Len(Chains[p.route]) : i < p.at => Chains[p.route][i] \in ErrorLayers \cup p.passed
    BY <1>1, <1>3 DEF Underway
  <2>4. "json" \in p.passed => (p.at > 3 => p.correlated) /\ (p.at > 4 => p.logs)
    BY <1>1, <2>1 DEF Underway
  <2>5. QED
    BY <1>1, <1>3, <2>2, <2>3, <2>4 DEF Underway, RequestInv
<1>4. CASE q.error # NoError
  <2>1. q.at # 2 /\ q.at # 1
    BY <1>1, <1>2, <1>4 DEF Underway
  <2>2. q.error = Seen(q.first)
    BY <1>4, <2>1 DEF Underway
  <2>3. "json" \in q.passed => q.at > 5 /\ q.correlated /\ q.logs
    BY <1>1, <1>4 DEF Underway
  <2>4. QED
    BY <1>1, <1>4, <2>1, <2>2, <2>3 DEF Underway, RequestInv
<1>5. QED
  BY <1>3, <1>4

LEMMA AnswerKeeps ==
    ASSUME NEW q \in Requests, NEW p \in Requests, Underway(q), q.sent = <<>>, q.at > 5,
           NEW status \in Nat, p.sent = Append(q.sent, status),
           IF q.first = NoError THEN status \in {401, 403} \/ Fronts[q.route] \subseteq q.passed
                                ELSE status = StatusOf[Seen(q.first)],
           p.at = Len(Chains[q.route]) + 1, p.route = q.route, p.first = q.first,
           p.passed = q.passed, p.correlated = q.correlated, p.gone = q.gone,
           p.logged = IF q.logs /\ ~q.gone THEN q.logged + 1 ELSE q.logged
    PROVE  RequestInv(p)
<1>1. p.sent = <<status>> /\ p.sent # <<>> /\ Len(p.sent) = 1 /\ p.sent[1] = status
  OBVIOUS
<1>2. Truthful(p)
  BY <1>1 DEF Truthful
<1>3. "json" \in p.passed => p.correlated /\ (p.gone \/ p.logged = 1)
  <2>1. q.at \in Nat /\ q.logged = 0 /\ q.gone \in BOOLEAN
    BY DEF Requests, Underway
  <2>2. "json" \in q.passed => q.correlated /\ q.logs
    BY <2>1 DEF Underway
  <2>3. QED
    BY <2>1, <2>2
<1>4. QED
  BY <1>1, <1>2, <1>3 DEF RequestInv, Answered

LEMMA ChainMoves ==
    ASSUME ChainInv, NEW r \in Http, NEW new, Becomes(r, new), RequestInv(new)
    PROVE  ChainInv'
<1>1. request' = [request EXCEPT ![r] = new] /\ wiring' = wiring
  BY DEF Becomes
<1>2. Routes' = Routes /\ Chains' = Chains /\ Fronts' = Fronts
  BY <1>1, ChainsStay
<1>3. Requests' = Requests
  BY <1>2 DEF Requests
<1>4. new \in Requests
  BY DEF RequestInv
<1>5. request' \in [Http -> Requests]
  BY <1>1, <1>4 DEF ChainInv
<1>6. ASSUME NEW s \in Http
      PROVE  RequestInv(request[s])'
  <2>1. request'[s] = IF s = r THEN new ELSE request[s]
    BY <1>1 DEF ChainInv
  <2>2. PICK q \in {new, request[s]} : request'[s] = q /\ RequestInv(q)
    BY <2>1 DEF ChainInv
  <2>3. QED
    BY <1>2, <1>3, <2>2 DEF RequestInv, Answered, Underway, Truthful
<1>7. QED
  BY <1>3, <1>5, <1>6 DEF ChainInv

\* A layer passes on, and the request knows it.
LEMMA LayerPasses ==
    ASSUME ChainInv, NEW r \in Http, NEW layer \in AllLayers \ (ErrorLayers \cup {"admin"}), Calm(r, layer),
           NEW changed \in Requests, Passes(r, changed),
           changed.at = request[r].at, changed.route = request[r].route, changed.error = request[r].error,
           changed.first = request[r].first, changed.passed = request[r].passed,
           changed.sent = request[r].sent, changed.logged = request[r].logged,
           changed.correlated = (request[r].correlated \/ layer = "correlation"),
           changed.logs = (request[r].logs \/ layer = "logging")
    PROVE  ChainInv'
<1> DEFINE q == request[r]
           p == [changed EXCEPT !.at = changed.at + 1, !.passed = changed.passed \cup {Layer(r)}]
<1>1. RequestInv(q) /\ Layer(r) = layer /\ q.error = NoError
  BY DEF ChainInv, Calm
<1>2. Layer(r) \notin {"new", "end"}
  BY <1>1 DEF AllLayers, OwnLayers, FrontLayers
<1>3. /\ q \in Requests /\ q.route \in Routes /\ q.at \in 1..Len(Chains[q.route])
      /\ layer = Chains[q.route][q.at] /\ q.sent = <<>> /\ Underway(q)
  BY <1>1, <1>2, LayerFacts
<1>4. Becomes(r, p)
  BY DEF Passes
<1>8. changed.at + 1 \in Nat /\ changed.passed \cup {Layer(r)} \in SUBSET AllLayers
  BY <1>1 DEF Requests
<1>9. p \in Requests
  BY <1>8 DEF Requests
<1>5. /\ p.at = q.at + 1 /\ p.passed = q.passed \cup {layer} /\ p.route = q.route /\ p.error = q.error
      /\ p.first = q.first /\ p.sent = q.sent /\ p.logged = q.logged
      /\ p.correlated = (q.correlated \/ layer = "correlation") /\ p.logs = (q.logs \/ layer = "logging")
  BY <1>1 DEF Requests
<1> HIDE DEF p
<1>6. RequestInv(p)
  BY <1>1, <1>3, <1>5, <1>9, PassKeeps
<1>7. QED
  BY <1>4, <1>6, ChainMoves

LEMMA LayerRaises ==
    ASSUME ChainInv, NEW r \in Http, Layer(r) \notin {"new", "end"},
           NEW kind \in ErrorKinds, Raises(r, kind),
           \/ Layer(r) = "json"
           \/ Layer(r) = "bodyErrors" /\ request[r].error # NoError /\ kind = Seen(request[r].error)
           \/ Layer(r) \in OwnLayers /\ request[r].error = NoError /\ kind # "tooLarge"
    PROVE  ChainInv'
<1> DEFINE q == request[r]
           p == [q EXCEPT !.at = q.at + 1, !.error = kind, !.first = IF q.first = NoError THEN kind ELSE q.first]
<1>1. RequestInv(q)
  BY DEF ChainInv
<1>2. /\ q \in Requests /\ q.route \in Routes /\ q.at \in 1..Len(Chains[q.route])
      /\ Layer(r) = Chains[q.route][q.at] /\ q.sent = <<>> /\ Underway(q)
  BY <1>1, LayerFacts
<1>3. Becomes(r, p)
  BY DEF Raises
<1>8. q.at + 1 \in Nat /\ (IF q.first = NoError THEN kind ELSE q.first) \in ErrorKinds \cup {NoError}
  BY <1>2 DEF Requests
<1>9. p \in Requests
  BY <1>2, <1>8 DEF Requests
<1>4. /\ p.at = q.at + 1 /\ p.error = kind /\ p.first = IF q.first = NoError THEN kind ELSE q.first
      /\ p.passed = q.passed /\ p.route = q.route /\ p.sent = q.sent /\ p.logged = q.logged
      /\ p.correlated = q.correlated /\ p.logs = q.logs
  BY <1>2 DEF Requests
<1> HIDE DEF p
<1>5. \/ q.at = 1
      \/ q.at = 2 /\ q.error # NoError /\ kind = Seen(q.error)
      \/ q.at > 5 /\ q.error = NoError /\ kind # "tooLarge"
  BY <1>2, Places
<1>6. RequestInv(p)
  BY <1>2, <1>4, <1>5, <1>9, RaiseKeeps
<1>7. QED
  BY <1>3, <1>6, ChainMoves

LEMMA LayerAnswers ==
    ASSUME ChainInv, NEW r \in Http, Layer(r) \in OwnLayers, NEW status \in Nat, Answers(r, status),
           IF request[r].first = NoError
           THEN status \in {401, 403} \/ Fronts[request[r].route] \subseteq request[r].passed
           ELSE status = StatusOf[Seen(request[r].first)]
    PROVE  ChainInv'
<1> DEFINE q == request[r]
           p == [q EXCEPT !.at = Len(Chain(q.route)) + 1, !.sent = Append(q.sent, status), !.error = NoError,
                          !.logged = IF q.logs /\ ~q.gone THEN q.logged + 1 ELSE q.logged]
<1>1. RequestInv(q) /\ Layer(r) \notin {"new", "end"}
  BY DEF ChainInv, OwnLayers, FrontLayers
<1>2. /\ q \in Requests /\ q.route \in Routes /\ q.at \in 1..Len(Chains[q.route])
      /\ Layer(r) = Chains[q.route][q.at] /\ q.sent = <<>> /\ Underway(q)
  BY <1>1, LayerFacts
<1>3. Becomes(r, p)
  BY DEF Answers
<1>4. Chains[q.route] = Chain(q.route) /\ Len(Chains[q.route]) \in Nat /\ q.at > 5
  BY <1>2, Places DEF Chains
<1>5. Append(q.sent, status) \in Seq(Nat)
  BY <1>2
<1>9. /\ Len(Chain(q.route)) + 1 \in Nat
      /\ (IF q.logs /\ ~q.gone THEN q.logged + 1 ELSE q.logged) \in Nat
      /\ NoError \in ErrorKinds \cup {NoError}
  BY <1>2, <1>4 DEF Requests
<1>10. p \in Requests
  BY <1>2, <1>5, <1>9 DEF Requests
<1>6. /\ p.at = Len(Chains[q.route]) + 1 /\ p.sent = Append(q.sent, status) /\ p.route = q.route
      /\ p.first = q.first /\ p.passed = q.passed /\ p.correlated = q.correlated /\ p.gone = q.gone
      /\ p.logged = IF q.logs /\ ~q.gone THEN q.logged + 1 ELSE q.logged
  BY <1>2, <1>4 DEF Requests
<1> HIDE DEF p
<1>7. RequestInv(p)
  BY <1>2, <1>4, <1>6, <1>10, AnswerKeeps
<1>8. QED
  BY <1>3, <1>7, ChainMoves

LEMMA EarlyLayersKeep ==
    ASSUME ChainInv, NEW r \in Http,
           JsonParser(r) \/ BodyErrorHandler(r) \/ CorrelationId(r) \/ Logging(r) \/ Timing(r)
    PROVE  ChainInv'
<1> DEFINE q == request[r]
<1>1. q \in Requests /\ q.correlated \in BOOLEAN /\ q.logs \in BOOLEAN
  BY DEF ChainInv, Requests
<1>2. CASE JsonParser(r)
  <2>1. ASSUME Passes(r, q) PROVE ChainInv'
    BY <1>1, <1>2, <2>1, LayerPasses DEF JsonParser, AllLayers, ErrorLayers
  <2>2. ASSUME NEW kind \in {"syntax", "tooLarge"}, Raises(r, kind) PROVE ChainInv'
    BY <1>2, <2>2, LayerRaises DEF JsonParser, Calm, ErrorKinds
  <2>3. QED
    BY <1>2, <2>1, <2>2 DEF JsonParser
<1>3. CASE BodyErrorHandler(r)
  <2>1. Layer(r) = "bodyErrors" /\ q.error # NoError /\ Raises(r, Seen(q.error))
    BY <1>3 DEF BodyErrorHandler, Seen
  <2>2. Seen(q.error) \in ErrorKinds
    BY <1>1, <2>1 DEF Requests, Seen, ErrorKinds
  <2>3. QED
    BY <2>1, <2>2, LayerRaises
<1>4. CASE CorrelationId(r)
  <2> DEFINE changed == [q EXCEPT !.correlated = TRUE]
  <2>1. Calm(r, "correlation") /\ Passes(r, changed)
    BY <1>4 DEF CorrelationId
  <2>2. /\ changed \in Requests /\ changed.correlated = TRUE
        /\ changed.at = q.at /\ changed.route = q.route /\ changed.error = q.error /\ changed.first = q.first
        /\ changed.passed = q.passed /\ changed.sent = q.sent /\ changed.logged = q.logged
        /\ changed.logs = q.logs
    BY <1>1 DEF Requests
  <2> HIDE DEF changed
  <2>3. "correlation" \in AllLayers \ (ErrorLayers \cup {"admin"})
    BY DEF AllLayers, ErrorLayers
  <2>4. QED
    BY <1>1, <2>1, <2>2, <2>3, LayerPasses
<1>5. CASE Logging(r)
  <2> DEFINE changed == [q EXCEPT !.logs = TRUE]
  <2>1. Calm(r, "logging") /\ Passes(r, changed)
    BY <1>5 DEF Logging
  <2>2. /\ changed \in Requests /\ changed.logs = TRUE
        /\ changed.at = q.at /\ changed.route = q.route /\ changed.error = q.error /\ changed.first = q.first
        /\ changed.passed = q.passed /\ changed.sent = q.sent /\ changed.logged = q.logged
        /\ changed.correlated = q.correlated
    BY <1>1 DEF Requests
  <2> HIDE DEF changed
  <2>3. "logging" \in AllLayers \ (ErrorLayers \cup {"admin"})
    BY DEF AllLayers, ErrorLayers
  <2>4. QED
    BY <1>1, <2>1, <2>2, <2>3, LayerPasses
<1>6. CASE Timing(r)
  BY <1>1, <1>6, LayerPasses DEF Timing, AllLayers, ErrorLayers
<1>7. QED
  BY <1>2, <1>3, <1>4, <1>5, <1>6

LEMMA OwnLayersKeep ==
    ASSUME ChainInv, NEW r \in Http, Auth(r) \/ RequireRole(r) \/ RateLimit(r) \/ NotFound(r)
    PROVE  ChainInv'
<1> DEFINE q == request[r]
<1>1. q \in Requests /\ q.correlated \in BOOLEAN /\ q.logs \in BOOLEAN
  BY DEF ChainInv, Requests
<1>2. ASSUME NEW layer \in {"auth", "role", "limit", "notFound"}, Calm(r, layer),
             NEW kind \in {"unauthenticated", "unauthorized", "limited", "typeError", "missing"}, Raises(r, kind)
      PROVE  ChainInv'
  <2>1. Layer(r) = layer /\ q.error = NoError
    BY <1>2 DEF Calm
  <2>2. layer \in OwnLayers /\ layer \notin {"new", "end"} /\ kind \in ErrorKinds /\ kind # "tooLarge"
    BY DEF OwnLayers, FrontLayers, ErrorKinds
  <2>3. QED
    BY <1>2, <2>1, <2>2, LayerRaises
<1>3. ASSUME NEW layer \in {"role", "limit"}, Calm(r, layer), Passes(r, q)
      PROVE  ChainInv'
  <2>1. layer \in AllLayers \ (ErrorLayers \cup {"admin"})
    BY DEF AllLayers, OwnLayers, FrontLayers, ErrorLayers
  <2>2. QED
    BY <1>1, <1>3, <2>1, LayerPasses
<1>4. CASE Auth(r)
  <2> DEFINE changed == [q EXCEPT !.auth = TRUE]
  <2>1. Calm(r, "auth") /\ (Passes(r, changed) \/ Raises(r, "unauthenticated"))
    BY <1>4 DEF Auth
  <2>2. /\ changed \in Requests
        /\ changed.at = q.at /\ changed.route = q.route /\ changed.error = q.error /\ changed.first = q.first
        /\ changed.passed = q.passed /\ changed.sent = q.sent /\ changed.logged = q.logged
        /\ changed.correlated = q.correlated /\ changed.logs = q.logs
    BY <1>1 DEF Requests
  <2> HIDE DEF changed
  <2>3. "auth" \in AllLayers \ (ErrorLayers \cup {"admin"})
    BY DEF AllLayers, OwnLayers, FrontLayers, ErrorLayers
  <2>4. ASSUME Passes(r, changed) PROVE ChainInv'
    BY <1>1, <2>1, <2>2, <2>3, <2>4, LayerPasses
  <2>5. QED
    BY <1>2, <2>1, <2>4
<1>5. CASE RequireRole(r)
  BY <1>2, <1>3, <1>5 DEF RequireRole
<1>6. CASE RateLimit(r)
  BY <1>2, <1>3, <1>6 DEF RateLimit
<1>7. CASE NotFound(r)
  BY <1>2, <1>7 DEF NotFound
<1>8. QED
  BY <1>4, <1>5, <1>6, <1>7

LEMMA HandlerKeeps ==
    ASSUME ChainInv, NEW r \in Http, Handler(r)
    PROVE  ChainInv'
<1> DEFINE q == request[r]
<1>1. RequestInv(q) /\ Layer(r) = "handler" /\ q.error = NoError
  BY DEF ChainInv, Handler, Calm
<1>2. /\ q \in Requests /\ q.route \in Routes /\ q.at \in 1..Len(Chains[q.route])
      /\ Chains[q.route][q.at] = "handler" /\ q.sent = <<>> /\ Underway(q)
  BY <1>1, LayerFacts
<1>3. q.first = NoError /\ Fronts[q.route] \subseteq q.passed
  <2>1. ASSUME NEW layer \in Fronts[q.route] PROVE layer \in q.passed
    <3>1. layer \notin ErrorLayers /\ \E j \in 1..Len(Chains[q.route]) : j < q.at /\ Chains[q.route][j] = layer
      BY <1>2, FrontIsBefore
    <3>2. QED
      BY <1>1, <1>2, <3>1 DEF Underway
  <2>2. QED
    BY <1>1, <1>2, <2>1 DEF Underway
<1>4. q.route \notin {"unknown", "admin"}
  <2>1. q.route # "unknown" /\ q.at > 5
    BY <1>2, Places DEF OwnLayers
  <2>2. ASSUME q.route = "admin" PROVE FALSE
    <3>1. q.at <= 6
      BY <1>1, <1>2, <2>2 DEF Underway
    <3>2. q.at = 6
      BY <1>2, <2>1, <3>1
    <3>3. Chains[q.route][q.at] = "admin"
      BY <1>2, <2>2, <3>2, Places
    <3>4. QED
      BY <1>2, <3>3
  <2>3. QED
    BY <2>1, <2>2
<1>5. ActOf(q.route).throws \subseteq Stored /\ ActOf(q.route).ok \subseteq Nat
  BY <1>2, <1>4, ActsThrow
<1>6. "handler" \in OwnLayers /\ Layer(r) \notin {"new", "end"}
  BY <1>1 DEF OwnLayers
<1>7. ASSUME NEW kind \in Stored \cup {"invalid"}, Raises(r, kind) PROVE ChainInv'
  <2>1. kind \in ErrorKinds /\ kind # "tooLarge"
    BY DEF Stored, ErrorKinds
  <2>2. QED
    BY <1>1, <1>6, <1>7, <2>1, LayerRaises
<1>8. ASSUME NEW status \in Nat, Answers(r, status) PROVE ChainInv'
  BY <1>1, <1>3, <1>6, <1>8, LayerAnswers
<1>9. \/ Raises(r, "invalid")
      \/ \E status \in ActOf(q.route).ok : Answers(r, status)
      \/ \E kind \in ActOf(q.route).throws : Raises(r, kind)
  BY DEF Handler
<1>10. QED
  BY <1>5, <1>7, <1>8, <1>9

LEMMA AnswersKeep ==
    ASSUME ChainInv, NEW r \in Http, AdminAuth(r) \/ ErrorHandler(r)
    PROVE  ChainInv'
<1> DEFINE q == request[r]
<1>1. RequestInv(q) /\ Layer(r) \in {"admin", "errors"}
  BY DEF ChainInv, AdminAuth, ErrorHandler, Calm
<1>2. Layer(r) \in OwnLayers /\ Layer(r) \notin {"new", "end"}
  BY <1>1 DEF OwnLayers, FrontLayers
<1>3. /\ q \in Requests /\ q.route \in Routes /\ q.at \in 1..Len(Chains[q.route])
      /\ Layer(r) = Chains[q.route][q.at] /\ q.sent = <<>> /\ Underway(q)
  BY <1>1, <1>2, LayerFacts
<1>4. CASE AdminAuth(r)
  <2>1. q.error = NoError /\ Answers(r, 401)
    BY <1>4 DEF AdminAuth, Calm
  <2>2. q.first = NoError
    BY <1>3, <2>1 DEF Underway
  <2>3. QED
    BY <1>2, <2>1, <2>2, LayerAnswers
<1>5. CASE ErrorHandler(r)
  <2>1. q.error # NoError /\ Answers(r, StatusOf[q.error]) /\ Layer(r) = "errors"
    BY <1>5 DEF ErrorHandler
  <2>2. q.at > 2
    <3>1. Chains[q.route][q.at] \in OwnLayers /\ q.at \in Nat
      BY <1>2, <1>3 DEF Requests
    <3>2. q.at > 5
      BY <1>3, <3>1, Places
    <3>3. QED
      BY <3>1, <3>2
  <2>3. q.error = Seen(q.first) /\ q.first # NoError
    BY <1>3, <2>1, <2>2 DEF Underway
  <2>4. q.error \in ErrorKinds
    BY <1>3, <2>1 DEF Requests
  <2>5. StatusOf[q.error] \in Nat
    BY <2>4 DEF StatusOf, ErrorKinds
  <2>6. QED
    BY <1>2, <2>1, <2>3, <2>5, LayerAnswers
<1>6. QED
  BY <1>4, <1>5

LEMMA CrossingsKeep ==
    ASSUME ChainInv, NEW r \in Http, Skip(r) \/ ClientLeaves(r) \/ \E route \in Routes : Receive(r, route)
    PROVE  ChainInv'
<1> DEFINE q == request[r]
<1>1. RequestInv(q) /\ q \in Requests /\ q.at \in Nat /\ q.route \in Routes
  BY DEF ChainInv, Requests
<1>2. CASE Skip(r)
  <2> DEFINE p == [q EXCEPT !.at = q.at + 1]
  <2>1. Layer(r) \notin {"new", "end"} /\ (Layer(r) \in ErrorLayers) # (q.error # NoError)
    BY <1>2 DEF Skip
  <2>2. /\ q.at \in 1..Len(Chains[q.route])
        /\ Layer(r) = Chains[q.route][q.at] /\ q.sent = <<>> /\ Underway(q)
    BY <1>1, <2>1, LayerFacts
  <2>3. Becomes(r, p)
    BY <1>2 DEF Skip
  <2>7. p \in Requests
    <3>1. q.at + 1 \in Nat
      BY <1>1
    <3>2. QED
      BY <1>1, <3>1 DEF Requests
  <2>4. /\ p.at = q.at + 1 /\ p.passed = q.passed /\ p.route = q.route /\ p.error = q.error
        /\ p.first = q.first /\ p.sent = q.sent /\ p.logged = q.logged
        /\ p.correlated = q.correlated /\ p.logs = q.logs
    BY <1>1 DEF Requests
  <2> HIDE DEF p
  <2>5. RequestInv(p)
    BY <1>1, <2>1, <2>2, <2>4, <2>7, SkipKeeps
  <2>6. QED
    BY <2>3, <2>5, ChainMoves
<1>3. CASE ClientLeaves(r)
  <2> DEFINE p == [q EXCEPT !.gone = TRUE]
  <2>1. Becomes(r, p) /\ Layer(r) \notin {"new", "end"}
    BY <1>3 DEF ClientLeaves
  <2>2. q.sent = <<>> /\ Underway(q)
    BY <1>1, <2>1, LayerFacts
  <2>3. /\ p \in Requests
        /\ p.at = q.at /\ p.passed = q.passed /\ p.route = q.route /\ p.error = q.error
        /\ p.first = q.first /\ p.sent = q.sent /\ p.logged = q.logged
        /\ p.correlated = q.correlated /\ p.logs = q.logs
    BY <1>1 DEF Requests
  <2> HIDE DEF p
  <2>4. RequestInv(p)
    BY <2>2, <2>3 DEF RequestInv, Underway
  <2>5. QED
    BY <2>1, <2>4, ChainMoves
<1>4. ASSUME NEW route \in Routes, Receive(r, route) PROVE ChainInv'
  <2> DEFINE p == [q EXCEPT !.at = 1, !.route = route]
  <2>1. Becomes(r, p) /\ Layer(r) = "new"
    BY <1>4 DEF Receive
  <2>2. q.at = 0
    <3>1. SUFFICES ASSUME q.at # 0 PROVE FALSE
      OBVIOUS
    <3>2. Layer(r) = "new" /\ ~(q.at > Len(Chain(q.route))) /\ Chain(q.route)[q.at] = "new"
      BY <2>1, <3>1 DEF Layer
    <3>3. Chains[q.route] = Chain(q.route) /\ Len(Chains[q.route]) \in Nat
      BY <1>1, Places DEF Chains
    <3>4. q.at \in 1..Len(Chains[q.route])
      BY <1>1, <3>1, <3>2, <3>3
    <3>5. LET c == Chains[q.route][q.at] IN
          /\ c = "json" <=> q.at = 1
          /\ c = "bodyErrors" <=> q.at = 2
          /\ c = "correlation" <=> q.at = 3
          /\ c = "logging" <=> q.at = 4
          /\ c = "timing" <=> q.at = 5
          /\ c \in OwnLayers <=> q.at > 5
      BY <1>1, <3>4, Places
    <3>6. q.at \notin 1..5 /\ ~(q.at > 5)
      BY <3>2, <3>3, <3>5 DEF OwnLayers, FrontLayers
    <3>7. QED
      BY <3>4, <3>6
  <2>3. q.sent = <<>> /\ Underway(q)
    <3>1. Len(Chains[q.route]) \in Nat
      BY <1>1, Places
    <3>2. QED
      BY <1>1, <2>2, <3>1 DEF RequestInv, Answered
  <2>4. q.passed = {} /\ q.error = NoError /\ q.first = NoError /\ q.logged = 0
    BY <2>2, <2>3 DEF Underway
  <2>5. /\ p \in Requests
        /\ p.at = 1 /\ p.passed = q.passed /\ p.route = route /\ p.error = q.error
        /\ p.first = q.first /\ p.sent = q.sent /\ p.logged = q.logged
    BY <1>1 DEF Requests
  <2> HIDE DEF p
  <2>6. Len(Chains[route]) \in Nat
    BY Places
  <2>7. RequestInv(p)
    BY <2>3, <2>4, <2>5, <2>6 DEF RequestInv, Underway
  <2>8. QED
    BY <2>1, <2>7, ChainMoves
<1>5. QED
  BY <1>2, <1>3, <1>4

LEMMA ChainBegins ==
    ASSUME ChainInit
    PROVE  ChainInv
<1>1. "unknown" \in Routes
  BY DEF Routes
<1>2. Len(Chains["unknown"]) \in Nat
  BY <1>1, Places
<1>3. Fresh \in Requests
  BY <1>1 DEF Fresh, Requests
<1>4. /\ Fresh.at = 0 /\ Fresh.route = "unknown" /\ Fresh.error = NoError /\ Fresh.first = NoError
      /\ Fresh.passed = {} /\ Fresh.sent = <<>> /\ Fresh.logged = 0
  BY DEF Fresh
<1>5. RequestInv(Fresh)
  BY <1>2, <1>3, <1>4 DEF RequestInv, Underway
<1>6. request \in [Http -> Requests] /\ \A r \in Http : request[r] = Fresh
  BY <1>3 DEF ChainInit
<1>7. QED
  BY <1>5, <1>6 DEF ChainInv

LEMMA ChainKeepsInv ==
    ASSUME ChainInv, [ChainNext]_chainVars
    PROVE  ChainInv'
<1>1. CASE UNCHANGED chainVars
  <2>1. wiring' = wiring /\ request' = request
    BY <1>1 DEF chainVars
  <2>2. Routes' = Routes /\ Chains' = Chains /\ Fronts' = Fronts
    BY <2>1, ChainsStay
  <2>3. QED
    BY <2>1, <2>2 DEF ChainInv, RequestInv, Requests, Answered, Underway, Truthful
<1>2. CASE ChainNext
  <2>1. PICK r \in Http : ChainStep(r) \/ ClientLeaves(r) \/ \E route \in Routes : Receive(r, route)
    BY <1>2 DEF ChainNext
  <2>2. QED
    BY <2>1, EarlyLayersKeep, OwnLayersKeep, HandlerKeeps, AnswersKeep, CrossingsKeep DEF ChainStep
<1>3. QED
  BY <1>1, <1>2

LEMMA SoundRequests ==
    ASSUME ChainInv
    PROVE  AnsweredOnce /\ AnswersTellTheTruth /\ AnswersAreLogged
<1>1. ASSUME NEW r \in Http
      PROVE  /\ request[r].sent = <<>> \/ Answered(request[r])
             /\ request[r].route \in Routes
  BY DEF ChainInv, RequestInv, Requests
<1>2. AnsweredOnce
  <2>1. ASSUME NEW r \in Http PROVE Len(request[r].sent) <= 1
    <3>1. CASE request[r].sent = <<>>
      BY <3>1
    <3>2. CASE Answered(request[r])
      BY <3>2 DEF Answered
    <3>3. QED
      BY <1>1, <3>1, <3>2
  <2>2. QED
    BY <2>1 DEF AnsweredOnce
<1>3. AnswersAreLogged
  BY <1>1 DEF AnswersAreLogged, Answered
<1>4. AnswersTellTheTruth
  <2> SUFFICES ASSUME NEW r \in Http, request[r].sent # <<>>
               PROVE  LET q == request[r]
                          status == q.sent[1]
                          layers == IF q.route = "unknown" THEN <<>> ELSE Mounted(q.route)
                      IN  IF q.first = NoError
                          THEN status \in {401, 403} \/ Range(layers) \subseteq q.passed
                          ELSE status = StatusOf[IF q.first = "tooLarge" THEN "payloadTooLarge" ELSE q.first]
    BY DEF AnswersTellTheTruth
  <2>1. Truthful(request[r]) /\ request[r].route \in Routes
    BY <1>1 DEF Answered
  <2>2. Range(IF request[r].route = "unknown" THEN <<>> ELSE Mounted(request[r].route)) = Fronts[request[r].route]
    <3>1. Range(<<>>) = {}
      BY DEF Range
    <3>2. QED
      BY <2>1, <3>1 DEF Fronts
  <2>3. QED
    BY <2>1, <2>2 DEF Truthful, Seen
<1>5. QED
  BY <1>2, <1>3, <1>4

(***************************************************************************)
(* For any number of requests and each wiring: a request is answered at    *)
(* most once; with success only if every layer mounted in front of its     *)
(* handler let it pass, else with the status of its first error; and an    *)
(* answered request with a readable body has its correlation id and its    *)
(* line in the log (createApp, errorHandlerMiddleware).                    *)
(***************************************************************************)
THEOREM ChainStaysSound == ChainSpec => [](AnsweredOnce /\ AnswersTellTheTruth /\ AnswersAreLogged)
<1>1. ChainInit => ChainInv
  BY ChainBegins
<1>2. ChainInv /\ [ChainNext]_chainVars => ChainInv'
  BY ChainKeepsInv
<1>3. ChainInv => AnsweredOnce /\ AnswersTellTheTruth /\ AnswersAreLogged
  BY SoundRequests
<1>4. QED
  BY <1>1, <1>2, <1>3, PTL DEF ChainSpec
=============================================================================
