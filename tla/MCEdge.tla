------------------------------- MODULE MCEdge -------------------------------
(* The limiters, the request chain, tokens, signatures, secrets, API keys  *)
(* and the tables of permissions share no state: each is explored in       *)
(* executions of its own, every limiter and every wiring separately.       *)
EXTENDS RateLimiting, RequestChain, Credentials

VARIABLE part

vars == <<part, limitVars, chainVars, tokenVars, signVars, secretVars, keyVars, context>>

Init ==
    /\ part \in {"limits", "chain", "token", "sign", "secret", "key", "context"}
    /\ LimitInit /\ (part # "limits" => limiter = "sliding")
    /\ ChainInit /\ (part # "chain" => wiring = "setupApi")
    /\ TokenInit /\ SecretInit
    /\ SignInit /\ (part # "sign" => stamp = 0)
    /\ KeyInit /\ (part # "key" => keyWiring = "module")
    /\ IF part = "context" THEN ContextInit ELSE context = [roles |-> {}, permissions |-> {}]

Only(p) ==
    /\ part = p /\ UNCHANGED <<part, context>>
    /\ p # "limits" => UNCHANGED limitVars
    /\ p # "chain" => UNCHANGED chainVars
    /\ p # "token" => UNCHANGED tokenVars
    /\ p # "sign" => UNCHANGED signVars
    /\ p # "secret" => UNCHANGED secretVars
    /\ p # "key" => UNCHANGED keyVars

Next ==
    \/ Only("limits") /\ LimitNext
    \/ Only("chain") /\ ChainNext
    \/ Only("token") /\ TokenNext
    \/ Only("sign") /\ SignNext
    \/ Only("secret") /\ SecretNext
    \/ Only("key") /\ KeyNext

\* The server goes on with a request whose body it has received.
Spec == Init /\ [][Next]_vars /\ \A r \in Http : WF_vars(Only("chain") /\ ChainStep(r))
=============================================================================
