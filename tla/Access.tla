------------------------------- MODULE Access -------------------------------
(***************************************************************************)
(* A request on its way through the API: RateLimitMiddleware.dispatch,     *)
(* which verifies the token and charges a bucket, then the route's own     *)
(* dependency, which verifies it again, then the handler.  Two handlers    *)
(* stand for the routes: audit_for_correlation, a tenant's read of its own *)
(* rows, and break_glass_query, an operator's read of another tenant's.    *)
(***************************************************************************)
EXTENDS TokenVerifier

CONSTANTS
    Requests,   \* requests, and the event ids of the rows they write
    Tenants,    \* tenants, also the tenant_scope of a break-glass request
    CorrIds,    \* correlation ids
    OwnTenant,  \* the tenant_id claim of the tenant issuer's tokens
    Traced      \* <<tenant, correlation id>> pairs that have audit rows

ASSUME AccessAssumption ==
    /\ Issuers = {"tenant", "operator"}
    /\ OwnTenant \in Tenants
    /\ Traced \subseteq Tenants \X CorrIds
    /\ \A p, q \in Traced : p[2] = q[2] => p = q

VARIABLES
    at,         \* where each request is
    req,        \* [path, token, corr, scope] of each request sent
    answer,     \* [status, rows] of each request answered
    audit,      \* committed rows of audit_events
    tx          \* the row each open break-glass transaction has inserted

accessVars == <<at, req, answer, audit, tx>>
vars == <<issuer, tokens, expired, jwks, at, req, answer, audit, tx>>

Row(tenant, corr, kind, by) == [tenant |-> tenant, corr |-> corr, kind |-> kind, by |-> by]
NoAnswer == [status |-> 0, rows |-> {}]
NoReq == [path |-> "none"]

Places == {"idle", "sent", "charging", "handler", "authorised", "inserted", "done"}

AccessTypeOK ==
    /\ VerifierTypeOK
    /\ at \in [Requests -> Places]
    /\ DOMAIN req = Requests /\ DOMAIN answer = Requests /\ DOMAIN tx = Requests
    /\ \A r \in Requests :
        /\ at[r] # "idle" => req[r] \in [path : {"audit", "break_glass"}, token : tokens,
                                        corr : CorrIds, scope : Tenants]
        /\ answer[r].status \in {0, 200, 401, 404, 429, 500, 502, 503}
        /\ at[r] = "done" <=> answer[r].status # 0
        /\ tx[r] # {} => at[r] = "inserted"
    /\ \A e, f \in audit : e.corr = f.corr /\ e.kind = f.kind => e = f

Init ==
    /\ VerifierInit
    /\ at = [r \in Requests |-> "idle"]
    /\ req = [r \in Requests |-> NoReq]
    /\ answer = [r \in Requests |-> NoAnswer]
    /\ audit = {Row(p[1], p[2], "finding", "none") : p \in Traced}
    /\ tx = [r \in Requests |-> {}]

Goto(r, place) == at' = [at EXCEPT ![r] = place]

Answer(r, status, rows) ==
    /\ Goto(r, "done")
    /\ answer' = [answer EXCEPT ![r] = [status |-> status, rows |-> rows]]

(* A client sends a request with some token it holds.                        *)
Send(r) ==
    /\ at[r] = "idle"
    /\ \E path \in {"audit", "break_glass"}, t \in tokens, c \in CorrIds, s \in Tenants :
        /\ path = "audit" => s = OwnTenant
        /\ req' = [req EXCEPT ![r] = [path |-> path, token |-> t, corr |-> c, scope |-> s]]
    /\ Goto(r, "sent")
    /\ UNCHANGED <<issuer, tokens, expired, jwks, answer, audit, tx>>

_is_exempt(path) == path = "break_glass"

(* Run verifier i on the request's token: go on, or answer 401, or           *)
(* `unavailable` when the issuer was never reached.                          *)
Authenticate(r, i, next, unavailable) ==
    LET result == verify(i, req[r].token) IN
    /\ jwks' = [jwks EXCEPT ![i] = result.then]
    /\ IF result.verdict = "ok" THEN Goto(r, next) /\ UNCHANGED answer
       ELSE Answer(r, IF result.verdict = "unavailable" THEN unavailable ELSE 401, {})
    /\ UNCHANGED <<issuer, tokens, expired, req, audit, tx>>

(* dispatch up to its first await: any failure of verify is a 401.           *)
dispatch(r) ==
    /\ at[r] = "sent"
    /\ IF _is_exempt(req[r].path)
       THEN Goto(r, "handler") /\ UNCHANGED <<issuer, tokens, expired, jwks, req, answer, audit, tx>>
       ELSE Authenticate(r, "tenant", "charging", 401)

(* Its other half: the bucket allows, denies, or Redis does not answer.      *)
charge(r) ==
    /\ at[r] = "charging"
    /\ \/ Goto(r, "handler") /\ UNCHANGED answer
       \/ Answer(r, 429, {})
       \/ Answer(r, 503, {})
    /\ UNCHANGED <<issuer, tokens, expired, jwks, req, audit, tx>>

(* authenticated_principal and authenticated_operator_principal.             *)
Verifier(path) == IF path = "break_glass" THEN "operator" ELSE "tenant"

authenticated_principal(r) ==
    /\ at[r] = "handler"
    /\ Authenticate(r, Verifier(req[r].path), "authorised", 503)

(* list_for_correlation, as break_glass_query reads too.                     *)
Select(rows, tenant, corr) == {e \in rows : e.tenant = tenant /\ e.corr = corr}

Respond(r, rows) == Answer(r, IF rows = {} THEN 404 ELSE 200, rows)

audit_for_correlation(r) ==
    /\ at[r] = "authorised" /\ req[r].path = "audit"
    /\ Respond(r, Select(audit, OwnTenant, req[r].corr))
    /\ UNCHANGED <<issuer, tokens, expired, jwks, req, audit, tx>>

(* The INSERT of break_glass_query waits for another open transaction that   *)
(* has inserted under the same correlation id, and does nothing if a row is  *)
(* there.                                                                    *)
Taken(rows, c) == \E e \in rows : e.corr = c /\ e.kind = "break_glass"

insert_break_glass(r) ==
    /\ at[r] = "authorised" /\ req[r].path = "break_glass"
    /\ \A q \in Requests \ {r} : ~Taken(tx[q], req[r].corr)
    /\ tx' = [tx EXCEPT ![r] = IF Taken(audit, req[r].corr) THEN {}
                               ELSE {Row(req[r].scope, req[r].corr, "break_glass", r)}]
    /\ Goto(r, "inserted")
    /\ UNCHANGED <<issuer, tokens, expired, jwks, req, answer, audit>>

(* Mutant: the caller's rows are read without the audit row of the call.     *)
select_break_glass_other_kinds(r) ==
    /\ at[r] = "inserted"
    /\ audit' = audit \cup tx[r]
    /\ tx' = [tx EXCEPT ![r] = {}]
    /\ Respond(r, {e \in Select(audit', req[r].scope, req[r].corr) : e.kind # "break_glass"})
    /\ UNCHANGED <<issuer, tokens, expired, jwks, req>>

(* Mutant: the audit row is not in the transaction of the read.              *)
select_break_glass_unaudited(r) ==
    /\ at[r] = "inserted"
    /\ tx' = [tx EXCEPT ![r] = {}]
    /\ Respond(r, Select(audit \cup tx[r], req[r].scope, req[r].corr))
    /\ UNCHANGED <<issuer, tokens, expired, jwks, req, audit>>

(* The SELECT, which sees the transaction's own row, and the commit.         *)
select_break_glass(r) ==
    /\ at[r] = "inserted"
    /\ audit' = audit \cup tx[r]
    /\ tx' = [tx EXCEPT ![r] = {}]
    /\ Respond(r, Select(audit', req[r].scope, req[r].corr))
    /\ UNCHANGED <<issuer, tokens, expired, jwks, req>>

(* A statement, the acquisition or the commit raises: 500, and a rollback    *)
(* unless it was only the answer to the COMMIT that was lost.                *)
DatabaseError(r) ==
    /\ at[r] \in {"authorised", "inserted"}
    /\ Answer(r, 500, {})
    /\ audit' \in {audit, audit \cup tx[r]}
    /\ tx' = [tx EXCEPT ![r] = {}]
    /\ UNCHANGED <<issuer, tokens, expired, jwks, req>>

(* The API process dies and comes back: requests in flight are lost, open    *)
(* transactions roll back, the verifiers start anew.  A lost request is      *)
(* answered by the connection breaking, 502 here.                            *)
RestartApi ==
    LET cut == {r \in Requests : at[r] \notin {"idle", "done"}} IN
    /\ \E i \in Issuers : jwks[i] # FreshVerifier
    /\ jwks' = [i \in Issuers |-> FreshVerifier]
    /\ at' = [r \in Requests |-> IF r \in cut THEN "done" ELSE at[r]]
    /\ answer' = [r \in Requests |-> IF r \in cut THEN [NoAnswer EXCEPT !.status = 502] ELSE answer[r]]
    /\ tx' = [r \in Requests |-> {}]
    /\ UNCHANGED <<issuer, tokens, expired, req, audit>>
-----------------------------------------------------------------------------
Serve(r) ==
    \/ dispatch(r) \/ charge(r) \/ authenticated_principal(r)
    \/ audit_for_correlation(r) \/ insert_break_glass(r) \/ select_break_glass(r)
    \/ DatabaseError(r)

Environment ==
    /\ \/ \E i \in Issuers : StopIssuer(i) \/ StartIssuer(i) \/ token(i) \/ LapseSet(i)
       \/ \E t \in tokens : Expire(t)
    /\ UNCHANGED accessVars

Next ==
    \/ \E r \in Requests : Send(r) \/ Serve(r)
    \/ Environment
    \/ RestartApi

Spec == Init /\ [][Next]_vars
-----------------------------------------------------------------------------
(* What the code keeps of FR-005b ("before any bypassed read returns to the  *)
(* caller"): the step that answers a break-glass request 200 commits the row *)
(* of that request, with its own scope, unless another operator's request    *)
(* had already committed one for the correlation id (the ON CONFLICT DO      *)
(* NOTHING of api.py:105).  In that case it is not SC-013: the row that is   *)
(* there may name another scope, and then no row names this reader or the    *)
(* tenant whose rows it was shown.                                           *)
DisclosureCommitsRow ==
    [][\A r \in Requests :
          req[r].path = "break_glass" /\ answer[r].status # 200 /\ answer'[r].status = 200 =>
              \/ audit' = audit \cup {Row(req[r].scope, req[r].corr, "break_glass", r)}
              \/ \E e \in audit :
                    /\ e.kind = "break_glass" /\ e.corr = req[r].corr
                    /\ e.by # r /\ req[e.by].path = "break_glass" /\ req[e.by].corr = e.corr
                    /\ req[e.by].scope = e.tenant /\ req[e.by].token.iss = "operator"]_vars

(* The 404 of break_glass_query is reachable only through the conflict: the  *)
(* row it has just inserted is among the rows it reads, so "no events" means *)
(* the row of this correlation id belongs to another tenant_scope.           *)
NotFoundMeansOtherScope ==
    \A r \in Requests :
        req[r].path = "break_glass" /\ answer[r].status = 404 =>
            \E e \in audit : e.kind = "break_glass" /\ e.corr = req[r].corr /\ e.tenant # req[r].scope

Current(t) == issuer[t.iss].up /\ t.kid = issuer[t.iss].kid /\ t.key = issuer[t.iss].key
Retired(i, kid, held) ==
    /\ issuer[i].up /\ issuer[i].kid = kid
    /\ \E k \in held : k.kid = kid /\ k.key # issuer[i].key
Stale(i, kid) == Retired(i, kid, jwks[i].lru)

(* Key rotation (jwt_verifier.py:117-120, 169-178).  With the issuer up, a   *)
(* current, unexpired token presented to its own verifier is refused only if *)
(* the verifier still holds a retired key under the token's key id: however  *)
(* old the cached set is, a new key id is found at the first request.        *)
GenuineRefusedOnlyIfStale ==
    [][\A r \in Requests :
          LET t == req[r].token IN
          /\ at[r] \in {"sent", "handler"} /\ answer[r].status # answer'[r].status
          /\ answer'[r].status = 401
          /\ Current(t) /\ t \notin expired /\ t.iss = Verifier(req[r].path)
          => Retired(t.iss, t.kid, jwks[t.iss].lru \cup {jwks[t.iss].set})]_vars

(* A retired key looked up under a key id that was reused is not cured by the *)
(* tokens it fails, nor by the lifespan of the key set.  Only a look-up that *)
(* finds no key at all, that of a token with another key id, replaces the    *)
(* client; or the issuer or the API restarts.                                *)
StaleKeyOutlivesItsFailures ==
    [][\A i \in Issuers : \A kid \in KeyIds[i] :
          Stale(i, kid) /\ ~Stale(i, kid)' =>
              \/ issuer' # issuer
              \/ RestartApi
              \/ \E r \in Requests : at'[r] # at[r] /\ req[r].token.kid # kid]_vars

(* A query request that was charged to the bucket reaches its handler: the   *)
(* second verification can refuse it only if the token expired meanwhile or  *)
(* another request's failed look-up emptied the key cache.  An issuer that   *)
(* stops or rotates, or a key set that lapses, cannot come between.          *)
ChargedRequestKept ==
    [][\A r \in Requests :
          at[r] = "handler" /\ req[r].path = "audit" /\ answer'[r].status = 401 =>
              \/ req[r].token \in expired
              \/ [kid |-> req[r].token.kid, key |-> req[r].token.key] \notin jwks["tenant"].lru]_vars
=============================================================================
