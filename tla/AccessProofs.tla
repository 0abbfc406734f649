---------------------------- MODULE AccessProofs ----------------------------
(***************************************************************************)
(* The inductive invariant of Access and the theorems that rest on it, for *)
(* any tenants, correlation ids, requests, key ids and number of key       *)
(* rotations: what a verifier returns and leaves in its caches; that every *)
(* step keeps the invariant; and what follows about the reasons a token    *)
(* may be refused for and about what stands behind a disclosure.           *)
(***************************************************************************)
EXTENDS Access, TLAPS

(* The keys of a verifier under one key id: at most one.                     *)
OneKeyPerId(v) == \A k, l \in v.lru : k.kid = l.kid => k = l

(* What a look-up returns and leaves behind.                                 *)
LookedUp(i, v, kid, found) ==
    /\ found.then \in Verifiers(i)
    /\ OneKeyPerId(v) => OneKeyPerId(found.then)
    /\ found.key \in Nat
    /\ \A k \in v.lru : k.kid = kid /\ OneKeyPerId(v) => found.key = k.key /\ found.then = v
    /\ found.key # 0 =>
         \E k \in v.lru \cup {v.set, fetch_data(i)} : k.kid = kid /\ k.key = found.key
    /\ found.key = 0 => fetch_data(i).kid # kid

(* GET /.well-known/jwks.json returns the issuer's one key, or nothing.      *)
LEMMA FetchType ==
    ASSUME VerifierTypeOK, NEW i \in Issuers
    PROVE  /\ fetch_data(i) \in Keys(i) \cup {NoSet}
           /\ issuer[i].up => fetch_data(i) = [kid |-> issuer[i].kid, key |-> issuer[i].key]
  BY Zenon DEF VerifierTypeOK, IssuerStates, Keys, fetch_data

(* PyJWKClient.get_signing_key does that.                                    *)
LEMMA GetSigningKey ==
    ASSUME VerifierTypeOK, NEW i \in Issuers, NEW v \in Verifiers(i), NEW kid, kid # "none"
    PROVE  LookedUp(i, v, kid, get_signing_key(i, v, kid))
<1> DEFINE hit == {k \in v.lru : k.kid = kid}
           set == IF v.set = NoSet THEN fetch_data(i) ELSE v.set
           again == IF set.kid = kid \/ set = NoSet THEN set ELSE fetch_data(i)
           found == get_signing_key(i, v, kid)
<1>1. /\ fetch_data(i) \in Keys(i) \cup {NoSet} /\ v.set \in Keys(i) \cup {NoSet}
      /\ v.lru \subseteq Keys(i)
  BY FetchType, Zenon DEF Verifiers
<1>2. \A k \in Keys(i) : k.key \in Nat /\ k.key # 0
  BY TokenVerifierAssumption DEF Keys
<1>3. CASE hit # {}
  <2>1. PICK h \in hit : found = [key |-> h.key, then |-> v]
    BY <1>3, Zenon DEF get_signing_key
  <2> QED BY <1>1, <1>2, <2>1 DEF LookedUp, OneKeyPerId
<1>4. CASE hit = {}
  <2>1. again \in {v.set, fetch_data(i)} /\ again \in Keys(i) \cup {NoSet}
    BY <1>1, Zenon
  <2>2. CASE again.kid = kid
    <3>1. found = [key |-> again.key, then |-> Found(v, again)]
      BY <1>4, <2>2, Zenon DEF get_signing_key
    <3>2. again \in Keys(i)
      BY <2>1, <2>2 DEF NoSet
    <3>3. /\ Found(v, again) \in Verifiers(i)
          /\ Found(v, again).lru = v.lru \cup {again}
      BY <3>2, Zenon DEF Found, Verifiers
    <3>4. OneKeyPerId(v) => OneKeyPerId(Found(v, again))
      BY <1>4, <2>2, <3>3 DEF OneKeyPerId
    <3> HIDE DEF again, set
    <3> QED BY <1>2, <1>4, <2>1, <2>2, <3>1, <3>2, <3>3, <3>4 DEF LookedUp
  <2>3. CASE again.kid # kid
    <3>1. found = [key |-> 0, then |-> [v EXCEPT !.set = again]]
      BY <1>4, <2>3, Zenon DEF get_signing_key
    <3>2. fetch_data(i).kid # kid
      BY <2>3, Zenon DEF NoSet
    <3>3. [v EXCEPT !.set = again] \in Verifiers(i) /\ [v EXCEPT !.set = again].lru = v.lru
      BY <2>1, Zenon DEF Verifiers
    <3>4. OneKeyPerId(v) => OneKeyPerId([v EXCEPT !.set = again])
      BY <3>3, Zenon DEF OneKeyPerId
    <3>5. \A k \in v.lru : k.kid # kid
      BY <1>4, Zenon
    <3>6. found.key = 0 /\ found.then = [v EXCEPT !.set = again]
      BY <3>1
    <3> HIDE DEF again, set, found
    <3>7. LookedUp(i, v, kid, found)
      BY <3>2, <3>3, <3>4, <3>5, <3>6 DEF LookedUp
    <3> QED BY <3>7, Zenon DEF found
  <2> QED BY <2>2, <2>3, Zenon
<1> QED BY <1>3, <1>4, Zenon

(* What a call of JWTVerifier.verify returns and leaves behind.  The cases   *)
(* in which a token of issuer i is refused are the three the documents name: *)
(* it expired, discovery failed, or the key found is not the token's.        *)
Verified(i, t, result) ==
    /\ result.then \in Verifiers(i)
    /\ OneKeyPerId(jwks[i]) => OneKeyPerId(result.then)
    /\ result.verdict \in {"ok", "invalid", "expired", "unavailable"}
    /\ result.verdict = "ok" => t.iss = i
    /\ t.iss = i /\ t \notin expired /\ result.verdict = "invalid" =>
         \/ \E k \in jwks[i].lru \cup {jwks[i].set, fetch_data(i)} : k.kid = t.kid /\ k.key # t.key
         \/ fetch_data(i).kid # t.kid
    /\ result.verdict = "expired" => t \in expired
    /\ result.verdict = "unavailable" => ~issuer[i].up
    /\ \A k \in jwks[i].lru : k.kid = t.kid /\ OneKeyPerId(jwks[i]) =>
         /\ result.then.lru = jwks[i].lru
         /\ t.iss = i /\ t.key = k.key /\ t \notin expired => result.verdict \in {"ok", "unavailable"}

(* JWTVerifier.verify does that.                                             *)
LEMMA VerifyDoes ==
    ASSUME VerifierTypeOK, NEW i \in Issuers, NEW t \in tokens
    PROVE  Verified(i, t, verify(i, t))
<1> DEFINE v == [jwks[i] EXCEPT !.uri = TRUE]
           first == get_signing_key(i, v, t.kid)
           found == _signing_key_or_refresh(i, v, t.kid)
           result == verify(i, t)
<1>1. jwks[i] \in Verifiers(i) /\ v \in Verifiers(i) /\ v.lru = jwks[i].lru /\ v.set = jwks[i].set
  BY Zenon DEF VerifierTypeOK, Verifiers
<1>2. t.kid # "none"
  BY TokenVerifierAssumption DEF VerifierTypeOK, Tokens
<1> HIDE DEF v
<1>3. OneKeyPerId(v) <=> OneKeyPerId(jwks[i])
  BY <1>1, Zenon DEF OneKeyPerId
<1>4. LookedUp(i, v, t.kid, first)
  BY <1>1, <1>2, GetSigningKey, Zenon
<1> HIDE DEF first
<1>5. /\ found.then \in Verifiers(i)
      /\ OneKeyPerId(v) => OneKeyPerId(found.then)
      /\ found.key # 0 \/ fetch_data(i).kid # t.kid
      /\ found.key # 0 =>
           \E k \in v.lru \cup {v.set, fetch_data(i)} : k.kid = t.kid /\ k.key = found.key
      /\ \A k \in v.lru : k.kid = t.kid /\ OneKeyPerId(v) => found.key = k.key /\ found.then = v
  <2>1. CASE first.key # 0
    <3>1. found = first
      BY <2>1, Zenon DEF _signing_key_or_refresh, first
    <3> QED BY <1>4, <2>1, <3>1, Zenon DEF LookedUp
  <2>2. CASE first.key = 0
    <3> DEFINE w == _refresh_jwks(first.then)
    <3>1. found = get_signing_key(i, w, t.kid)
      BY <2>2, Zenon DEF _signing_key_or_refresh, first
    <3>2. w \in Verifiers(i) /\ w.lru = {} /\ w.set = NoSet
      BY <1>4, Zenon DEF LookedUp, _refresh_jwks, Verifiers
    <3>3. OneKeyPerId(w)
      BY <3>2, Zenon DEF OneKeyPerId
    <3> HIDE DEF w, found
    <3>4. LookedUp(i, w, t.kid, found)
      BY <1>2, <3>1, <3>2, GetSigningKey, Zenon
    <3>5. fetch_data(i).kid # t.kid
      BY <1>4, <2>2, Zenon DEF LookedUp
    <3>6. found.key = 0
      BY <1>2, <3>2, <3>4, <3>5 DEF LookedUp, NoSet
    <3>7. \A k \in v.lru : k.kid = t.kid /\ OneKeyPerId(v) => FALSE
      <4>1. \A k \in v.lru : k.key # 0
        BY <1>1, TokenVerifierAssumption DEF Verifiers, Keys
      <4> QED BY <1>4, <2>2, <4>1, Zenon DEF LookedUp
    <3> QED BY <3>3, <3>4, <3>5, <3>6, <3>7, Zenon DEF LookedUp
  <2> QED BY <2>1, <2>2, Zenon
<1> HIDE DEF found
<1>6. CASE ~jwks[i].uri /\ ~issuer[i].up
  <2>1. result = [verdict |-> "unavailable", then |-> jwks[i]]
    BY <1>6, Zenon DEF verify
  <2>2. result.verdict = "unavailable" /\ result.then = jwks[i]
    BY <2>1
  <2> HIDE DEF result
  <2>3. Verified(i, t, result)
    BY <1>1, <1>6, <2>2, Zenon DEF Verified
  <2> QED BY <2>3, Zenon DEF result
<1>7. CASE ~(~jwks[i].uri /\ ~issuer[i].up) /\ found.key = 0
  <2>1. result = [verdict |-> "invalid", then |-> found.then]
    BY <1>7, Zenon DEF verify, found, v
  <2>2. \A k \in v.lru : ~(k.kid = t.kid /\ OneKeyPerId(v))
    <3>1. \A k \in v.lru : k.key # 0
      BY <1>1, TokenVerifierAssumption DEF Verifiers, Keys
    <3> QED BY <1>5, <1>7, <3>1, Zenon
  <2> QED BY <1>1, <1>3, <1>5, <1>7, <2>1, <2>2 DEF Verified
<1>8. CASE ~(~jwks[i].uri /\ ~issuer[i].up) /\ found.key # 0
  <2>1. result = [verdict |-> decode(i, t, found.key), then |-> found.then]
    BY <1>8, Zenon DEF verify, found, v
  <2>2. /\ decode(i, t, found.key) \in {"ok", "invalid", "expired"}
        /\ decode(i, t, found.key) = "ok" => t.iss = i
        /\ decode(i, t, found.key) = "invalid" => t.iss # i \/ t.key # found.key
        /\ decode(i, t, found.key) = "expired" => t \in expired
    BY Zenon DEF decode
  <2>3. result.verdict = decode(i, t, found.key) /\ result.then = found.then
    BY <2>1
  <2> HIDE DEF result
  <2>4. Verified(i, t, result)
    BY <1>1, <1>3, <1>5, <1>8, <2>2, <2>3, Zenon DEF Verified
  <2> QED BY <2>4, Zenon DEF result
<1> QED BY <1>6, <1>7, <1>8, Zenon

-----------------------------------------------------------------------------
(* One step of a request that verifies its token: dispatch before the charge *)
(* and the route's dependency after it.                                      *)
CheckedAs(r, i, next, result, status) ==
    /\ Verified(i, req[r].token, result)
    /\ jwks' = [jwks EXCEPT ![i] = result.then]
    /\ IF result.verdict = "ok" THEN at' = [at EXCEPT ![r] = next] /\ answer' = answer
       ELSE /\ at' = [at EXCEPT ![r] = "done"]
            /\ answer' = [answer EXCEPT ![r] = [status |-> status, rows |-> {}]]
            /\ result.verdict = "unavailable" => status = 503 \/ next = "charging"
    /\ UNCHANGED <<issuer, tokens, expired, req, audit, tx>>

Checked(r, i, next) ==
    \E result : \E status \in {401, 503} : CheckedAs(r, i, next, result, status)

(* RateLimitMiddleware.dispatch passes an exempt path on, and verifies the   *)
(* others with the tenant verifier.                                          *)
LEMMA DispatchDoes ==
    ASSUME AccessTypeOK, NEW r \in Requests, dispatch(r)
    PROVE  \/ /\ at' = [at EXCEPT ![r] = "handler"] /\ req[r].path = "break_glass"
              /\ UNCHANGED <<issuer, tokens, expired, jwks, req, answer, audit, tx>>
           \/ Checked(r, "tenant", "charging") /\ req[r].path = "audit"
<1>0. at[r] = "sent"
  BY Zenon DEF dispatch
<1>1. req[r].token \in tokens /\ VerifierTypeOK /\ req[r].path \in {"audit", "break_glass"}
  BY <1>0 DEF AccessTypeOK
<1>2. CASE req[r].path = "break_glass"
  BY <1>2, ZenonT(60) DEF dispatch, _is_exempt, Goto
<1>3. CASE req[r].path # "break_glass"
  <2>1. Verified("tenant", req[r].token, verify("tenant", req[r].token))
    BY <1>1, VerifyDoes, AccessAssumption, Zenon
  <2>2. LET result == verify("tenant", req[r].token) IN
        /\ jwks' = [jwks EXCEPT !["tenant"] = result.then]
        /\ IF result.verdict = "ok" THEN at' = [at EXCEPT ![r] = "charging"] /\ answer' = answer
           ELSE /\ at' = [at EXCEPT ![r] = "done"]
                /\ answer' = [answer EXCEPT ![r] = [status |-> 401, rows |-> {}]]
        /\ UNCHANGED <<issuer, tokens, expired, req, audit, tx>>
    BY <1>3, Zenon DEF dispatch, _is_exempt, Authenticate, Goto, Answer
  <2>3. CheckedAs(r, "tenant", "charging", verify("tenant", req[r].token), 401)
    BY <2>1, <2>2, ZenonT(60) DEF CheckedAs
  <2> QED BY <1>1, <1>3, <2>3 DEF Checked
<1> QED BY <1>2, <1>3, Zenon

(* authenticated_principal verifies with the verifier of the path.           *)
LEMMA PrincipalDoes ==
    ASSUME AccessTypeOK, NEW r \in Requests, authenticated_principal(r)
    PROVE  Checked(r, Verifier(req[r].path), "authorised")
<1>0. at[r] = "handler"
  BY Zenon DEF authenticated_principal
<1>1. req[r].token \in tokens /\ VerifierTypeOK
  BY <1>0 DEF AccessTypeOK
<1> DEFINE i == Verifier(req[r].path)
           result == verify(i, req[r].token)
<1>2. Verified(i, req[r].token, result)
  BY <1>1, VerifyDoes, AccessAssumption, Zenon DEF Verifier
<1>3. /\ jwks' = [jwks EXCEPT ![i] = result.then]
      /\ IF result.verdict = "ok" THEN at' = [at EXCEPT ![r] = "authorised"] /\ answer' = answer
         ELSE /\ at' = [at EXCEPT ![r] = "done"]
              /\ answer' = [answer EXCEPT ![r] =
                   [status |-> IF result.verdict = "unavailable" THEN 503 ELSE 401, rows |-> {}]]
      /\ UNCHANGED <<issuer, tokens, expired, req, audit, tx>>
  BY Zenon DEF authenticated_principal, Authenticate, Goto, Answer
<1> HIDE DEF result, i
<1>4. Checked(r, i, "authorised")
  <2>1. CASE result.verdict = "unavailable"
    <3>1. CheckedAs(r, i, "authorised", result, 503)
      BY <1>2, <1>3, <2>1, Zenon DEF CheckedAs
    <3> QED BY <3>1 DEF Checked
  <2>2. CASE result.verdict # "unavailable"
    <3>1. CheckedAs(r, i, "authorised", result, 401)
      BY <1>2, <1>3, <2>2, ZenonT(60) DEF CheckedAs
    <3> QED BY <3>1 DEF Checked
  <2> QED BY <2>1, <2>2, Zenon
<1> QED BY <1>4, Zenon DEF i

-----------------------------------------------------------------------------
(* The inductive invariant.                                                  *)

(* The row of a break-glass request, and whose request a row stands for.     *)
OwnRow(r) == Row(req[r].scope, req[r].corr, "break_glass", r)

OnBehalf(e) ==
    /\ e.by \in Requests /\ at[e.by] = "done"
    /\ req[e.by].path = "break_glass" /\ req[e.by].corr = e.corr
    /\ req[e.by].scope = e.tenant /\ req[e.by].token.iss = "operator"

(* What is known of a request at each place: who verified its token, and     *)
(* which row stands, or will stand at the commit, for its correlation id.    *)
RequestInv(r) ==
    /\ at[r] \in {"authorised", "inserted"} /\ req[r].path = "break_glass"
         => req[r].token.iss = "operator"
    /\ at[r] \in {"charging", "handler", "authorised"} /\ req[r].path = "audit"
         => req[r].token.iss = "tenant"
    /\ at[r] = "charging" => req[r].path = "audit"
    /\ at[r] = "inserted" =>
         /\ req[r].path = "break_glass"
         /\ tx[r] = {} => Taken(audit, req[r].corr)
    /\ tx[r] # {} => tx[r] = {OwnRow(r)} /\ ~Taken(audit, req[r].corr)
    /\ req[r].path = "break_glass" /\ answer[r].status \in {200, 404}
         => Taken(audit, req[r].corr)
    /\ req[r].path = "break_glass" /\ answer[r].status = 404
         => \E e \in audit : e.kind = "break_glass" /\ e.corr = req[r].corr /\ e.tenant # req[r].scope

AccessInv ==
    /\ AccessTypeOK
    /\ \A r \in Requests : RequestInv(r)
    /\ \A q, r \in Requests : tx[q] # {} /\ tx[r] # {} /\ req[q].corr = req[r].corr => q = r
    /\ \A e \in audit : e.kind = "break_glass" => OnBehalf(e)
    /\ \A i \in Issuers : OneKeyPerId(jwks[i])

(* The API starts with empty caches, and no break-glass row.                 *)
LEMMA InitInv == Init => AccessInv
<1> SUFFICES ASSUME Init PROVE AccessInv
  OBVIOUS
<1>1. VerifierTypeOK
  <2>1. \A i \in Issuers : /\ (CHOOSE k \in KeyIds[i] : TRUE) \in KeyIds[i]
                           /\ 1 \in 1..MaxKeys[i]
    BY TokenVerifierAssumption
  <2>2. \A i \in Issuers : FreshVerifier \in Verifiers(i)
    BY Zenon DEF FreshVerifier, Verifiers
  <2> QED BY <2>1, <2>2, Zenon DEF Init, VerifierInit, VerifierTypeOK, IssuerStates
<1>2. \A r \in Requests : /\ at[r] = "idle" /\ answer[r].status = 0 /\ tx[r] = {}
                          /\ req[r].path = "none"
  BY Zenon DEF Init, NoAnswer, NoReq
<1>3. \A e \in audit : e.kind = "finding" /\ \E p \in Traced : e = Row(p[1], p[2], "finding", "none")
  BY DEF Init, Row
<1>4. \A e, f \in audit : e.corr = f.corr => e = f
  <2>1. \A p \in Traced : Row(p[1], p[2], "finding", "none").corr = p[2]
    BY Zenon DEF Row
  <2> QED BY <1>3, <2>1, AccessAssumption
<1>5. AccessTypeOK
  BY <1>1, <1>2, <1>4, Zenon DEF Init, AccessTypeOK, Places
<1>6. \A i \in Issuers : OneKeyPerId(jwks[i])
  BY Zenon DEF Init, VerifierInit, FreshVerifier, OneKeyPerId
<1> QED BY <1>2, <1>3, <1>5, <1>6 DEF AccessInv, RequestInv

(* What the types say of one request.                                        *)
LEMMA TypeOf ==
    ASSUME AccessTypeOK, NEW r \in Requests
    PROVE  /\ at[r] # "idle" => req[r] \in [path : {"audit", "break_glass"}, token : tokens,
                                            corr : CorrIds, scope : Tenants]
           /\ answer[r].status \in {0, 200, 401, 404, 429, 500, 502, 503}
           /\ at[r] = "done" <=> answer[r].status # 0
           /\ tx[r] # {} => at[r] = "inserted"
BY DEF AccessTypeOK

(* A step of a request that does not verify its token leaves the verifiers   *)
(* and the issuers as they are.                                              *)
LEMMA VerifierKept ==
    ASSUME VerifierTypeOK, UNCHANGED <<issuer, tokens, expired, jwks>>
    PROVE  VerifierTypeOK'
BY Zenon DEF VerifierTypeOK

(* A step of an issuer, of the clock or of a verifier's cache leaves the     *)
(* requests as they are; the tokens handed out can only grow.                *)
LEMMA TypeKept ==
    ASSUME AccessTypeOK, VerifierTypeOK', tokens \subseteq tokens', UNCHANGED <<at, req, answer, audit, tx>>
    PROVE  AccessTypeOK'
<1>1. ASSUME NEW r \in Requests
      PROVE  /\ at'[r] # "idle" => req'[r] \in [path : {"audit", "break_glass"}, token : tokens',
                                               corr : CorrIds, scope : Tenants]
             /\ answer'[r].status \in {0, 200, 401, 404, 429, 500, 502, 503}
             /\ at'[r] = "done" <=> answer'[r].status # 0
             /\ tx'[r] # {} => at'[r] = "inserted"
  BY TypeOf
<1>2. /\ at \in [Requests -> Places]
      /\ DOMAIN req = Requests /\ DOMAIN answer = Requests /\ DOMAIN tx = Requests
      /\ \A e, f \in audit : e.corr = f.corr /\ e.kind = f.kind => e = f
  BY Zenon DEF AccessTypeOK
<1> QED BY <1>1, <1>2 DEF AccessTypeOK

LEMMA RequestKept ==
    ASSUME NEW r \in Requests, RequestInv(r), UNCHANGED <<at, req, answer, audit, tx>>
    PROVE  RequestInv(r)'
<1>1. OwnRow(r)' = OwnRow(r)
  BY Zenon DEF OwnRow
<1> QED BY <1>1 DEF RequestInv

(* Steps that leave audit and tx alone, as all but the break-glass handler   *)
(* and the failures do: the request that moves must be in order at its new   *)
(* place.                                                                    *)
LEMMA FrameInv ==
    ASSUME AccessInv, NEW r \in Requests, UNCHANGED <<audit, tx, req>>, AccessTypeOK',
           \A q \in Requests \ {r} : at'[q] = at[q] /\ answer'[q] = answer[q],
           RequestInv(r)', \A i \in Issuers : OneKeyPerId(jwks'[i]),
           at[r] # "done"
    PROVE  AccessInv'
<1>1. ASSUME NEW q \in Requests \ {r} PROVE RequestInv(q)'
  BY <1>1 DEF AccessInv, RequestInv, OwnRow
<1>2. \A e \in audit : OnBehalf(e) => OnBehalf(e)'
  BY Zenon DEF OnBehalf
<1> QED BY <1>1, <1>2, Zenon DEF AccessInv

(* A request that was sent already moves to another place: what its answer,  *)
(* its transaction and the log must be for the types to hold.                *)
Moved(r, place) ==
    /\ VerifierTypeOK' /\ UNCHANGED <<tokens, req>>
    /\ at[r] # "idle" /\ place # "idle" /\ at' = [at EXCEPT ![r] = place]
    /\ DOMAIN answer' = Requests /\ DOMAIN tx' = Requests
    /\ \A q \in Requests \ {r} : answer'[q] = answer[q] /\ tx'[q] = tx[q]
    /\ answer'[r].status \in {0, 200, 401, 404, 429, 500, 502, 503}
    /\ place = "done" <=> answer'[r].status # 0
    /\ tx'[r] # {} => place = "inserted"
    /\ \A e, f \in audit' : e.corr = f.corr /\ e.kind = f.kind => e = f

LEMMA MovedType ==
    ASSUME AccessTypeOK, NEW r \in Requests, NEW place \in Places, Moved(r, place)
    PROVE  AccessTypeOK'
<1>1. at' \in [Requests -> Places] /\ at'[r] = place /\ \A q \in Requests \ {r} : at'[q] = at[q]
  BY DEF AccessTypeOK, Moved
<1>2. ASSUME NEW q \in Requests
      PROVE  /\ at'[q] # "idle" => req'[q] \in [path : {"audit", "break_glass"}, token : tokens',
                                               corr : CorrIds, scope : Tenants]
             /\ answer'[q].status \in {0, 200, 401, 404, 429, 500, 502, 503}
             /\ at'[q] = "done" <=> answer'[q].status # 0
             /\ tx'[q] # {} => at'[q] = "inserted"
  BY <1>1, <1>2 DEF AccessTypeOK, Moved
<1> QED BY <1>1, <1>2 DEF AccessTypeOK, Moved

(* Verifying a token keeps the invariant: only the verifier's caches and the *)
(* request's place or answer change.                                         *)
LEMMA CheckedInv ==
    ASSUME AccessInv, NEW r \in Requests, NEW i \in Issuers,
           at[r] \in {"sent", "handler"}, i = Verifier(req[r].path),
           NEW next \in {"charging", "authorised"}, Checked(r, i, next),
           next = "charging" => req[r].path = "audit"
    PROVE  AccessInv'
<1>0. AccessTypeOK /\ VerifierTypeOK /\ at \in [Requests -> Places] /\ DOMAIN answer = Requests
      /\ req[r].path \in {"audit", "break_glass"} /\ DOMAIN tx = Requests
      /\ \A e, f \in audit : e.corr = f.corr /\ e.kind = f.kind => e = f
  BY DEF AccessInv, AccessTypeOK
<1>1. PICK result, status : status \in {401, 503} /\ CheckedAs(r, i, next, result, status)
  BY DEF Checked
<1>2. Verified(i, req[r].token, result) /\ jwks' = [jwks EXCEPT ![i] = result.then]
      /\ UNCHANGED <<issuer, tokens, expired, req, audit, tx>>
  BY <1>1, ZenonT(60) DEF CheckedAs
<1>3. VerifierTypeOK' /\ \A j \in Issuers : OneKeyPerId(jwks'[j])
  <2>1. \A j \in Issuers : /\ jwks'[j] \in Verifiers(j)
                           /\ OneKeyPerId(jwks'[j])
    BY <1>0, <1>2, Zenon DEF Verified, VerifierTypeOK, AccessInv
  <2> QED BY <1>0, <1>2, <2>1, Zenon DEF VerifierTypeOK
<1>4. tx[r] = {}
  BY <1>0 DEF AccessTypeOK
<1>5. CASE result.verdict = "ok"
  <2>1. at' = [at EXCEPT ![r] = next] /\ answer' = answer /\ at'[r] = next
    BY <1>0, <1>1, <1>5 DEF CheckedAs
  <2>2. req[r].token.iss = i
    BY <1>2, <1>5, Zenon DEF Verified
  <2>3. answer[r].status = 0
    BY <1>0 DEF AccessTypeOK
  <2>4. AccessTypeOK'
    <3>1. next \in Places
      BY Zenon DEF Places
    <3>2. Moved(r, next)
      BY <1>0, <1>2, <1>3, <1>4, <2>1, <2>3 DEF Moved
    <3> QED BY <1>0, <3>1, <3>2, MovedType, Zenon
  <2>5. RequestInv(r)'
    BY <1>0, <1>2, <1>4, <2>1, <2>2, <2>3 DEF RequestInv, Verifier
  <2> QED BY <1>0, <1>2, <1>3, <2>1, <2>4, <2>5, FrameInv, Zenon
<1>6. CASE result.verdict # "ok"
  <2>1. /\ at' = [at EXCEPT ![r] = "done"] /\ at'[r] = "done"
        /\ answer' = [answer EXCEPT ![r] = [status |-> status, rows |-> {}]]
        /\ answer'[r].status = status
    BY <1>0, <1>1, <1>6 DEF CheckedAs
  <2>2. AccessTypeOK'
    <3>1. "done" \in Places
      BY Zenon DEF Places
    <3>2. Moved(r, "done")
      BY <1>0, <1>1, <1>2, <1>3, <1>4, <2>1 DEF Moved
    <3> QED BY <1>0, <3>1, <3>2, MovedType, Zenon
  <2>3. RequestInv(r)'
    BY <1>0, <1>1, <1>2, <1>4, <2>1 DEF RequestInv
  <2> QED BY <1>0, <1>2, <1>3, <2>1, <2>2, <2>3, FrameInv, Zenon
<1> QED BY <1>5, <1>6, Zenon

(* A client sends a request.                                                 *)
LEMMA SendInv ==
    ASSUME AccessInv, NEW r \in Requests, Send(r)
    PROVE  AccessInv'
<1>0. AccessTypeOK /\ at[r] = "idle" /\ answer[r].status = 0 /\ tx[r] = {}
  BY DEF AccessInv, AccessTypeOK, Send
<1>1. UNCHANGED <<issuer, tokens, expired, jwks, answer, audit, tx>>
  BY Zenon DEF Send
<1>2. /\ at'[r] = "sent" /\ at' \in [Requests -> Places]
      /\ \A q \in Requests \ {r} : at'[q] = at[q] /\ req'[q] = req[q]
      /\ DOMAIN req' = Requests
  BY <1>0 DEF AccessTypeOK, Send, Goto, Places
<1>3. req'[r] \in [path : {"audit", "break_glass"}, token : tokens, corr : CorrIds, scope : Tenants]
  BY <1>0 DEF AccessTypeOK, Send
<1>4. AccessTypeOK'
  <2>1. VerifierTypeOK'
    BY <1>0, <1>1, VerifierKept, Zenon DEF AccessTypeOK
  <2> QED BY <1>0, <1>1, <1>2, <1>3, <2>1 DEF AccessTypeOK
<1>5. RequestInv(r)'
  BY <1>0, <1>1, <1>2, SMTT(60) DEF RequestInv
<1>6. ASSUME NEW q \in Requests \ {r} PROVE RequestInv(q)'
  BY <1>1, <1>2, <1>6 DEF AccessInv, RequestInv, OwnRow
<1>7. \A e \in audit : OnBehalf(e) => OnBehalf(e)'
  BY <1>0, <1>2, Zenon DEF OnBehalf
<1>8. \A p, q \in Requests : tx'[p] # {} /\ tx'[q] # {} /\ req'[p].corr = req'[q].corr => p = q
  <2>1. \A p \in Requests : tx'[p] # {} => p # r /\ req'[p] = req[p] /\ tx[p] # {}
    BY <1>0, <1>1, <1>2, Zenon
  <2> QED BY <2>1, Zenon DEF AccessInv
<1>9. \A e \in audit' : e.kind = "break_glass" => OnBehalf(e)'
  BY <1>1, <1>7, Zenon DEF AccessInv
<1>10. \A i \in Issuers : OneKeyPerId(jwks'[i])
  BY <1>1, Zenon DEF AccessInv
<1> QED BY <1>4, <1>5, <1>6, <1>8, <1>9, <1>10, ZenonT(60) DEF AccessInv

(* The second half of dispatch.                                              *)
LEMMA ChargeInv ==
    ASSUME AccessInv, NEW r \in Requests, charge(r)
    PROVE  AccessInv'
<1>0. /\ AccessTypeOK /\ at[r] = "charging" /\ req[r].path = "audit" /\ req[r].token.iss = "tenant"
      /\ answer[r].status = 0 /\ tx[r] = {} /\ DOMAIN answer = Requests
      /\ at \in [Requests -> Places]
  BY SMTT(60) DEF AccessInv, AccessTypeOK, RequestInv, charge
<1>1. UNCHANGED <<issuer, tokens, expired, jwks, req, audit, tx>>
  BY Zenon DEF charge
<1>2. VerifierTypeOK'
  BY <1>0, <1>1 DEF AccessTypeOK, VerifierTypeOK, IssuerStates, Verifiers
<1>3. PICK place \in {"handler", "done"}, status \in {0, 429, 503} :
        /\ at' = [at EXCEPT ![r] = place]
        /\ place = "done" <=> status # 0
        /\ DOMAIN answer' = Requests /\ answer'[r].status = status
        /\ \A q \in Requests \ {r} : answer'[q] = answer[q]
  <2>1. CASE Goto(r, "handler") /\ UNCHANGED answer
    BY <1>0, <2>1 DEF Goto
  <2>2. CASE Answer(r, 429, {})
    BY <1>0, <2>2 DEF Answer, Goto
  <2>3. CASE Answer(r, 503, {})
    BY <1>0, <2>3 DEF Answer, Goto
  <2> QED BY <2>1, <2>2, <2>3, ZenonT(60) DEF charge
<1>4. AccessTypeOK'
  <2>1. place \in Places
    BY Zenon DEF Places
  <2>2. Moved(r, place)
    BY <1>0, <1>1, <1>2, <1>3 DEF AccessTypeOK, Moved
  <2> QED BY <1>0, <2>1, <2>2, MovedType
<1>5. at'[r] = place /\ \A q \in Requests \ {r} : at'[q] = at[q]
  BY <1>0, <1>3
<1>6. RequestInv(r)'
  BY <1>0, <1>1, <1>3, <1>5, ZenonT(60) DEF RequestInv
<1>7. \A i \in Issuers : OneKeyPerId(jwks'[i])
  BY <1>1 DEF AccessInv
<1> QED BY <1>0, <1>1, <1>3, <1>4, <1>5, <1>6, <1>7, FrameInv

(* The tenant's read of its own rows.                                        *)
LEMMA AuditReadInv ==
    ASSUME AccessInv, NEW r \in Requests, audit_for_correlation(r)
    PROVE  AccessInv'
<1>0. /\ AccessTypeOK /\ at[r] = "authorised" /\ req[r].path = "audit"
      /\ tx[r] = {} /\ DOMAIN answer = Requests /\ at \in [Requests -> Places]
  BY SMTT(60) DEF AccessInv, AccessTypeOK, audit_for_correlation
<1>1. UNCHANGED <<issuer, tokens, expired, jwks, req, audit, tx>>
  BY Zenon DEF audit_for_correlation
<1>2. VerifierTypeOK'
  BY <1>0, <1>1, VerifierKept, Zenon DEF AccessTypeOK
<1>3. /\ at' = [at EXCEPT ![r] = "done"] /\ DOMAIN answer' = Requests
      /\ answer'[r].status \in {200, 404}
      /\ \A q \in Requests \ {r} : answer'[q] = answer[q]
  BY <1>0 DEF audit_for_correlation, Respond, Answer, Goto
<1>4. AccessTypeOK'
  <2>1. "done" \in Places
    BY Zenon DEF Places
  <2>2. Moved(r, "done")
    BY <1>0, <1>1, <1>2, <1>3 DEF AccessTypeOK, Moved
  <2> QED BY <1>0, <2>1, <2>2, MovedType, Zenon
<1>5. at'[r] = "done" /\ \A q \in Requests \ {r} : at'[q] = at[q]
  BY <1>0, <1>3
<1>6. RequestInv(r)'
  BY <1>0, <1>1, <1>3, <1>5, ZenonT(60) DEF RequestInv
<1>7. \A i \in Issuers : OneKeyPerId(jwks'[i])
  BY <1>1, Zenon DEF AccessInv
<1> QED BY <1>0, <1>1, <1>3, <1>4, <1>5, <1>6, <1>7, FrameInv

-----------------------------------------------------------------------------
(* The INSERT: at most one open transaction holds a row per correlation id.  *)
LEMMA InsertInv ==
    ASSUME AccessInv, NEW r \in Requests, insert_break_glass(r)
    PROVE  AccessInv'
<1>0. /\ AccessTypeOK /\ at[r] = "authorised" /\ req[r].path = "break_glass"
      /\ req[r].token.iss = "operator" /\ answer[r].status = 0
      /\ DOMAIN tx = Requests /\ at \in [Requests -> Places]
  BY SMTT(60) DEF AccessInv, AccessTypeOK, RequestInv, insert_break_glass
<1>1. UNCHANGED <<issuer, tokens, expired, jwks, req, answer, audit>>
  BY Zenon DEF insert_break_glass
<1>2. /\ at' = [at EXCEPT ![r] = "inserted"] /\ at'[r] = "inserted"
      /\ \A q \in Requests \ {r} : at'[q] = at[q] /\ tx'[q] = tx[q]
      /\ DOMAIN tx' = Requests
      /\ Taken(audit, req[r].corr) => tx'[r] = {}
      /\ ~Taken(audit, req[r].corr) => tx'[r] = {OwnRow(r)}
  BY <1>0, Zenon DEF insert_break_glass, Goto, OwnRow
<1>3. AccessTypeOK'
  <2>1. "inserted" \in Places
    BY Zenon DEF Places
  <2>2. VerifierTypeOK'
    BY <1>0, <1>1, VerifierKept, Zenon DEF AccessTypeOK
  <2>3. Moved(r, "inserted")
    BY <1>0, <1>1, <1>2, <2>2 DEF AccessTypeOK, Moved
  <2> QED BY <1>0, <2>1, <2>3, MovedType, Zenon
<1>4. OwnRow(r)' = OwnRow(r)
  BY <1>1, ZenonT(60) DEF OwnRow
<1>5. RequestInv(r)'
  BY <1>0, <1>1, <1>2, <1>4, SMTT(60) DEF RequestInv, Taken
<1>6. ASSUME NEW q \in Requests \ {r} PROVE RequestInv(q)'
  BY <1>1, <1>2, <1>6, SMTT(60) DEF AccessInv, RequestInv, OwnRow, Taken
<1>7. \A q \in Requests \ {r} : tx'[q] # {} => req[q].corr # req[r].corr
  <2>1. \A q \in Requests \ {r} : tx[q] # {} => Taken(tx[q], req[q].corr)
    BY DEF AccessInv, RequestInv, OwnRow, Row, Taken
  <2> QED BY <1>2, <2>1, ZenonT(60) DEF insert_break_glass
<1>8. \A p, q \in Requests : tx'[p] # {} /\ tx'[q] # {} /\ req'[p].corr = req'[q].corr => p = q
  BY <1>1, <1>2, <1>7, ZenonT(60) DEF AccessInv
<1>9. \A e \in audit : OnBehalf(e) => OnBehalf(e)'
  BY <1>0, <1>1, <1>2, Zenon DEF OnBehalf
<1> QED BY <1>1, <1>3, <1>5, <1>6, <1>8, <1>9, Zenon DEF AccessInv

(* The row a transaction holds before its commit.                            *)
LEMMA HeldRow ==
    ASSUME AccessInv, NEW r \in Requests, tx[r] # {}
    PROVE  /\ tx[r] = {OwnRow(r)} /\ ~Taken(audit, req[r].corr) /\ at[r] = "inserted"
           /\ req[r].path = "break_glass" /\ req[r].token.iss = "operator"
<1>1. RequestInv(r) /\ AccessTypeOK
  BY Zenon DEF AccessInv
<1>2. at[r] = "inserted"
  BY <1>1, TypeOf
<1> QED BY <1>1, <1>2, Zenon DEF RequestInv

(* Leaving the transaction: its row, if it has one, is in the log, or it is  *)
(* gone; the other requests are as before.                                   *)
Left(r) ==
    /\ UNCHANGED <<issuer, tokens, expired, jwks, req>>
    /\ at[r] \in {"authorised", "inserted"} /\ at' = [at EXCEPT ![r] = "done"]
    /\ DOMAIN answer' = Requests /\ \A q \in Requests \ {r} : answer'[q] = answer[q]
    /\ answer'[r].status \in {200, 404, 500}
    /\ tx' = [tx EXCEPT ![r] = {}] /\ audit' \in {audit, audit \cup tx[r]}

LEMMA LeaveInv ==
    ASSUME AccessInv, NEW r \in Requests, Left(r), RequestInv(r)'
    PROVE  AccessInv'
<1>0. AccessTypeOK /\ DOMAIN tx = Requests /\ at \in [Requests -> Places]
      /\ UNCHANGED <<issuer, tokens, expired, jwks, req>>
      /\ \A q \in Requests \ {r} : answer'[q] = answer[q]
  BY ZenonT(60) DEF AccessInv, AccessTypeOK, Left
<1>1. /\ at' = [at EXCEPT ![r] = "done"] /\ at'[r] = "done" /\ tx'[r] = {} /\ DOMAIN tx' = Requests
      /\ \A q \in Requests \ {r} : at'[q] = at[q] /\ tx'[q] = tx[q]
  BY <1>0 DEF Left
<1>2. tx[r] # {} => tx[r] = {OwnRow(r)} /\ ~Taken(audit, req[r].corr) /\ at[r] = "inserted"
                    /\ req[r].path = "break_glass" /\ req[r].token.iss = "operator"
  BY HeldRow, Zenon
<1>3. /\ OwnRow(r).corr = req[r].corr /\ OwnRow(r).kind = "break_glass"
      /\ OwnRow(r).tenant = req[r].scope /\ OwnRow(r).by = r
  BY Zenon DEF OwnRow, Row
<1>4. audit \subseteq audit' /\ \A e \in audit' : e \in audit \/ (tx[r] # {} /\ e = OwnRow(r))
  BY <1>2, ZenonT(60) DEF Left
<1>5. \A e, f \in audit' : e.corr = f.corr /\ e.kind = f.kind => e = f
  <2>1. \A e, f \in audit : e.corr = f.corr /\ e.kind = f.kind => e = f
    BY <1>0, Zenon DEF AccessTypeOK
  <2> QED BY <1>2, <1>3, <1>4, <2>1 DEF Taken
<1>6. AccessTypeOK'
  <2>1. "done" \in Places
    BY Zenon DEF Places
  <2>2. VerifierTypeOK'
    BY <1>0, VerifierKept, Zenon DEF AccessTypeOK
  <2>3. Moved(r, "done")
    <3>1. /\ at[r] # "idle" /\ DOMAIN answer' = Requests /\ answer'[r].status # 0
          /\ answer'[r].status \in {0, 200, 401, 404, 429, 500, 502, 503}
      BY DEF Left
    <3> QED BY <1>0, <1>1, <1>5, <2>2, <3>1 DEF Moved
  <2> QED BY <1>0, <2>1, <2>3, MovedType, Zenon
<1>7. ASSUME NEW q \in Requests \ {r} PROVE RequestInv(q)'
  <2>1. RequestInv(q) /\ OwnRow(q)' = OwnRow(q)
    BY <1>0, ZenonT(60) DEF AccessInv, OwnRow
  <2>2. tx[q] # {} /\ tx[r] # {} => req[q].corr # req[r].corr
    BY <1>7, Zenon DEF AccessInv
  <2>3. Taken(audit, req[q].corr) => Taken(audit', req[q].corr)
    BY <1>4, ZenonT(60) DEF Taken
  <2>4. tx[q] # {} => ~Taken(audit', req[q].corr)
    BY <1>3, <1>4, <2>1, <2>2 DEF RequestInv, Taken
  <2>5. (\E e \in audit : e.kind = "break_glass" /\ e.corr = req[q].corr /\ e.tenant # req[q].scope)
        => \E e \in audit' : e.kind = "break_glass" /\ e.corr = req[q].corr /\ e.tenant # req[q].scope
    BY <1>4, Zenon
  <2>6. Taken(audit, req[q].corr)' = Taken(audit', req[q].corr)
    BY <1>0, Zenon DEF Taken
  <2> QED BY <1>0, <1>1, <1>7, <2>1, <2>3, <2>4, <2>5, <2>6, SMTT(60) DEF RequestInv
<1>8. \A e \in audit' : e.kind = "break_glass" => OnBehalf(e)'
  <2> SUFFICES ASSUME NEW e \in audit', e.kind = "break_glass" PROVE OnBehalf(e)'
    BY ZenonT(60)
  <2>1. CASE e \in audit
    BY <1>0, <1>1, <2>1 DEF AccessInv, OnBehalf
  <2>2. CASE tx[r] # {} /\ e = OwnRow(r)
    BY <1>0, <1>1, <1>2, <1>3, <2>2 DEF OnBehalf
  <2> QED BY <1>4, <2>1, <2>2, Zenon
<1>9. \A p, q \in Requests : tx'[p] # {} /\ tx'[q] # {} /\ req'[p].corr = req'[q].corr => p = q
  BY <1>0, <1>1 DEF AccessInv
<1>10. \A i \in Issuers : OneKeyPerId(jwks'[i])
  BY <1>0, Zenon DEF AccessInv
<1> QED BY <1>6, <1>7, <1>8, <1>9, <1>10, ZenonT(60) DEF AccessInv

(* The SELECT sees the row the request inserted, or the one it met.          *)
LEMMA SelectInv ==
    ASSUME AccessInv, NEW r \in Requests, select_break_glass(r)
    PROVE  AccessInv'
<1> DEFINE rows == Select(audit', req[r].scope, req[r].corr)
<1>0. /\ at[r] = "inserted" /\ req[r].path = "break_glass"
      /\ tx[r] = {} => Taken(audit, req[r].corr)
      /\ tx[r] # {} => tx[r] = {OwnRow(r)}
      /\ DOMAIN answer = Requests /\ DOMAIN tx = Requests /\ at \in [Requests -> Places]
  BY DEF AccessInv, AccessTypeOK, RequestInv, select_break_glass
<1>1. /\ UNCHANGED <<issuer, tokens, expired, jwks, req>>
      /\ audit' = audit \cup tx[r] /\ tx' = [tx EXCEPT ![r] = {}]
  BY Zenon DEF select_break_glass
<1>2. /\ at' = [at EXCEPT ![r] = "done"] /\ DOMAIN answer' = Requests
      /\ \A q \in Requests \ {r} : answer'[q] = answer[q]
      /\ answer'[r].status = IF rows = {} THEN 404 ELSE 200
  BY <1>0, ZenonT(60) DEF select_break_glass, Respond, Answer, Goto
<1>3. PICK e \in audit' : e.corr = req[r].corr /\ e.kind = "break_glass"
  BY <1>0, <1>1 DEF Taken, OwnRow, Row
<1>4. Taken(audit, req[r].corr)'
  BY <1>1, <1>3, Zenon DEF Taken
<1>5. rows = {} => e.tenant # req[r].scope
  BY <1>3, Zenon DEF Select
<1>6. RequestInv(r)'
  <2>1. at'[r] = "done" /\ tx'[r] = {} /\ answer'[r].status \in {200, 404}
    BY <1>0, <1>1, <1>2, ZenonT(60)
  <2>2. answer'[r].status = 404 => e.tenant # req[r].scope
    BY <1>2, <1>5
  <2> HIDE DEF rows
  <2> QED BY <1>1, <1>3, <1>4, <2>1, <2>2, Zenon DEF RequestInv
<1>7. answer'[r].status \in {200, 404, 500}
  BY <1>2
<1>8. Left(r)
  BY <1>0, <1>1, <1>2, <1>7, ZenonT(60) DEF Left
<1> QED BY <1>6, <1>8, LeaveInv, ZenonT(60)

(* The transaction is rolled back, or it was the answer to its COMMIT that   *)
(* was lost, and the request gets a 500.                                     *)
LEMMA DatabaseErrorInv ==
    ASSUME AccessInv, NEW r \in Requests, DatabaseError(r)
    PROVE  AccessInv'
<1>0. /\ at[r] \in {"authorised", "inserted"}
      /\ DOMAIN answer = Requests /\ DOMAIN tx = Requests /\ at \in [Requests -> Places]
  BY Zenon DEF AccessInv, AccessTypeOK, DatabaseError
<1>1. /\ UNCHANGED <<issuer, tokens, expired, jwks, req>>
      /\ audit' \in {audit, audit \cup tx[r]} /\ tx' = [tx EXCEPT ![r] = {}]
  BY Zenon DEF DatabaseError
<1>2. /\ at' = [at EXCEPT ![r] = "done"] /\ DOMAIN answer' = Requests
      /\ \A q \in Requests \ {r} : answer'[q] = answer[q]
      /\ answer'[r].status = 500
  BY <1>0, ZenonT(60) DEF DatabaseError, Answer, Goto
<1>3. RequestInv(r)'
  <2>1. at'[r] = "done" /\ tx'[r] = {}
    BY <1>0, <1>1, <1>2
  <2> QED BY <1>2, <2>1 DEF RequestInv
<1>4. answer'[r].status \in {200, 404, 500} /\ audit' \in {audit, audit \cup tx[r]}
  BY <1>1, <1>2, ZenonT(60)
<1>5. Left(r)
  BY <1>0, <1>1, <1>2, <1>4, ZenonT(60) DEF Left
<1> QED BY <1>3, <1>5, LeaveInv, Zenon

(* The API process restarts.                                                 *)
LEMMA RestartInv ==
    ASSUME AccessInv, RestartApi
    PROVE  AccessInv'
<1>0. AccessTypeOK /\ VerifierTypeOK
  BY Zenon DEF AccessInv, AccessTypeOK
<1>1. UNCHANGED <<issuer, tokens, expired, req, audit>> /\ jwks' = [i \in Issuers |-> FreshVerifier]
  BY Zenon DEF RestartApi
<1>2. /\ DOMAIN at' = Requests /\ DOMAIN answer' = Requests /\ DOMAIN tx' = Requests
      /\ \A r \in Requests :
          /\ tx'[r] = {}
          /\ \/ at[r] \in {"idle", "done"} /\ at'[r] = at[r] /\ answer'[r] = answer[r]
             \/ at[r] \notin {"idle", "done"} /\ at'[r] = "done" /\ answer'[r].status = 502
  BY DEF RestartApi, NoAnswer
<1>3. VerifierTypeOK' /\ \A i \in Issuers : OneKeyPerId(jwks'[i])
  <2>1. \A i \in Issuers : FreshVerifier \in Verifiers(i) /\ OneKeyPerId(FreshVerifier)
    BY Zenon DEF FreshVerifier, Verifiers, OneKeyPerId
  <2>2. \A i \in Issuers : jwks'[i] = FreshVerifier /\ issuer'[i] = issuer[i]
    BY <1>1, Zenon
  <2> QED BY <1>0, <1>1, <2>1, <2>2, Zenon DEF VerifierTypeOK
<1>4. \A r \in Requests : at'[r] # "idle" => at[r] # "idle"
  BY <1>2
<1>5. at' \in [Requests -> Places]
  <2>1. \A r \in Requests : at'[r] \in Places
    BY <1>0, <1>2 DEF AccessTypeOK, Places
  <2>2. at' = [r \in Requests |-> at'[r]]
    BY Zenon DEF RestartApi
  <2> QED BY <2>1, <2>2, Zenon
<1>6. AccessTypeOK'
  <2>1. ASSUME NEW r \in Requests
        PROVE  /\ at'[r] # "idle" => req'[r] \in [path : {"audit", "break_glass"}, token : tokens',
                                                 corr : CorrIds, scope : Tenants]
               /\ answer'[r].status \in {0, 200, 401, 404, 429, 500, 502, 503}
               /\ at'[r] = "done" <=> answer'[r].status # 0
               /\ tx'[r] # {} => at'[r] = "inserted"
    BY <1>0, <1>1, <1>2, <1>4, TypeOf
  <2>2. /\ DOMAIN req' = Requests
        /\ \A e, f \in audit' : e.corr = f.corr /\ e.kind = f.kind => e = f
    BY <1>0, <1>1 DEF AccessTypeOK
  <2> QED BY <1>2, <1>3, <1>5, <2>1, <2>2 DEF AccessTypeOK
<1>7. ASSUME NEW r \in Requests PROVE RequestInv(r)'
  <2>1. RequestInv(r)
    BY ZenonT(60) DEF AccessInv
  <2> QED BY <1>1, <1>2, <2>1 DEF RequestInv
<1>8. ASSUME NEW e \in audit, e.kind = "break_glass" PROVE OnBehalf(e)'
  BY <1>1, <1>2, <1>8 DEF AccessInv, OnBehalf
<1> QED BY <1>1, <1>2, <1>3, <1>6, <1>7, <1>8 DEF AccessInv

(* An issuer that is down can still generate a key within the bound.         *)
RoomForKey == \A i \in Issuers : issuer[i].up \/ issuer[i].key < MaxKeys[i]

(* The issuers, the clock and the lifespan of a key set.                     *)
LEMMA EnvironmentInv ==
    ASSUME AccessInv, RoomForKey, Environment
    PROVE  AccessInv'
<1>0. AccessTypeOK /\ VerifierTypeOK
  BY Zenon DEF AccessInv, AccessTypeOK
<1>1. UNCHANGED <<at, req, answer, audit, tx>>
  BY Zenon DEF Environment, accessVars
<1>2. VerifierTypeOK' /\ tokens \subseteq tokens' /\ \A i \in Issuers : jwks'[i].lru = jwks[i].lru
  <2>1. CASE \E i \in Issuers : StopIssuer(i)
    <3>1. PICK i \in Issuers : StopIssuer(i)
      BY <2>1, Zenon
    <3>2. issuer' = [issuer EXCEPT ![i].up = FALSE] /\ UNCHANGED <<tokens, expired, jwks>>
      BY <3>1, Zenon DEF StopIssuer
    <3>3. \A j \in Issuers : issuer'[j] \in IssuerStates(j)
      BY <1>0, <3>2, Zenon DEF VerifierTypeOK, IssuerStates
    <3> QED BY <1>0, <3>2, <3>3, Zenon DEF VerifierTypeOK
  <2>2. CASE \E i \in Issuers : StartIssuer(i)
    <3>1. PICK i \in Issuers : StartIssuer(i)
      BY <2>2, Zenon
    <3>2. PICK k \in KeyIds[i] :
            issuer' = [issuer EXCEPT ![i] = [up |-> TRUE, kid |-> k, key |-> @.key + 1]]
      BY <3>1, Zenon DEF StartIssuer
    <3>3. UNCHANGED <<tokens, expired, jwks>> /\ ~issuer[i].up
      BY <3>1, Zenon DEF StartIssuer
    <3>4. issuer[i].key + 1 \in 1..MaxKeys[i]
      BY <1>0, <3>3, TokenVerifierAssumption DEF RoomForKey, VerifierTypeOK, IssuerStates
    <3>5. \A j \in Issuers : issuer'[j] \in IssuerStates(j)
      <4>1. issuer'[i] = [up |-> TRUE, kid |-> k, key |-> issuer[i].key + 1]
        BY <1>0, <3>2, Zenon DEF VerifierTypeOK
      <4>2. \A j \in Issuers \ {i} : issuer'[j] = issuer[j]
        BY <1>0, <3>2, Zenon DEF VerifierTypeOK
      <4>3. issuer'[i] \in IssuerStates(i)
        BY <3>4, <4>1 DEF IssuerStates
      <4> QED BY <1>0, <4>2, <4>3, Zenon DEF VerifierTypeOK
    <3> QED BY <1>0, <3>2, <3>3, <3>5, Zenon DEF VerifierTypeOK
  <2>3. CASE \E i \in Issuers : token(i)
    <3>1. PICK i \in Issuers : token(i)
      BY <2>3, Zenon
    <3>2. /\ tokens' = tokens \cup {[iss |-> i, kid |-> issuer[i].kid, key |-> issuer[i].key]}
          /\ UNCHANGED <<issuer, expired, jwks>>
      BY <3>1, Zenon DEF token
    <3>3. [iss |-> i, kid |-> issuer[i].kid, key |-> issuer[i].key] \in Tokens
      BY <1>0 DEF VerifierTypeOK, IssuerStates, Tokens
    <3> QED BY <1>0, <3>2, <3>3, Zenon DEF VerifierTypeOK
  <2>4. CASE \E i \in Issuers : LapseSet(i)
    <3>1. PICK i \in Issuers : LapseSet(i)
      BY <2>4, Zenon
    <3>2. jwks' = [jwks EXCEPT ![i].set = NoSet] /\ UNCHANGED <<issuer, tokens, expired>>
      BY <3>1, Zenon DEF LapseSet
    <3>3. \A j \in Issuers : jwks'[j] \in Verifiers(j) /\ jwks'[j].lru = jwks[j].lru
      BY <1>0, <3>2, Zenon DEF VerifierTypeOK, Verifiers
    <3> QED BY <1>0, <3>2, <3>3, Zenon DEF VerifierTypeOK
  <2>5. CASE \E t \in tokens : Expire(t)
    BY <1>0, <2>5, Zenon DEF Expire, VerifierTypeOK
  <2> QED BY <2>1, <2>2, <2>3, <2>4, <2>5, Zenon DEF Environment
<1>3. \A i \in Issuers : OneKeyPerId(jwks'[i])
  BY <1>2, Zenon DEF AccessInv, OneKeyPerId
<1>4. AccessTypeOK'
  BY <1>0, <1>1, <1>2, TypeKept, Zenon
<1>5. ASSUME NEW r \in Requests PROVE RequestInv(r)'
  <2>1. RequestInv(r)
    BY Zenon DEF AccessInv
  <2> QED BY <1>1, <2>1, RequestKept, Zenon
<1>6. ASSUME NEW e \in audit, e.kind = "break_glass" PROVE OnBehalf(e)'
  BY <1>1, <1>6, Zenon DEF AccessInv, OnBehalf
<1> QED BY <1>1, <1>3, <1>4, <1>5, <1>6, Zenon DEF AccessInv

(* A stopped issuer has not used its last key, for StopIssuer is guarded.    *)
LEMMA RoomInv ==
    ASSUME AccessTypeOK, RoomForKey, [Next]_vars
    PROVE  RoomForKey'
<1>0. DOMAIN issuer = Issuers
  BY Zenon DEF AccessTypeOK, VerifierTypeOK
<1>1. CASE \E i \in Issuers : StopIssuer(i)
  BY <1>0, <1>1 DEF RoomForKey, StopIssuer
<1>2. CASE \E i \in Issuers : StartIssuer(i)
  BY <1>0, <1>2 DEF RoomForKey, StartIssuer
<1>3. CASE UNCHANGED issuer
  BY <1>3, Zenon DEF RoomForKey
<1>4. CASE \E r \in Requests : Send(r) \/ Serve(r)
  <2>1. UNCHANGED issuer
    BY <1>4, ZenonT(60) DEF Send, Serve, dispatch, charge, authenticated_principal, Authenticate,
                audit_for_correlation, insert_break_glass, select_break_glass, DatabaseError
  <2> QED BY <1>3, <2>1, Zenon
<1>5. CASE Environment
  BY <1>1, <1>2, <1>3, <1>5, Zenon DEF Environment, token, LapseSet, Expire
<1> QED BY <1>3, <1>4, <1>5, Zenon DEF Next, RestartApi, vars

(* The invariant is inductive: one case per action.                          *)
LEMMA StepInv ==
    ASSUME AccessInv, RoomForKey, [Next]_vars
    PROVE  AccessInv'
<1>0. AccessTypeOK
  BY Zenon DEF AccessInv
<1>1. ASSUME NEW r \in Requests, Send(r) PROVE AccessInv'
  BY <1>1, SendInv, Zenon
<1>2. ASSUME NEW r \in Requests, dispatch(r) PROVE AccessInv'
  <2>0. at[r] = "sent" /\ answer[r].status = 0 /\ tx[r] = {} /\ at \in [Requests -> Places]
    <3>1. at[r] = "sent"
      BY <1>2, ZenonT(40) DEF dispatch
    <3> QED BY <1>0, <3>1 DEF AccessTypeOK
  <2>1. CASE /\ at' = [at EXCEPT ![r] = "handler"] /\ req[r].path = "break_glass"
             /\ UNCHANGED <<issuer, tokens, expired, jwks, req, answer, audit, tx>>
    <3>1. at'[r] = "handler" /\ \A q \in Requests \ {r} : at'[q] = at[q]
      BY <2>0, <2>1, ZenonT(60)
    <3>2. VerifierTypeOK'
      BY <1>0, <2>1, VerifierKept, Zenon DEF AccessTypeOK
    <3>3. "handler" \in Places /\ Moved(r, "handler")
      BY <1>0, <2>0, <2>1, <3>2 DEF AccessTypeOK, Moved, Places
    <3>4. AccessTypeOK'
      BY <1>0, <3>3, MovedType, ZenonT(60)
    <3>5. RequestInv(r)'
      BY <2>0, <2>1, <3>1 DEF RequestInv
    <3> QED BY <2>0, <2>1, <3>1, <3>4, <3>5, FrameInv, Zenon DEF AccessInv
  <2>2. CASE Checked(r, "tenant", "charging") /\ req[r].path = "audit"
    <3>1. "tenant" \in Issuers /\ "tenant" = Verifier(req[r].path)
      BY <2>2, AccessAssumption, Zenon DEF Verifier
    <3> QED BY <2>0, <2>2, <3>1, CheckedInv, Zenon
  <2> QED BY <1>0, <1>2, <2>1, <2>2, DispatchDoes, Zenon
<1>3. ASSUME NEW r \in Requests, charge(r) PROVE AccessInv'
  BY <1>3, ChargeInv, Zenon
<1>4. ASSUME NEW r \in Requests, authenticated_principal(r) PROVE AccessInv'
  <2>1. at[r] = "handler" /\ Verifier(req[r].path) \in Issuers
    BY <1>4, AccessAssumption, Zenon DEF authenticated_principal, Verifier
  <2>2. Checked(r, Verifier(req[r].path), "authorised")
    BY <1>0, <1>4, PrincipalDoes, Zenon
  <2> QED BY <2>1, <2>2, CheckedInv, Zenon
<1>5. ASSUME NEW r \in Requests, audit_for_correlation(r) PROVE AccessInv'
  BY <1>5, AuditReadInv, Zenon
<1>6. ASSUME NEW r \in Requests, insert_break_glass(r) PROVE AccessInv'
  BY <1>6, InsertInv, Zenon
<1>7. ASSUME NEW r \in Requests, select_break_glass(r) PROVE AccessInv'
  BY <1>7, SelectInv, Zenon
<1>8. ASSUME NEW r \in Requests, DatabaseError(r) PROVE AccessInv'
  BY <1>8, DatabaseErrorInv, Zenon
<1>9. CASE UNCHANGED vars
  <2>1. UNCHANGED <<issuer, tokens, expired, jwks, at, req, answer, audit, tx>>
    BY <1>9, ZenonT(60) DEF vars
  <2>2. AccessTypeOK'
    <3>1. VerifierTypeOK'
      BY <1>0, <2>1, VerifierKept, Zenon DEF AccessTypeOK
    <3>2. tokens \subseteq tokens'
      BY <2>1, Zenon
    <3> QED BY <1>0, <2>1, <3>1, <3>2, TypeKept, Zenon
  <2>3. ASSUME NEW r \in Requests PROVE RequestInv(r)'
    <3>1. RequestInv(r)
      BY Zenon DEF AccessInv
    <3> QED BY <2>1, <3>1, RequestKept, Zenon
  <2>4. \A e \in audit : OnBehalf(e) => OnBehalf(e)'
    BY <2>1, Zenon DEF OnBehalf
  <2>5. \A i \in Issuers : OneKeyPerId(jwks'[i])
    BY <2>1, Zenon DEF AccessInv
  <2> QED BY <2>1, <2>2, <2>3, <2>4, <2>5, Zenon DEF AccessInv
<1> QED BY <1>1, <1>2, <1>3, <1>4, <1>5, <1>6, <1>7, <1>8, <1>9, EnvironmentInv, RestartInv, Zenon
        DEF Next, Serve

LEMMA AlwaysInv == Spec => [](AccessInv /\ RoomForKey)
<1>1. Init => RoomForKey
  BY DEF Init, VerifierInit, RoomForKey
<1>2. AccessInv /\ RoomForKey /\ [Next]_vars => (AccessInv /\ RoomForKey)'
  BY StepInv, RoomInv, Zenon DEF AccessInv
<1> QED BY <1>1, <1>2, InitInv, PTL DEF Spec

(* Every request, row, key cache and answer has its type, an answered        *)
(* request holds no transaction open, and the log holds one row per          *)
(* correlation id and kind.                                                  *)
THEOREM AccessTyped == Spec => []AccessTypeOK
<1>1. AccessInv => AccessTypeOK
  BY Zenon DEF AccessInv
<1> QED BY <1>1, AlwaysInv, PTL

(* break_glass_query answers 404 only when the row of its correlation id is  *)
(* that of another tenant.                                                   *)
THEOREM NotFound == Spec => []NotFoundMeansOtherScope
<1>1. AccessInv => NotFoundMeansOtherScope
  BY DEF AccessInv, RequestInv, NotFoundMeansOtherScope
<1> QED BY <1>1, AlwaysInv, PTL

-----------------------------------------------------------------------------
(* What a step may not do.                                                   *)

(* A request moves, or is answered, only by a step of its own or by the      *)
(* restart; and only the steps that verify a token, the lapse of a key set   *)
(* and the restart change a key cache.                                       *)
LEMMA OwnStep ==
    ASSUME AccessTypeOK, [Next]_vars, NEW r \in Requests, answer'[r].status # answer[r].status
    PROVE  Serve(r) \/ RestartApi
<1>0. DOMAIN answer = Requests
  BY Zenon DEF AccessTypeOK
<1>1. ASSUME NEW q \in Requests \ {r}, Serve(q) PROVE answer'[r] = answer[r]
  <2>1. CASE dispatch(q)
    BY <1>0, <1>1, <2>1 DEF dispatch, Authenticate, Answer
  <2>2. CASE authenticated_principal(q)
    BY <1>0, <1>1, <2>2, Zenon DEF authenticated_principal, Authenticate, Answer
  <2>3. CASE charge(q) \/ audit_for_correlation(q) \/ insert_break_glass(q)
             \/ select_break_glass(q) \/ DatabaseError(q)
    BY <1>0, <1>1, <2>3, ZenonT(60) DEF charge, audit_for_correlation, insert_break_glass, select_break_glass,
                            DatabaseError, Respond, Answer
  <2> QED BY <1>1, <2>1, <2>2, <2>3, ZenonT(60) DEF Serve
<1>2. ASSUME NEW q \in Requests, Send(q) PROVE answer'[r] = answer[r]
  BY <1>2, Zenon DEF Send
<1>3. CASE Environment \/ UNCHANGED vars
  BY <1>3, Zenon DEF Environment, accessVars, vars
<1> QED BY <1>1, <1>2, <1>3, Zenon DEF Next

(* break_glass_query answers 200 only in a step that commits the request's   *)
(* own row, or after another operator's request committed one for the same   *)
(* correlation id.                                                           *)
THEOREM DisclosureRecorded == Spec => DisclosureCommitsRow
<1>1. ASSUME AccessInv, [Next]_vars, NEW r \in Requests, req[r].path = "break_glass",
             answer[r].status # 200, answer'[r].status = 200
      PROVE  \/ audit' = audit \cup {Row(req[r].scope, req[r].corr, "break_glass", r)}
             \/ \E e \in audit :
                   /\ e.kind = "break_glass" /\ e.corr = req[r].corr
                   /\ e.by # r /\ req[e.by].path = "break_glass" /\ req[e.by].corr = e.corr
                   /\ req[e.by].scope = e.tenant /\ req[e.by].token.iss = "operator"
  <2>0. AccessTypeOK /\ DOMAIN answer = Requests /\ RequestInv(r)
    BY <1>1, ZenonT(60) DEF AccessInv, AccessTypeOK
  <2>1. Serve(r)
    <3>1. RestartApi => answer'[r] = answer[r] \/ answer'[r].status = 502
      BY DEF RestartApi, NoAnswer
    <3>2. answer'[r].status # 502 /\ answer'[r] # answer[r]
      BY <1>1
    <3> QED BY <1>1, <2>0, <3>1, <3>2, OwnStep, ZenonT(60)
  <2>2. ~dispatch(r)
    <3>1. dispatch(r) => answer' = answer
      BY <1>1, Zenon DEF dispatch, _is_exempt
    <3> QED BY <1>1, <3>1, Zenon
  <2>3. ~authenticated_principal(r)
    <3> SUFFICES ASSUME authenticated_principal(r) PROVE FALSE
      OBVIOUS
    <3>1. Checked(r, Verifier(req[r].path), "authorised")
      BY <2>0, PrincipalDoes, ZenonT(60)
    <3>2. PICK result, status :
            status \in {401, 503} /\ CheckedAs(r, Verifier(req[r].path), "authorised", result, status)
      BY <3>1 DEF Checked
    <3>3. answer' = answer \/ answer'[r].status \in {401, 503}
      BY <2>0, <3>2 DEF CheckedAs
    <3> QED BY <1>1, <3>3
  <2>4. ~charge(r) /\ ~insert_break_glass(r) /\ ~DatabaseError(r) /\ ~audit_for_correlation(r)
    BY <1>1, <2>0 DEF charge, insert_break_glass, DatabaseError, audit_for_correlation, Answer
  <2>5. select_break_glass(r)
    BY <2>1, <2>2, <2>3, <2>4, Zenon DEF Serve
  <2>6. at[r] = "inserted" /\ audit' = audit \cup tx[r]
    BY <2>5, Zenon DEF select_break_glass
  <2>7. CASE tx[r] # {}
    BY <1>1, <2>6, <2>7, HeldRow, ZenonT(60) DEF OwnRow
  <2>8. CASE tx[r] = {}
    <3>1. PICK e \in audit : e.corr = req[r].corr /\ e.kind = "break_glass"
      BY <2>0, <2>6, <2>8, Zenon DEF RequestInv, Taken
    <3>2. OnBehalf(e)
      BY <1>1, <3>1, Zenon DEF AccessInv
    <3>3. e.by # r
      BY <2>6, <3>2 DEF OnBehalf
    <3> QED BY <3>1, <3>2, <3>3, Zenon DEF OnBehalf
  <2> QED BY <2>7, <2>8
<1>2. AccessInv /\ [Next]_vars =>
        [\A r \in Requests :
          req[r].path = "break_glass" /\ answer[r].status # 200 /\ answer'[r].status = 200 =>
              \/ audit' = audit \cup {Row(req[r].scope, req[r].corr, "break_glass", r)}
              \/ \E e \in audit :
                    /\ e.kind = "break_glass" /\ e.corr = req[r].corr
                    /\ e.by # r /\ req[e.by].path = "break_glass" /\ req[e.by].corr = e.corr
                    /\ req[e.by].scope = e.tenant /\ req[e.by].token.iss = "operator"]_vars
  BY <1>1, ZenonT(60)
<1> QED BY <1>2, AlwaysInv, PTL DEF Spec, DisclosureCommitsRow

(* A request in front of a verifier is answered only by that verifier, or by *)
(* the restart with a 502.                                                   *)
LEMMA AnsweredByVerifier ==
    ASSUME AccessInv, [Next]_vars, NEW r \in Requests, at[r] \in {"sent", "handler"},
           answer'[r].status # answer[r].status, answer'[r].status # 502
    PROVE  \E result : /\ result.verdict # "ok"
                       /\ CheckedAs(r, Verifier(req[r].path), IF at[r] = "sent" THEN "charging" ELSE "authorised",
                                    result, answer'[r].status)
<1>0. AccessTypeOK /\ DOMAIN answer = Requests
  BY Zenon DEF AccessInv, AccessTypeOK
<1>1. Serve(r)
  <2>1. RestartApi => answer'[r].status = 502
    BY DEF RestartApi, NoAnswer
  <2> QED BY <1>0, <2>1, OwnStep, ZenonT(60)
<1>2. dispatch(r) \/ authenticated_principal(r)
  BY <1>1, ZenonT(40) DEF Serve, charge, audit_for_correlation, insert_break_glass, select_break_glass,
              DatabaseError
<1>3. ASSUME NEW next, Checked(r, Verifier(req[r].path), next)
      PROVE  \E result : /\ result.verdict # "ok"
                         /\ CheckedAs(r, Verifier(req[r].path), next, result, answer'[r].status)
  <2>1. PICK result, status : CheckedAs(r, Verifier(req[r].path), next, result, status)
    BY <1>3 DEF Checked
  <2>2. result.verdict # "ok"
    BY <2>1, Zenon DEF CheckedAs
  <2>3. answer'[r].status = status
    BY <1>0, <2>1, <2>2 DEF CheckedAs
  <2> QED BY <2>1, <2>2, <2>3, ZenonT(40)
<1>4. CASE dispatch(r)
  <2>1. at[r] = "sent"
    BY <1>4, Zenon DEF dispatch
  <2>2. Checked(r, "tenant", "charging") /\ req[r].path = "audit"
    BY <1>0, <1>4, DispatchDoes
  <2>3. Checked(r, Verifier(req[r].path), "charging")
    BY <2>2, Zenon DEF Verifier
  <2> QED BY <1>3, <2>1, <2>3
<1>5. CASE authenticated_principal(r)
  <2>1. at[r] = "handler"
    BY <1>5, Zenon DEF authenticated_principal
  <2>2. Checked(r, Verifier(req[r].path), "authorised")
    BY <1>0, <1>5, PrincipalDoes, ZenonT(60)
  <2> QED BY <1>3, <2>1, <2>2
<1> QED BY <1>2, <1>4, <1>5, Zenon

(* With its issuer up, a current and unexpired token is answered 401 by its  *)
(* own verifier only if the verifier holds a retired key under its key id.   *)
THEOREM GenuineKept == Spec => GenuineRefusedOnlyIfStale
<1>1. ASSUME AccessInv, [Next]_vars, NEW r \in Requests,
             at[r] \in {"sent", "handler"}, answer[r].status # answer'[r].status,
             answer'[r].status = 401, Current(req[r].token), req[r].token \notin expired,
             req[r].token.iss = Verifier(req[r].path)
      PROVE  Retired(req[r].token.iss, req[r].token.kid,
                     jwks[req[r].token.iss].lru \cup {jwks[req[r].token.iss].set})
  <2> DEFINE t == req[r].token
             i == Verifier(req[r].path)
  <2>0. VerifierTypeOK /\ i \in Issuers
    BY <1>1, AccessAssumption, ZenonT(60) DEF AccessInv, AccessTypeOK, Verifier
  <2>1. PICK result, next : /\ result.verdict # "ok"
                            /\ CheckedAs(r, i, next, result, answer'[r].status)
    BY <1>1, AnsweredByVerifier
  <2>2. Verified(i, t, result)
    BY <2>1, ZenonT(60) DEF CheckedAs
  <2>3. fetch_data(i) = [kid |-> t.kid, key |-> t.key] /\ issuer[i].up
    BY <1>1, <2>0, FetchType DEF Current
  <2>4. result.verdict = "invalid"
    BY <1>1, <2>1, <2>2, <2>3, ZenonT(60) DEF Verified
  <2>5. PICK k \in jwks[i].lru \cup {jwks[i].set, fetch_data(i)} : k.kid = t.kid /\ k.key # t.key
    <3>1. fetch_data(i).kid = t.kid
      BY <2>3
    <3> QED BY <1>1, <2>2, <2>4, <3>1, ZenonT(60) DEF Verified
  <2>6. k \in jwks[i].lru \cup {jwks[i].set}
    BY <2>3, <2>5, SMTT(60)
  <2> QED BY <1>1, <2>5, <2>6 DEF Retired, Current
<1>2. AccessInv /\ [Next]_vars =>
        [\A r \in Requests :
          LET t == req[r].token IN
          /\ at[r] \in {"sent", "handler"} /\ answer[r].status # answer'[r].status
          /\ answer'[r].status = 401
          /\ Current(t) /\ t \notin expired /\ t.iss = Verifier(req[r].path)
          => Retired(t.iss, t.kid, jwks[t.iss].lru \cup {jwks[t.iss].set})]_vars
  BY <1>1, ZenonT(60)
<1> QED BY <1>2, AlwaysInv, PTL DEF Spec, GenuineRefusedOnlyIfStale

(* A query request that was charged is refused by the second verification    *)
(* only if its token expired or its key left the cache.                      *)
THEOREM ChargedKept == Spec => ChargedRequestKept
<1>1. ASSUME AccessInv, [Next]_vars, NEW r \in Requests,
             at[r] = "handler", req[r].path = "audit", answer'[r].status = 401
      PROVE  \/ req[r].token \in expired
             \/ [kid |-> req[r].token.kid, key |-> req[r].token.key] \notin jwks["tenant"].lru
  <2> DEFINE t == req[r].token
             own == [kid |-> t.kid, key |-> t.key]
  <2>0. answer[r].status = 0 /\ t.iss = "tenant" /\ OneKeyPerId(jwks["tenant"])
    BY <1>1, AccessAssumption DEF AccessInv, AccessTypeOK, RequestInv
  <2>1. PICK result : /\ result.verdict # "ok"
                      /\ CheckedAs(r, "tenant", "authorised", result, 401)
    BY <1>1, <2>0, AnsweredByVerifier DEF Verifier
  <2>2. Verified("tenant", t, result) /\ result.verdict # "unavailable"
    BY <2>1 DEF CheckedAs
  <2>3. own \in jwks["tenant"].lru /\ t \notin expired => FALSE
    BY <2>0, <2>1, <2>2, Zenon DEF Verified
  <2> QED BY <2>3, Zenon
<1>2. AccessInv /\ [Next]_vars =>
        [\A r \in Requests :
          at[r] = "handler" /\ req[r].path = "audit" /\ answer'[r].status = 401 =>
              \/ req[r].token \in expired
              \/ [kid |-> req[r].token.kid, key |-> req[r].token.key] \notin jwks["tenant"].lru]_vars
  BY <1>1, ZenonT(60)
<1> QED BY <1>2, AlwaysInv, PTL DEF Spec, ChargedRequestKept

(* A retired key under a reused key id leaves the cache only when the issuer *)
(* or the API restarts, or a token with another key id is looked up.         *)
THEOREM StaleKept == Spec => StaleKeyOutlivesItsFailures
<1>1. ASSUME AccessInv, [Next]_vars, NEW i \in Issuers, NEW kid \in KeyIds[i],
             Stale(i, kid), ~Stale(i, kid)', issuer' = issuer, ~RestartApi
      PROVE  \E r \in Requests : at'[r] # at[r] /\ req[r].token.kid # kid
  <2>0. AccessTypeOK /\ DOMAIN jwks = Issuers /\ at \in [Requests -> Places] /\ OneKeyPerId(jwks[i])
    BY <1>1, ZenonT(60) DEF AccessInv, AccessTypeOK, VerifierTypeOK
  <2>1. jwks'[i].lru # jwks[i].lru
    BY <1>1, Zenon DEF Stale, Retired
  <2>2. PICK k \in jwks[i].lru : k.kid = kid
    BY <1>1, Zenon DEF Stale, Retired
  <2>3. PICK r \in Requests : dispatch(r) \/ authenticated_principal(r)
    <3>1. ~Environment
      <4>1. ASSUME NEW j \in Issuers, LapseSet(j) PROVE FALSE
        <5>1. jwks' = [jwks EXCEPT ![j].set = NoSet]
          BY <4>1, Zenon DEF LapseSet
        <5>2. jwks[j] \in Verifiers(j)
          BY <2>0, <4>1, ZenonT(60) DEF AccessTypeOK, VerifierTypeOK
        <5>3. jwks'[i].lru = jwks[i].lru
          BY <2>0, <5>1, <5>2, Zenon DEF Verifiers
        <5> QED BY <2>1, <5>3, Zenon
      <4> QED BY <2>1, <4>1, Zenon DEF Environment, StopIssuer, StartIssuer, token, Expire
    <3>2. UNCHANGED jwks => FALSE
      BY <2>1, Zenon
    <3> QED BY <1>1, <3>1, <3>2, ZenonT(60) DEF Next, Serve, Send, charge, audit_for_correlation,
               insert_break_glass, select_break_glass, DatabaseError, vars
  <2>4. PICK j, next, result, status :
          /\ CheckedAs(r, j, next, result, status)
          /\ next # at[r] /\ at[r] # "done"
    <3>1. CASE dispatch(r)
      <4>1. at[r] = "sent"
        BY <3>1, Zenon DEF dispatch
      <4>2. Checked(r, "tenant", "charging")
        BY <2>0, <2>1, <3>1, DispatchDoes, ZenonT(60)
      <4>3. \E result, status : CheckedAs(r, "tenant", "charging", result, status)
        BY <4>2, ZenonT(60) DEF Checked
      <4>4. "charging" # at[r] /\ at[r] # "done"
        BY <4>1, Zenon
      <4> QED BY <4>3, <4>4, ZenonT(60)
    <3>2. CASE authenticated_principal(r)
      <4>1. at[r] = "handler"
        BY <3>2, Zenon DEF authenticated_principal
      <4>2. Checked(r, Verifier(req[r].path), "authorised")
        BY <2>0, <3>2, PrincipalDoes, Zenon
      <4>3. \E result, status : CheckedAs(r, Verifier(req[r].path), "authorised", result, status)
        BY <4>2, ZenonT(60) DEF Checked
      <4>4. "authorised" # at[r] /\ at[r] # "done"
        BY <4>1, Zenon
      <4> QED BY <4>3, <4>4, ZenonT(60)
    <3> QED BY <2>3, <3>1, <3>2, ZenonT(60)
  <2>5. at'[r] # at[r]
    BY <2>0, <2>4, Zenon DEF CheckedAs
  <2>6. jwks' = [jwks EXCEPT ![j] = result.then] /\ Verified(j, req[r].token, result)
    BY <2>4, Zenon DEF CheckedAs
  <2>7. j = i /\ jwks'[i] = result.then
    BY <2>0, <2>1, <2>6, Zenon
  <2>8. req[r].token.kid # kid
    BY <2>0, <2>1, <2>2, <2>6, <2>7, Zenon DEF Verified
  <2> QED BY <2>5, <2>8, Zenon
<1>2. AccessInv /\ [Next]_vars =>
        [\A i \in Issuers : \A kid \in KeyIds[i] :
          Stale(i, kid) /\ ~Stale(i, kid)' =>
              \/ issuer' # issuer
              \/ RestartApi
              \/ \E r \in Requests : at'[r] # at[r] /\ req[r].token.kid # kid]_vars
  BY <1>1, Zenon
<1> QED BY <1>2, AlwaysInv, PTL DEF Spec, StaleKeyOutlivesItsFailures
=============================================================================
