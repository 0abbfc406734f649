--------------------------- MODULE TokenVerifier ---------------------------
(***************************************************************************)
(* The two OAuth2 issuers (infra/compose/mock-issuer and operator-issuer)  *)
(* and the API's JWTVerifier for each, with the caches of the PyJWKClient  *)
(* under it.  A call of verify runs in the event loop without an await, so *)
(* it is one step; the issuers, the clock and the API's restarts come in   *)
(* between.                                                                *)
(***************************************************************************)
EXTENDS Integers, FiniteSets

CONSTANTS
    Issuers,    \* one per audience: the API has a verifier for each
    KeyIds,     \* KeyIds[i] is what issuer i's key_id setting may be
    MaxKeys     \* bound: key pairs issuer i generates

ASSUME TokenVerifierAssumption ==
    /\ MaxKeys \in [Issuers -> Nat \ {0}]
    /\ \A i \in Issuers : KeyIds[i] # {} /\ "none" \notin KeyIds[i]

VARIABLES
    issuer,     \* [up, kid, key] of each issuer: the one key it serves
    tokens,     \* tokens issued
    expired,    \* tokens whose exp is past the clock skew
    jwks        \* the API's verifiers: [uri, set, lru] of each

verifierVars == <<issuer, tokens, expired, jwks>>

NoSet == [kid |-> "none", key |-> 0]
Keys(i) == [kid : KeyIds[i], key : 1..MaxKeys[i]]
Tokens == UNION {[iss : {i}, kid : KeyIds[i], key : 1..MaxKeys[i]] : i \in Issuers}

(* What issuer i and the verifier of its tokens may be; a verifier that has  *)
(* looked nothing up yet.                                                    *)
IssuerStates(i) == [up : BOOLEAN, kid : KeyIds[i], key : 1..MaxKeys[i]]
Verifiers(i) == [uri : BOOLEAN, set : Keys(i) \cup {NoSet}, lru : SUBSET Keys(i)]
FreshVerifier == [uri |-> FALSE, set |-> NoSet, lru |-> {}]

VerifierTypeOK ==
    /\ DOMAIN issuer = Issuers /\ DOMAIN jwks = Issuers
    /\ \A i \in Issuers : issuer[i] \in IssuerStates(i) /\ jwks[i] \in Verifiers(i)
    /\ tokens \subseteq Tokens
    /\ expired \subseteq tokens

VerifierInit ==
    /\ issuer = [i \in Issuers |->
                    [up |-> TRUE, kid |-> CHOOSE k \in KeyIds[i] : TRUE, key |-> 1]]
    /\ tokens = {}
    /\ expired = {}
    /\ jwks = [i \in Issuers |-> FreshVerifier]
-----------------------------------------------------------------------------
(* The issuer goes away, and comes back with a key pair generated at import  *)
(* under the key id its configuration names, often the same as before.       *)
StopIssuer(i) ==
    /\ issuer[i].up
    /\ issuer[i].key < MaxKeys[i]
    /\ issuer' = [issuer EXCEPT ![i].up = FALSE]
    /\ UNCHANGED <<tokens, expired, jwks>>

StartIssuer(i) ==
    /\ ~issuer[i].up
    /\ \E k \in KeyIds[i] :
        issuer' = [issuer EXCEPT ![i] = [up |-> TRUE, kid |-> k, key |-> @.key + 1]]
    /\ UNCHANGED <<tokens, expired, jwks>>

(* POST /token: signed by the current key, its kid in the header.            *)
token(i) ==
    /\ issuer[i].up
    /\ tokens' = tokens \cup {[iss |-> i, kid |-> issuer[i].kid, key |-> issuer[i].key]}
    /\ tokens' # tokens
    /\ UNCHANGED <<issuer, expired, jwks>>

Expire(t) ==
    /\ t \in tokens \ expired
    /\ expired' = expired \cup {t}
    /\ UNCHANGED <<issuer, tokens, jwks>>

(* oauth2_jwks_cache_ttl_seconds have passed: the cached key set is no       *)
(* longer used.  Single keys that were looked up have no lifespan.           *)
LapseSet(i) ==
    /\ jwks[i].set # NoSet
    /\ jwks' = [jwks EXCEPT ![i].set = NoSet]
    /\ UNCHANGED <<issuer, tokens, expired>>
-----------------------------------------------------------------------------
(* GET /.well-known/jwks.json.                                               *)
fetch_data(i) == IF issuer[i].up THEN [kid |-> issuer[i].kid, key |-> issuer[i].key] ELSE NoSet

Found(v, set) == [v EXCEPT !.set = set, !.lru = @ \cup {set}]

(* Mutant: a key that was looked up before is looked up again.              *)
get_signing_key_again(i, v, kid) ==
    LET set == IF v.set = NoSet THEN fetch_data(i) ELSE v.set
        again == IF set.kid = kid \/ set = NoSet THEN set ELSE fetch_data(i)
    IN  IF again.kid = kid THEN [key |-> again.key, then |-> Found(v, again)]
        ELSE [key |-> 0, then |-> [v EXCEPT !.set = again]]

(* PyJWKClient.get_signing_key: the key looked up under this kid before, or  *)
(* else the cached set, fetched if there is none, and fetched again if the   *)
(* kid is not in it.  Key 0 is a PyJWKClientError.                           *)
get_signing_key(i, v, kid) ==
    LET hit == {k \in v.lru : k.kid = kid}
        set == IF v.set = NoSet THEN fetch_data(i) ELSE v.set
        again == IF set.kid = kid \/ set = NoSet THEN set ELSE fetch_data(i)
    IN  IF hit # {} THEN [key |-> (CHOOSE k \in hit : TRUE).key, then |-> v]
        ELSE IF again.kid = kid THEN [key |-> again.key, then |-> Found(v, again)]
        ELSE [key |-> 0, then |-> [v EXCEPT !.set = again]]

(* _refresh_jwks: a new client, with empty caches; the URI stays resolved.   *)
_refresh_jwks(v) == [v EXCEPT !.set = NoSet, !.lru = {}]

(* Mutant: a cached set is trusted for its whole lifespan.                   *)
_signing_key_cached_only(i, v, kid) ==
    IF v.set # NoSet /\ v.set.kid # kid THEN [key |-> 0, then |-> v]
    ELSE get_signing_key(i, v, kid)

_signing_key_or_refresh(i, v, kid) ==
    LET first == get_signing_key(i, v, kid) IN
    IF first.key # 0 THEN first ELSE get_signing_key(i, _refresh_jwks(first.then), kid)

(* jwt.decode with the key found: the signature, which only issuer i's own   *)
(* tokens can carry, then exp.  iss and aud are those of the issuer.         *)
decode(i, t, key) ==
    CASE t.iss # i \/ t.key # key -> "invalid"
      [] t \in expired -> "expired"
      [] OTHER -> "ok"

(* JWTVerifier.verify: the verdict, and the verifier after it.  Discovery    *)
(* happens once; only there an issuer that is down is reported as such.      *)
verify(i, t) ==
    LET v == [jwks[i] EXCEPT !.uri = TRUE]
        found == _signing_key_or_refresh(i, v, t.kid)
    IN  IF ~jwks[i].uri /\ ~issuer[i].up THEN [verdict |-> "unavailable", then |-> jwks[i]]
        ELSE IF found.key = 0 THEN [verdict |-> "invalid", then |-> found.then]
        ELSE [verdict |-> decode(i, t, found.key), then |-> found.then]
=============================================================================
