---------------------------- MODULE TokenBucket ----------------------------
(***************************************************************************)
(* The rate limiter of one tenant and endpoint class: the dispatch of      *)
(* ratelimit/middleware.py around the script token_bucket.lua.  Requests   *)
(* read the wall clock first and run the script later, so their stamps     *)
(* reach Redis out of order and, after a correction of the clock, going    *)
(* backwards.  Redis runs the script atomically, expires the bucket by its *)
(* own clock, and may restart, which loses bucket and script, or drop a    *)
(* connection before or after a call took effect.                          *)
(*                                                                         *)
(* Time is counted in ticks: a tick is the script's millisecond, and       *)
(* Second is its 1000.                                                     *)
(***************************************************************************)
EXTENDS Integers, FiniteSets

CONSTANTS
    Requests,       \* requests in flight at once
    Second,         \* ticks per second
    Rate,           \* sustained_rps
    Burst,          \* burst_capacity
    MaxLag,         \* how old a stamp may be when the script reads it
    MaxClock,       \* bound on time
    MaxRestarts,    \* bound on restarts of Redis
    MaxDrops,       \* bound on dropped connections
    None

Bucket == [tokens : 0..Burst, last : Nat, expires : Nat]

ASSUME TokenBucketAssumption ==
    /\ Second \in Nat \ {0}
    /\ Rate \in Nat \ {0}
    /\ Burst \in Nat \ {0} /\ Burst >= Rate     \* migration 014
    /\ MaxLag \in Nat
    /\ MaxClock \in Nat /\ MaxClock >= MaxLag
    /\ MaxRestarts \in Nat
    /\ MaxDrops \in Nat
    /\ None \notin Int /\ None \notin Bucket

VARIABLES
    clock,          \* the time
    bucket,         \* the Redis hash of the tenant and its TTL, or None
    script,         \* Redis has the script
    sha,            \* the middleware has the script's digest
    pc, stamp,      \* each request: the call it awaits, its now_ms
    admitted,       \* requests passed on to the handler
    unavailable,    \* requests answered 503
    deniedAt,       \* time of the last 429, None once a token was taken since
    restarts, drops

redisVars == <<bucket, script>>
vars == <<clock, redisVars, sha, pc, stamp, admitted, unavailable, deniedAt, restarts, drops>>

LimiterTypeOK ==
    /\ clock \in MaxLag..MaxClock
    /\ bucket \in Bucket \cup {None}
    /\ script \in BOOLEAN
    /\ sha \in BOOLEAN
    /\ pc \in [Requests -> {"idle", "load", "eval", "reload", "retry"}]
    /\ stamp \in [Requests -> 0..MaxClock]
    /\ admitted \in Nat
    /\ unavailable \in Nat
    /\ deniedAt \in {None} \cup 0..MaxClock
    /\ restarts \in 0..MaxRestarts
    /\ drops \in 0..MaxDrops

LimiterInit ==
    /\ clock = MaxLag
    /\ bucket = None
    /\ script = FALSE
    /\ sha = FALSE
    /\ pc = [r \in Requests |-> "idle"]
    /\ stamp = [r \in Requests |-> 0]
    /\ admitted = 0
    /\ unavailable = 0
    /\ deniedAt = None
    /\ restarts = 0
    /\ drops = 0

-----------------------------------------------------------------------------
(* token_bucket.lua.                                                         *)

(* HMGET: the bucket as a call stamped s finds it; full when there is none.  *)
Found(s) ==
    IF bucket # None /\ clock < bucket.expires
    THEN bucket
    ELSE [tokens |-> Burst, last |-> s, expires |-> clock]

Elapsed(b, s) == IF s < b.last THEN 0 ELSE s - b.last

Tokens(elapsed) == (elapsed * Rate) \div Second

(* Mutant: the timestamp advances by one token's time too little.            *)
Covered_one_short(tokens) == ((tokens - 1) * Second) \div Rate

(* The time a refill stands for. *)
Covered(tokens) == (tokens * Second) \div Rate

Refilled(b, s) ==
    LET refill == Tokens(Elapsed(b, s)) IN
    IF refill > 0
    THEN [b EXCEPT !.tokens = IF @ + refill < Burst THEN @ + refill ELSE Burst,
                   !.last = @ + Covered(refill)]
    ELSE b

Ttl == (Burst * Second * 2) \div Rate

Allows(s) == Refilled(Found(s), s).tokens >= 1

(* The HSET, with PEXPIRE only when the request is allowed. *)
AfterScript(s) ==
    LET b == Refilled(Found(s), s) IN
    IF b.tokens >= 1
    THEN [b EXCEPT !.tokens = @ - 1, !.expires = clock + Ttl]
    ELSE b

-----------------------------------------------------------------------------
(* RateLimitMiddleware.dispatch.                                             *)

Goto(r, l) == pc' = [pc EXCEPT ![r] = l]

(* Mutant: no lower bound of a second, and rounded down.                     *)
RetryAfter_floor == ((Second \div Rate) \div Second) * Second

(* The Retry-After header of a 429: the script's hint rounded up to whole    *)
(* seconds, at least one.                                                    *)
RetryAfter ==
    LET hint == IF Second \div Rate < 1 THEN 1 ELSE Second \div Rate
        seconds == (hint + Second - 1) \div Second
    IN Second * (IF seconds < 1 THEN 1 ELSE seconds)

(* Read the clock; load the script unless its digest is cached. *)
dispatch(r) ==
    /\ pc[r] = "idle"
    /\ \E s \in (clock - MaxLag)..clock : stamp' = [stamp EXCEPT ![r] = s]
    /\ Goto(r, IF sha THEN "eval" ELSE "load")
    /\ UNCHANGED <<clock, redisVars, sha, admitted, unavailable, deniedAt, restarts, drops>>

(* SCRIPT LOAD, before the first call or after a NOSCRIPT. *)
ensure_lua_loaded(r) ==
    /\ pc[r] \in {"load", "reload"}
    /\ script' = TRUE
    /\ sha' = TRUE
    /\ Goto(r, IF pc[r] = "load" THEN "eval" ELSE "retry")
    /\ UNCHANGED <<clock, bucket, stamp, admitted, unavailable, deniedAt, restarts, drops>>

(* EVALSHA answered: allow passes the request on, deny answers 429. *)
evalsha(r) ==
    /\ pc[r] \in {"eval", "retry"}
    /\ script
    /\ bucket' = AfterScript(stamp[r])
    /\ IF Allows(stamp[r])
       THEN admitted' = admitted + 1 /\ deniedAt' = None
       ELSE deniedAt' = clock /\ UNCHANGED admitted
    /\ Goto(r, "idle")
    /\ UNCHANGED <<clock, script, sha, stamp, unavailable, restarts, drops>>

(* Branch 1 of dispatch: any other failure is answered 503. *)
fail_closed(r) ==
    /\ Goto(r, "idle")
    /\ unavailable' = unavailable + 1
    /\ UNCHANGED admitted

(* Mutant: NOSCRIPT is taken for any other failure.                          *)
noscript_unavailable(r) ==
    /\ pc[r] \in {"eval", "retry"}
    /\ ~script
    /\ fail_closed(r)
    /\ UNCHANGED <<clock, redisVars, sha, stamp, deniedAt, restarts, drops>>

(* EVALSHA answered NOSCRIPT: forget the digest, load, retry once. *)
noscript(r) ==
    /\ pc[r] \in {"eval", "retry"}
    /\ ~script
    /\ IF pc[r] = "eval"
       THEN Goto(r, "reload") /\ sha' = FALSE /\ UNCHANGED <<admitted, unavailable>>
       ELSE fail_closed(r) /\ UNCHANGED sha
    /\ UNCHANGED <<clock, redisVars, stamp, deniedAt, restarts, drops>>

(* A connection drops under a call, which Redis may have executed or not. *)
Drop(r) ==
    /\ drops < MaxDrops
    /\ pc[r] # "idle"
    /\ \/ UNCHANGED <<redisVars, deniedAt>>
       \/ /\ pc[r] \in {"load", "reload"}
          /\ script' = TRUE
          /\ UNCHANGED <<bucket, deniedAt>>
       \/ /\ pc[r] \in {"eval", "retry"} /\ script
          /\ bucket' = AfterScript(stamp[r])
          /\ deniedAt' = IF Allows(stamp[r]) THEN None ELSE deniedAt
          /\ UNCHANGED script
    /\ fail_closed(r)
    /\ drops' = drops + 1
    /\ UNCHANGED <<clock, sha, stamp, restarts>>

(* Redis restarts with an empty store and an empty script cache. *)
Restart ==
    /\ restarts < MaxRestarts
    /\ restarts' = restarts + 1
    /\ bucket' = None
    /\ script' = FALSE
    /\ UNCHANGED <<clock, sha, pc, stamp, admitted, unavailable, deniedAt, drops>>

(* Time passes, but no request is under way for longer than MaxLag. *)
Tick ==
    /\ clock < MaxClock
    /\ \A r \in Requests : pc[r] # "idle" => clock - stamp[r] < MaxLag
    /\ clock' = clock + 1
    /\ UNCHANGED <<redisVars, sha, pc, stamp, admitted, unavailable, deniedAt, restarts, drops>>

RequestStep(r) ==
    dispatch(r) \/ ensure_lua_loaded(r) \/ evalsha(r) \/ noscript(r) \/ Drop(r)

LimiterNext == (\E r \in Requests : RequestStep(r)) \/ Restart \/ Tick

LimiterSpec == LimiterInit /\ [][LimiterNext]_vars
-----------------------------------------------------------------------------
(* FR-010: over the time since the limiter started, counted from the oldest  *)
(* stamp, a tenant gets Burst requests and Rate more per second, whatever    *)
(* the order of the stamps and the failures; a restart of Redis forgives at  *)
(* most one more burst and the refill of one lag.                            *)
Allowance == Burst * Second + Rate * clock + restarts * (Burst * Second + Rate * MaxLag)

RateBound == admitted * Second <= Allowance

(* Where RateBound holds.  The refill is exact: the time Covered adds pays   *)
(* for all the tokens it stands for (the script rounds it down).  And a      *)
(* request is quicker than a bucket fills: a stamp that finds its bucket     *)
(* expired is not older than the refill the bucket would have had.           *)
ExactRefill == \A e \in 0..MaxClock : Covered(Tokens(e)) * Rate >= Tokens(e) * Second

Timely == Rate * (MaxLag + 1) <= Burst * Second

(* What makes RateBound inductive: the tokens left in the bucket are paid    *)
(* for by the time up to its timestamp, a bucket outlives its timestamp by   *)
(* its TTL, and a lost bucket leaves the next one paid for.                  *)
Credit ==
    /\ \A r \in Requests : pc[r] # "idle" => stamp[r] \in (clock - MaxLag)..clock
    /\ bucket = None =>
         admitted * Second <= Rate * (clock - MaxLag)
                              + restarts * (Burst * Second + Rate * MaxLag)
    /\ bucket # None =>
         /\ bucket.last <= clock
         /\ bucket.last + Ttl <= bucket.expires
         /\ (admitted + bucket.tokens) * Second
               <= Burst * Second + Rate * bucket.last
                  + restarts * (Burst * Second + Rate * MaxLag)

(* FR-011: a client that was answered 429 and waits as long as Retry-After   *)
(* says finds a token, unless another request took it first.                 *)
RetryAfterHonoured ==
    deniedAt # None /\ bucket # None => Refilled(bucket, deniedAt + RetryAfter).tokens >= 1

(* A restart of Redis alone costs no request: the script is loaded again and *)
(* the call retried.  A 503 needs a dropped connection or a second restart.  *)
RestartIsInvisible == unavailable > 0 => drops > 0 \/ restarts > 1
=============================================================================
