------------------------- MODULE TokenBucketProofs -------------------------
(***************************************************************************)
(* The rate limiter keeps its promise for every rate, burst, lag and       *)
(* number of requests, as long as the refill is exact and requests are     *)
(* quicker than a bucket fills.                                            *)
(***************************************************************************)
EXTENDS TokenBucket, TLAPS

(* Integer division: the quotient of a natural number. *)
LEMMA Quotient ==
    ASSUME NEW a \in Nat, NEW b \in Nat \ {0}
    PROVE  /\ a \div b \in Nat
           /\ b * (a \div b) <= a
           /\ a < b * (a \div b) + b
  OBVIOUS

(* A product of naturals is a natural, and grows with its factors. *)
LEMMA Product ==
    ASSUME NEW a \in Nat, NEW b \in Nat, NEW c \in Nat, a <= b
    PROVE  /\ a * c \in Nat /\ c * a \in Nat
           /\ c * a <= c * b
           /\ a * c <= b * c
  OBVIOUS

USE DEF Bucket

(* The type invariant with the credit of the bucket. *)
IInv == LimiterTypeOK /\ Credit

(* The part of the allowance that does not grow with the clock. *)
Forgiven == restarts * (Burst * Second + Rate * MaxLag)

(* token_bucket.lua's refill, with the elapsed time e, the tokens n that it   *)
(* brings and the time v they stand for: the timestamp never moves back, nor *)
(* past the stamp, and without a new token the bucket stays as it is.        *)
LEMMA RefillShape ==
    ASSUME NEW b \in Bucket, NEW s \in Nat
    PROVE  LET c == Refilled(b, s)
               e == Elapsed(b, s)
               n == Tokens(e)
               v == Covered(n) IN
           /\ e \in Nat /\ (s < b.last => e = 0) /\ (s >= b.last => e = s - b.last)
           /\ n \in Nat /\ v \in Nat
           /\ c \in Bucket
           /\ c.expires = b.expires
           /\ b.last <= c.last
           /\ \A x \in Nat : b.last <= x /\ s <= x => c.last <= x
           /\ n > 0 => c.last = b.last + v /\ c.tokens >= 1 /\ c.tokens <= b.tokens + n
           /\ ~(n > 0) => c = b
           /\ c.tokens < 1 => c = b
<1> DEFINE e == Elapsed(b, s)
           n == Tokens(e)
           v == Covered(n)
<1>1. e \in Nat /\ (s < b.last => e = 0) /\ (s >= b.last => e = s - b.last)
  BY DEF Elapsed
<1>2. n \in Nat /\ Second * n <= e * Rate
  <2>1. e * Rate \in Nat
    BY <1>1, TokenBucketAssumption
  <2> QED  BY <2>1, Quotient, TokenBucketAssumption DEF Tokens
<1>3. v \in Nat /\ Rate * v <= n * Second
  <2>1. n * Second \in Nat
    BY <1>2, TokenBucketAssumption
  <2> QED  BY <2>1, Quotient, TokenBucketAssumption, Zenon DEF Covered
<1> HIDE DEF e, n, v
<1>5. v <= e
  <2>1. Rate * v <= e * Rate
    BY <1>1, <1>2, <1>3, TokenBucketAssumption
  <2>2. ASSUME v > e PROVE FALSE
    <3>1. e + 1 \in Nat /\ e + 1 <= v /\ Rate \in Nat \ {0}
      BY <1>1, <1>3, <2>2, TokenBucketAssumption
    <3>2. Rate * (e + 1) <= Rate * v
      BY <1>3, <3>1, Product
    <3>3. Rate * (e + 1) = e * Rate + Rate
      BY <1>1, <3>1
    <3>4. e * Rate \in Nat /\ Rate * v \in Nat
      BY <1>1, <1>3, <3>1, Product
    <3> QED  BY <2>1, <3>1, <3>2, <3>3, <3>4
  <2> QED  BY <2>2, <1>1, <1>3
<1>6. CASE n > 0
  <2> DEFINE m == IF b.tokens + n < Burst THEN b.tokens + n ELSE Burst
             c == Refilled(b, s)
  <2>1. c = [b EXCEPT !.tokens = m, !.last = b.last + v]
    BY <1>6 DEF Refilled, e, n, v
  <2>2. m \in 1..Burst /\ m \in 0..Burst /\ m <= b.tokens + n
    BY <1>2, <1>6, TokenBucketAssumption
  <2> HIDE DEF m, c
  <2>3. b.last + v \in Nat /\ \A x \in Nat : b.last <= x /\ s <= x => b.last + v <= x
    BY <1>1, <1>3, <1>5
  <2>4. c.tokens = m /\ c.last = b.last + v /\ c.expires = b.expires
    BY <2>1
  <2>5. c \in Bucket
    BY <2>1, <2>2, <2>3, Zenon
  <2>6. b.last <= c.last /\ c.tokens >= 1 /\ ~(c.tokens < 1)
    BY <1>3, <2>2, <2>4
  <2> QED  BY <1>1, <1>2, <1>3, <1>6, <2>2, <2>3, <2>4, <2>5, <2>6 DEF e, n, v, c
<1>7. CASE ~(n > 0)
  <2>1. Refilled(b, s) = b
    BY <1>7 DEF Refilled, e, n
  <2> QED  BY <1>1, <1>2, <1>3, <1>7, <2>1 DEF e, n, v
<1> QED  BY <1>6, <1>7

(* The refill keeps a bucket paid for: its timestamp moves by at least the   *)
(* time the new tokens cost.                                                 *)
LEMMA RefillPaid ==
    ASSUME ExactRefill,
           NEW b \in Bucket, NEW s \in 0..MaxClock, NEW a \in Nat, NEW k \in Int,
           (a + b.tokens) * Second <= k + Rate * b.last
    PROVE  LET c == Refilled(b, s) IN
           /\ c \in Bucket
           /\ c.expires = b.expires
           /\ b.last <= c.last
           /\ \A x \in Nat : b.last <= x /\ s <= x => c.last <= x
           /\ (a + c.tokens) * Second <= k + Rate * c.last
           /\ c.tokens < 1 => c = b
<1> DEFINE c == Refilled(b, s)
           e == Elapsed(b, s)
           n == Tokens(e)
           v == Covered(n)
<1>0. s \in Nat
  OBVIOUS
<1>1. /\ e \in Nat /\ (s < b.last => e = 0) /\ (s >= b.last => e = s - b.last)
      /\ n \in Nat /\ v \in Nat
      /\ c \in Bucket /\ c.expires = b.expires /\ b.last <= c.last
      /\ \A x \in Nat : b.last <= x /\ s <= x => c.last <= x
      /\ n > 0 => c.last = b.last + v /\ c.tokens <= b.tokens + n
      /\ ~(n > 0) => c = b
      /\ c.tokens < 1 => c = b
  BY <1>0, RefillShape, Zenon
<1>2. v * Rate >= n * Second
  <2>1. e \in 0..MaxClock
    BY <1>1, TokenBucketAssumption
  <2> QED  BY <2>1 DEF ExactRefill
<1> HIDE DEF c, e, n, v
<1>3. CASE n > 0
  <2>1. (a + c.tokens) * Second <= (a + b.tokens + n) * Second
    BY <1>1, <1>3, Product, TokenBucketAssumption
  <2>2. (a + b.tokens + n) * Second = (a + b.tokens) * Second + n * Second
    BY <1>1, TokenBucketAssumption
  <2>3. Rate * c.last = Rate * b.last + v * Rate
    BY <1>1, <1>3, TokenBucketAssumption
  <2>4. (a + c.tokens) * Second <= k + Rate * c.last
    BY <1>1, <1>2, <2>1, <2>2, <2>3, TokenBucketAssumption
  <2> QED  BY <1>1, <2>4 DEF c
<1>4. CASE ~(n > 0)
  BY <1>1, <1>4 DEF c
<1> QED  BY <1>1, <1>3, <1>4

(* The bucket a call finds is paid for, also when the stored one was lost or *)
(* has expired: by then the time since its timestamp pays for a full one.    *)
LEMMA FoundPaid ==
    ASSUME IInv, Timely, NEW s \in (clock - MaxLag)..clock, s \in 0..MaxClock
    PROVE  LET b == Found(s) IN
           /\ b \in Bucket
           /\ b.last <= clock
           /\ (admitted + b.tokens) * Second <= (Burst * Second + Forgiven) + Rate * b.last
           /\ b.tokens < 1 => b = bucket /\ bucket # None
<1> USE DEF IInv
<1>1. /\ admitted \in Nat /\ clock \in Nat /\ restarts \in Nat
      /\ Burst \in Nat \ {0} /\ Second \in Nat \ {0} /\ Rate \in Nat \ {0} /\ MaxLag \in Nat
  BY TokenBucketAssumption DEF LimiterTypeOK
<1>2. Burst * Second \in Nat /\ Rate * MaxLag \in Nat /\ Forgiven \in Nat /\ Rate * s \in Nat
  <2>1. Burst * Second \in Nat /\ Rate * MaxLag \in Nat /\ Rate * s \in Nat
    BY <1>1, Product
  <2>2. Burst * Second + Rate * MaxLag \in Nat
    BY <2>1
  <2> QED  BY <1>1, <2>1, <2>2, Product DEF Forgiven
<1>3. CASE bucket # None /\ clock < bucket.expires
  <2>1. Found(s) = bucket
    BY <1>3 DEF Found
  <2>2. bucket \in Bucket /\ bucket.last <= clock
    BY <1>3 DEF LimiterTypeOK, Credit
  <2>3. (admitted + bucket.tokens) * Second <= Burst * Second + Rate * bucket.last + Forgiven
    BY <1>3 DEF Credit, Forgiven
  <2>4. Rate * bucket.last \in Nat /\ (admitted + bucket.tokens) * Second \in Nat
    BY <1>1, <2>2, Product
  <2> HIDE DEF Bucket
  <2>5. (admitted + bucket.tokens) * Second <= (Burst * Second + Forgiven) + Rate * bucket.last
    BY <1>2, <2>3, <2>4
  <2> QED  BY <1>3, <2>1, <2>2, <2>5
<1>4. CASE ~(bucket # None /\ clock < bucket.expires)
  <2>1. Found(s) = [tokens |-> Burst, last |-> s, expires |-> clock]
    BY <1>4 DEF Found
  <2>2. admitted * Second <= Rate * s + Forgiven
    <3>1. CASE bucket = None
      <4>1. admitted * Second <= Rate * (clock - MaxLag) + Forgiven
        BY <3>1 DEF Credit, Forgiven
      <4>2. clock - MaxLag \in Nat /\ clock - MaxLag <= s
        BY <1>1 DEF LimiterTypeOK
      <4>3. Rate * (clock - MaxLag) <= Rate * s /\ Rate * (clock - MaxLag) \in Nat
        BY <1>1, <4>2, Product
      <4>4. admitted * Second \in Nat
        BY <1>1, Product
      <4> QED  BY <1>2, <4>1, <4>3, <4>4
    <3>2. CASE bucket # None
      <4>1. /\ bucket.last \in Nat /\ bucket.tokens \in Nat /\ bucket.expires \in Nat
            /\ bucket.last + Ttl <= bucket.expires /\ bucket.expires <= clock
        BY <1>1, <1>4, <3>2 DEF LimiterTypeOK, Credit
      <4>2. (admitted + bucket.tokens) * Second <= Burst * Second + Rate * bucket.last + Forgiven
        BY <3>2 DEF Credit, Forgiven
      <4>3. admitted * Second <= (admitted + bucket.tokens) * Second
        BY <1>1, <4>1, Product
      <4>4. Ttl \in Nat /\ 2 * (Burst * Second) < Rate * Ttl + Rate
        <5>1. Burst * Second * 2 \in Nat /\ Burst * Second * 2 = 2 * (Burst * Second)
          BY <1>2
        <5> QED  BY <1>1, <5>1, Quotient DEF Ttl
      <4>5. Rate * Ttl + Rate * bucket.last <= Rate * s + Rate * MaxLag
        <5>1. Ttl + bucket.last \in Nat /\ s + MaxLag \in Nat /\ Ttl + bucket.last <= s + MaxLag
          BY <1>1, <4>1, <4>4
        <5>2. Rate * (Ttl + bucket.last) <= Rate * (s + MaxLag)
          BY <1>1, <5>1, Product
        <5> QED  BY <1>1, <4>1, <4>4, <5>2
      <4>6. Rate * MaxLag + Rate <= Burst * Second
        BY <1>1 DEF Timely
      <4>7. admitted * Second \in Nat /\ (admitted + bucket.tokens) * Second \in Nat
            /\ Rate * bucket.last \in Nat /\ Rate * Ttl \in Nat
        BY <1>1, <4>1, <4>4, Product
      <4> QED  BY <1>1, <1>2, <4>2, <4>3, <4>4, <4>5, <4>6, <4>7
    <3> QED  BY <3>1, <3>2
  <2>3. (admitted + Burst) * Second = admitted * Second + Burst * Second
    BY <1>1
  <2>4. admitted * Second \in Nat
    BY <1>1, Product
  <2>5. (admitted + Burst) * Second <= (Burst * Second + Forgiven) + Rate * s
    BY <1>2, <2>2, <2>3, <2>4
  <2>6. s \in Nat /\ s <= clock
    BY <1>1
  <2> QED  BY <1>1, <2>1, <2>5, <2>6
<1> QED  BY <1>3, <1>4

(* One run of the script.  spent is the token it hands out. *)
LEMMA ScriptPaid ==
    ASSUME IInv, Timely, ExactRefill, NEW s \in (clock - MaxLag)..clock, s \in 0..MaxClock
    PROVE  LET c == AfterScript(s)
               spent == IF Allows(s) THEN 1 ELSE 0 IN
           /\ c \in Bucket
           /\ c.last <= clock
           /\ c.last + Ttl <= c.expires
           /\ (admitted + spent + c.tokens) * Second
                <= Burst * Second + Rate * c.last + Forgiven
<1> DEFINE b == Found(s)
           f == Refilled(b, s)
           k == Burst * Second + Forgiven
<1>1. /\ admitted \in Nat /\ clock \in Nat /\ restarts \in Nat
      /\ Burst \in Nat \ {0} /\ Second \in Nat \ {0} /\ Rate \in Nat \ {0} /\ MaxLag \in Nat
  BY TokenBucketAssumption DEF LimiterTypeOK, IInv
<1>2. Burst * Second \in Nat /\ Forgiven \in Nat /\ Ttl \in Nat
  <2>1. Burst * Second \in Nat /\ Rate * MaxLag \in Nat
    BY <1>1, Product
  <2>2. Burst * Second + Rate * MaxLag \in Nat /\ Burst * Second * 2 \in Nat
    BY <2>1
  <2> QED  BY <1>1, <2>1, <2>2, Product, Quotient DEF Forgiven, Ttl
<1>3. /\ b \in Bucket /\ b.last <= clock
      /\ (admitted + b.tokens) * Second <= k + Rate * b.last
      /\ b.tokens < 1 => b = bucket /\ bucket # None
  BY FoundPaid
<1>4. k \in Int /\ s <= clock
  BY <1>1, <1>2
<1> HIDE DEF b, k
<1>5. /\ f \in Bucket /\ f.expires = b.expires
      /\ \A x \in Nat : b.last <= x /\ s <= x => f.last <= x
      /\ (admitted + f.tokens) * Second <= k + Rate * f.last
      /\ f.tokens < 1 => f = b
  BY <1>1, <1>3, <1>4, RefillPaid
<1>6. f.last <= clock
  BY <1>1, <1>3, <1>4, <1>5
<1> HIDE DEF f
<1>7. CASE f.tokens >= 1
  <2> DEFINE c == [f EXCEPT !.tokens = f.tokens - 1, !.expires = clock + Ttl]
  <2>1. Allows(s) /\ AfterScript(s) = c
    BY <1>7 DEF Allows, AfterScript, f, b
  <2>2. c.tokens = f.tokens - 1 /\ c.last = f.last /\ c.expires = clock + Ttl
    BY <1>5
  <2>3. f.tokens - 1 \in 0..Burst /\ clock + Ttl \in Nat
    BY <1>1, <1>2, <1>5, <1>7
  <2>4. c \in Bucket
    BY <1>5, <2>3, Zenon
  <2>5. admitted + 1 + c.tokens = admitted + f.tokens
    BY <1>1, <1>5, <2>2
  <2>6. Rate * f.last \in Nat
    BY <1>1, <1>5, Product
  <2>7. (admitted + 1 + c.tokens) * Second <= Burst * Second + Rate * c.last + Forgiven
    BY <1>2, <1>5, <2>2, <2>5, <2>6 DEF k
  <2>8. c.last <= clock /\ c.last + Ttl <= c.expires
    BY <1>1, <1>2, <1>5, <1>6, <2>2
  <2> HIDE DEF c
  <2> QED  BY <2>1, <2>4, <2>7, <2>8
<1>8. CASE ~(f.tokens >= 1)
  <2>1. ~Allows(s) /\ AfterScript(s) = f
    BY <1>8 DEF Allows, AfterScript, f, b
  <2>2. f = b /\ b = bucket /\ bucket # None
    BY <1>3, <1>5, <1>8
  <2>3. f.last + Ttl <= f.expires
    BY <2>2 DEF IInv, Credit
  <2>4. (admitted + 0 + f.tokens) * Second <= Burst * Second + Rate * f.last + Forgiven
    <3>1. Rate * f.last \in Nat /\ admitted + 0 + f.tokens = admitted + f.tokens
      BY <1>1, <1>5, Product
    <3> QED  BY <1>2, <1>5, <3>1 DEF k
  <2> QED  BY <1>5, <1>6, <2>1, <2>3, <2>4
<1> QED  BY <1>7, <1>8

(* A limiter that has just started, with no bucket in Redis, satisfies it.   *)
LEMMA InitIInv == LimiterInit => IInv
<1> SUFFICES ASSUME LimiterInit PROVE IInv
  OBVIOUS
<1>1. LimiterTypeOK
  <2>1. script \in BOOLEAN /\ sha \in BOOLEAN /\ bucket \in Bucket \cup {None}
    BY Zenon DEF LimiterInit
  <2>2. /\ pc \in [Requests -> {"idle", "load", "eval", "reload", "retry"}]
        /\ stamp \in [Requests -> 0..MaxClock]
    BY TokenBucketAssumption DEF LimiterInit
  <2>3. /\ clock \in MaxLag..MaxClock /\ admitted \in Nat /\ unavailable \in Nat
        /\ restarts \in 0..MaxRestarts /\ drops \in 0..MaxDrops
    BY TokenBucketAssumption DEF LimiterInit
  <2> QED  BY <2>1, <2>2, <2>3 DEF LimiterInit, LimiterTypeOK
<1>2. Credit
  <2>1. Burst * Second + Rate * MaxLag \in Nat /\ MaxLag - MaxLag = 0
    <3>1. Burst * Second \in Nat /\ Rate * MaxLag \in Nat
      BY TokenBucketAssumption, Product
    <3> QED  BY <3>1, TokenBucketAssumption
  <2>2. 0 * Second <= Rate * 0 + 0 * (Burst * Second + Rate * MaxLag)
    BY <2>1, TokenBucketAssumption
  <2> QED  BY <2>1, <2>2 DEF LimiterInit, Credit
<1> QED  BY <1>1, <1>2 DEF IInv

(* A step that runs no script, loses no bucket and takes no time. *)
LEMMA QuietStep ==
    ASSUME IInv, UNCHANGED <<clock, bucket, admitted, restarts>>,
           \A r \in Requests : pc'[r] # "idle" => stamp'[r] \in (clock - MaxLag)..clock
    PROVE  Credit'
<1>1. Ttl' = Ttl
  BY DEF Ttl
<1> QED  BY <1>1 DEF IInv, Credit

(* A step that runs the script for request r. *)
LEMMA ScriptStep ==
    ASSUME IInv, Timely, ExactRefill, NEW r \in Requests, pc[r] # "idle",
           bucket' = AfterScript(stamp[r]),
           admitted' \in Nat,
           admitted' <= admitted + (IF Allows(stamp[r]) THEN 1 ELSE 0),
           UNCHANGED <<clock, stamp, restarts>>, pc' = [pc EXCEPT ![r] = "idle"]
    PROVE  bucket' \in Bucket /\ Credit'
<1> DEFINE s == stamp[r]
           spent == IF Allows(s) THEN 1 ELSE 0
<1>1. s \in (clock - MaxLag)..clock /\ s \in 0..MaxClock
  BY DEF IInv, Credit, LimiterTypeOK
<1>2. /\ bucket' \in Bucket
      /\ bucket'.last <= clock
      /\ bucket'.last + Ttl <= bucket'.expires
      /\ (admitted + spent + bucket'.tokens) * Second
           <= Burst * Second + Rate * bucket'.last + Forgiven
  BY <1>1, ScriptPaid
<1>3. \A q \in Requests : pc'[q] # "idle" => stamp'[q] \in (clock' - MaxLag)..clock'
  BY DEF IInv, Credit, LimiterTypeOK
<1>4. bucket' # None
  BY <1>2, TokenBucketAssumption
<1>5. (admitted' + bucket'.tokens) * Second <= Burst * Second + Rate * bucket'.last + Forgiven
  <2>1. /\ admitted \in Nat /\ spent \in Nat /\ bucket'.tokens \in Nat /\ bucket'.last \in Nat
        /\ Second \in Nat /\ Rate \in Nat /\ Burst \in Nat /\ MaxLag \in Nat /\ restarts \in Nat
    BY <1>2, TokenBucketAssumption DEF IInv, LimiterTypeOK
  <2>2. (admitted' + bucket'.tokens) * Second <= (admitted + spent + bucket'.tokens) * Second
    BY <2>1, Product
  <2>3. Burst * Second + Rate * bucket'.last + Forgiven \in Int
    <3>1. Burst * Second \in Nat /\ Rate * bucket'.last \in Nat /\ Rate * MaxLag \in Nat
      BY <2>1, Product
    <3>2. Forgiven \in Nat
      BY <2>1, <3>1, Product DEF Forgiven
    <3> QED  BY <3>1, <3>2
  <2>4. (admitted' + bucket'.tokens) * Second \in Int
        /\ (admitted + spent + bucket'.tokens) * Second \in Int
    BY <2>1, Product
  <2> QED  BY <1>2, <2>2, <2>3, <2>4
<1> QED  BY <1>2, <1>3, <1>4, <1>5 DEF Credit, Forgiven, Ttl

(* Type correctness of a step, but for the bucket. *)
RestTypeOK ==
    /\ clock \in MaxLag..MaxClock
    /\ script \in BOOLEAN
    /\ sha \in BOOLEAN
    /\ pc \in [Requests -> {"idle", "load", "eval", "reload", "retry"}]
    /\ stamp \in [Requests -> 0..MaxClock]
    /\ admitted \in Nat
    /\ unavailable \in Nat
    /\ deniedAt \in {None} \cup 0..MaxClock
    /\ restarts \in 0..MaxRestarts
    /\ drops \in 0..MaxDrops

(* Every step of the middleware and of Redis keeps the types of all but the  *)
(* bucket.                                                                   *)
LEMMA StepRestType == LimiterTypeOK /\ [LimiterNext]_vars => RestTypeOK'
<1> SUFFICES ASSUME LimiterTypeOK, [LimiterNext]_vars PROVE RestTypeOK'
  OBVIOUS
<1> USE TokenBucketAssumption DEF LimiterTypeOK, RestTypeOK, redisVars
<1>1. ASSUME NEW r \in Requests, dispatch(r) PROVE RestTypeOK'
  <2>1. stamp' \in [Requests -> 0..MaxClock]
    BY <1>1 DEF dispatch
  <2>2. pc' \in [Requests -> {"idle", "load", "eval", "reload", "retry"}]
    BY <1>1 DEF dispatch, Goto
  <2> QED  BY <1>1, <2>1, <2>2 DEF dispatch
<1>2. ASSUME NEW r \in Requests, ensure_lua_loaded(r) PROVE RestTypeOK'
  BY <1>2 DEF ensure_lua_loaded, Goto
<1>3. ASSUME NEW r \in Requests, evalsha(r) PROVE RestTypeOK'
  <2>1. admitted' \in Nat
    BY <1>3 DEF evalsha
  <2>2. deniedAt' \in {None} \cup 0..MaxClock
    BY <1>3 DEF evalsha
  <2> QED  BY <1>3, <2>1, <2>2 DEF evalsha, Goto
<1>4. ASSUME NEW r \in Requests, noscript(r) PROVE RestTypeOK'
  <2>1. sha' \in BOOLEAN
    BY <1>4, Zenon DEF noscript
  <2>2. unavailable' \in Nat
    BY <1>4 DEF noscript, fail_closed
  <2>3. pc' \in [Requests -> {"idle", "load", "eval", "reload", "retry"}]
    BY <1>4 DEF noscript, fail_closed, Goto
  <2>4. UNCHANGED <<clock, script, stamp, admitted, deniedAt, restarts, drops>>
    BY <1>4 DEF noscript, fail_closed
  <2> QED  BY <2>1, <2>2, <2>3, <2>4
<1>5. ASSUME NEW r \in Requests, Drop(r) PROVE RestTypeOK'
  <2>1. deniedAt' \in {None} \cup 0..MaxClock
    BY <1>5 DEF Drop
  <2>2. script' \in BOOLEAN
    BY <1>5, Zenon DEF Drop
  <2> QED  BY <1>5, <2>1, <2>2 DEF Drop, fail_closed, Goto
<1>6. ASSUME Restart PROVE RestTypeOK'
  <2>1. script' \in BOOLEAN
    BY <1>6, Zenon DEF Restart
  <2> QED  BY <1>6, <2>1 DEF Restart
<1>7. ASSUME Tick PROVE RestTypeOK'
  BY <1>7 DEF Tick
<1>8. ASSUME UNCHANGED vars PROVE RestTypeOK'
  BY <1>8 DEF vars
<1> QED  BY <1>1, <1>2, <1>3, <1>4, <1>5, <1>6, <1>7, <1>8 DEF LimiterNext, RequestStep

(* Every step keeps the bucket well typed and paid for. *)
LEMMA StepIInv == ExactRefill /\ Timely /\ IInv /\ [LimiterNext]_vars => IInv'
<1> SUFFICES ASSUME ExactRefill, Timely, IInv, [LimiterNext]_vars PROVE IInv'
  OBVIOUS
<1>0. RestTypeOK'
  BY StepRestType DEF IInv
<1> SUFFICES bucket' \in Bucket \cup {None} /\ Credit'
  BY <1>0 DEF RestTypeOK, LimiterTypeOK, IInv
<1>t. /\ bucket \in Bucket \cup {None}
      /\ pc \in [Requests -> {"idle", "load", "eval", "reload", "retry"}]
      /\ stamp \in [Requests -> 0..MaxClock]
      /\ \A r \in Requests : pc[r] # "idle" => stamp[r] \in (clock - MaxLag)..clock
  BY DEF IInv, LimiterTypeOK, Credit
<1> USE DEF redisVars
<1>1. ASSUME NEW r \in Requests, dispatch(r) PROVE bucket' \in Bucket \cup {None} /\ Credit'
  <2>1. UNCHANGED <<clock, bucket, admitted, restarts>>
    BY <1>1 DEF dispatch
  <2>2. \A q \in Requests : pc'[q] # "idle" => stamp'[q] \in (clock - MaxLag)..clock
    BY <1>1, <1>t DEF dispatch, Goto
  <2> QED  BY <1>t, <2>1, <2>2, QuietStep
<1>2. ASSUME NEW r \in Requests, ensure_lua_loaded(r) PROVE bucket' \in Bucket \cup {None} /\ Credit'
  <2>1. UNCHANGED <<clock, bucket, admitted, restarts>>
    BY <1>2 DEF ensure_lua_loaded
  <2>2. \A q \in Requests : pc'[q] # "idle" => stamp'[q] \in (clock - MaxLag)..clock
    BY <1>2, <1>t DEF ensure_lua_loaded, Goto
  <2> QED  BY <1>t, <2>1, <2>2, QuietStep
<1>3. ASSUME NEW r \in Requests, evalsha(r) PROVE bucket' \in Bucket \cup {None} /\ Credit'
  <2>1. pc[r] # "idle" /\ bucket' = AfterScript(stamp[r])
    BY <1>3 DEF evalsha
  <2>2. admitted' \in Nat /\ admitted' <= admitted + (IF Allows(stamp[r]) THEN 1 ELSE 0)
    BY <1>3 DEF evalsha, IInv, LimiterTypeOK
  <2>3. UNCHANGED <<clock, stamp, restarts>> /\ pc' = [pc EXCEPT ![r] = "idle"]
    BY <1>3 DEF evalsha, Goto
  <2> QED  BY <2>1, <2>2, <2>3, ScriptStep, Zenon
<1>4. ASSUME NEW r \in Requests, noscript(r) PROVE bucket' \in Bucket \cup {None} /\ Credit'
  <2>1. UNCHANGED <<clock, bucket, admitted, restarts>>
    BY <1>4 DEF noscript, fail_closed
  <2>2. \A q \in Requests : pc'[q] # "idle" => stamp'[q] \in (clock - MaxLag)..clock
    BY <1>4, <1>t DEF noscript, fail_closed, Goto
  <2> QED  BY <1>t, <2>1, <2>2, QuietStep
<1>5. ASSUME NEW r \in Requests, Drop(r) PROVE bucket' \in Bucket \cup {None} /\ Credit'
  <2>1. /\ UNCHANGED <<clock, stamp, restarts, admitted>>
        /\ pc' = [pc EXCEPT ![r] = "idle"]
        /\ pc[r] # "idle"
    BY <1>5 DEF Drop, fail_closed, Goto
  <2>2. CASE bucket' = AfterScript(stamp[r])
    <3>1. admitted' \in Nat /\ admitted' <= admitted + (IF Allows(stamp[r]) THEN 1 ELSE 0)
      BY <2>1 DEF IInv, LimiterTypeOK
    <3> QED  BY <2>1, <2>2, <3>1, ScriptStep, Zenon
  <2>3. CASE UNCHANGED bucket
    <3>1. \A q \in Requests : pc'[q] # "idle" => stamp'[q] \in (clock - MaxLag)..clock
      BY <2>1, <1>t
    <3> QED  BY <1>t, <2>1, <2>3, <3>1, QuietStep
  <2> QED  BY <1>5, <2>2, <2>3 DEF Drop
<1>6. ASSUME Restart PROVE bucket' \in Bucket \cup {None} /\ Credit'
  <2> DEFINE x == Burst * Second + Rate * MaxLag
  <2>1. /\ UNCHANGED <<clock, pc, stamp, admitted>> /\ bucket' = None /\ restarts' = restarts + 1
    BY <1>6 DEF Restart
  <2>2. /\ admitted \in Nat /\ restarts \in Nat /\ clock \in Nat /\ MaxLag \in Nat
        /\ Burst \in Nat /\ Second \in Nat /\ Rate \in Nat
    BY TokenBucketAssumption DEF IInv, LimiterTypeOK
  <2>3. Burst * Second \in Nat /\ Rate * MaxLag \in Nat /\ Rate * clock \in Nat /\ x \in Nat
    <3>1. Burst * Second \in Nat /\ Rate * MaxLag \in Nat /\ Rate * clock \in Nat
      BY <2>2, Product
    <3> QED  BY <3>1
  <2>4. restarts * x \in Nat /\ restarts' * x = restarts * x + x
    <3> HIDE DEF x
    <3> QED  BY <2>1, <2>2, <2>3, Product
  <2>5. Rate * (clock - MaxLag) = Rate * clock - Rate * MaxLag
    BY <2>2
  <2>6. admitted * Second \in Nat
    BY <2>2, Product
  <2>7. admitted * Second <= Rate * (clock - MaxLag) + restarts' * x
    <3>1. CASE bucket = None
      <4>1. admitted * Second <= Rate * (clock - MaxLag) + restarts * x
        BY <3>1 DEF IInv, Credit
      <4> HIDE DEF x
      <4> QED  BY <2>3, <2>4, <2>5, <2>6, <4>1
    <3>2. CASE bucket # None
      <4>1. (admitted + bucket.tokens) * Second <= Burst * Second + Rate * bucket.last + restarts * x
        BY <3>2 DEF IInv, Credit
      <4>2. bucket.tokens \in Nat /\ bucket.last \in Nat /\ bucket.last <= clock
        BY <3>2 DEF IInv, Credit, LimiterTypeOK
      <4>3. admitted * Second <= (admitted + bucket.tokens) * Second
            /\ (admitted + bucket.tokens) * Second \in Nat
        BY <2>2, <4>2, Product
      <4>4. Rate * bucket.last <= Rate * clock /\ Rate * bucket.last \in Nat
        BY <2>2, <4>2, Product
      <4>5. x = Burst * Second + Rate * MaxLag
        OBVIOUS
      <4> HIDE DEF x
      <4> QED  BY <2>3, <2>4, <2>5, <2>6, <4>1, <4>3, <4>4, <4>5
    <3> QED  BY <3>1, <3>2
  <2> QED  BY <1>t, <2>1, <2>7 DEF Credit
<1>7. ASSUME Tick PROVE bucket' \in Bucket \cup {None} /\ Credit'
  <2>1. /\ UNCHANGED <<bucket, pc, stamp, admitted, restarts>> /\ clock' = clock + 1
        /\ \A r \in Requests : pc[r] # "idle" => clock - stamp[r] < MaxLag
    BY <1>7 DEF Tick
  <2>2. /\ admitted \in Nat /\ clock \in Nat /\ MaxLag \in Nat /\ Rate \in Nat /\ clock >= MaxLag
    BY TokenBucketAssumption DEF IInv, LimiterTypeOK
  <2>3. \A r \in Requests : pc'[r] # "idle" => stamp'[r] \in (clock' - MaxLag)..clock'
    BY <1>t, <2>1, <2>2
  <2>4. Rate * (clock - MaxLag) <= Rate * (clock' - MaxLag)
        /\ Rate * (clock - MaxLag) \in Nat /\ Rate * (clock' - MaxLag) \in Nat
    BY <2>1, <2>2, Product
  <2> DEFINE x == Burst * Second + Rate * MaxLag
  <2>5. restarts * x \in Nat /\ admitted * Second \in Nat
    <3>1. Burst * Second \in Nat /\ Rate * MaxLag \in Nat /\ admitted * Second \in Nat
      BY <2>2, TokenBucketAssumption, Product
    <3>2. x \in Nat /\ restarts \in Nat
      BY <3>1 DEF IInv, LimiterTypeOK
    <3> HIDE DEF x
    <3> QED  BY <3>1, <3>2, Product
  <2>6. bucket = None => admitted * Second <= Rate * (clock' - MaxLag) + restarts * x
    <3> SUFFICES ASSUME bucket = None PROVE admitted * Second <= Rate * (clock' - MaxLag) + restarts * x
      OBVIOUS
    <3>1. admitted * Second <= Rate * (clock - MaxLag) + restarts * x
      BY DEF IInv, Credit
    <3> HIDE DEF x
    <3> QED  BY <2>4, <2>5, <3>1
  <2>7. bucket # None => bucket.last <= clock'
    <3> SUFFICES ASSUME bucket # None PROVE bucket.last <= clock'
      OBVIOUS
    <3>1. bucket.last \in Nat /\ bucket.last <= clock
      BY DEF IInv, Credit, LimiterTypeOK
    <3> QED  BY <2>1, <2>2, <3>1
  <2>8. Ttl' = Ttl
    BY DEF Ttl
  <2> QED  BY <1>t, <2>1, <2>3, <2>6, <2>7, <2>8 DEF Credit, IInv
<1>8. ASSUME UNCHANGED vars PROVE bucket' \in Bucket \cup {None} /\ Credit'
  <2>1. UNCHANGED <<clock, bucket, admitted, restarts>> /\ UNCHANGED <<pc, stamp>>
    BY <1>8 DEF vars
  <2> QED  BY <1>t, <2>1, QuietStep
<1> QED  BY <1>1, <1>2, <1>3, <1>4, <1>5, <1>6, <1>7, <1>8 DEF LimiterNext, RequestStep

(* What Credit says of the bucket bounds the requests admitted so far. *)
LEMMA CreditBounds == IInv => RateBound
<1> SUFFICES ASSUME IInv PROVE admitted * Second <= Allowance
  BY DEF RateBound
<1> DEFINE x == restarts * (Burst * Second + Rate * MaxLag)
<1>1. /\ admitted \in Nat /\ restarts \in Nat /\ clock \in Nat /\ MaxLag \in Nat /\ MaxLag <= clock
      /\ Burst \in Nat /\ Second \in Nat /\ Rate \in Nat
  BY TokenBucketAssumption DEF IInv, LimiterTypeOK
<1>2. Burst * Second \in Nat /\ Rate * clock \in Nat /\ Rate * MaxLag \in Nat /\ admitted * Second \in Nat
  BY <1>1, Product
<1>3. x \in Nat
  BY <1>1, <1>2, Product
<1>4. Allowance = Burst * Second + Rate * clock + x
  BY DEF Allowance
<1>5. CASE bucket = None
  <2>1. admitted * Second <= Rate * (clock - MaxLag) + x
    BY <1>5 DEF IInv, Credit
  <2>2. Rate * (clock - MaxLag) = Rate * clock - Rate * MaxLag
    BY <1>1
  <2> HIDE DEF x
  <2> QED  BY <1>2, <1>3, <1>4, <2>1, <2>2
<1>6. CASE bucket # None
  <2>1. (admitted + bucket.tokens) * Second <= Burst * Second + Rate * bucket.last + x
    BY <1>6 DEF IInv, Credit
  <2>2. bucket.tokens \in Nat /\ bucket.last \in Nat /\ bucket.last <= clock
    BY <1>6 DEF IInv, Credit, LimiterTypeOK
  <2>3. admitted * Second <= (admitted + bucket.tokens) * Second
        /\ (admitted + bucket.tokens) * Second \in Nat
    BY <1>1, <2>2, Product
  <2>4. Rate * bucket.last <= Rate * clock /\ Rate * bucket.last \in Nat
    BY <1>1, <2>2, Product
  <2> HIDE DEF x
  <2> QED  BY <1>2, <1>3, <1>4, <2>1, <2>3, <2>4
<1> QED  BY <1>5, <1>6

-----------------------------------------------------------------------------
(* What holds of every rate and lag, exact refill or not.  No stamp is ahead *)
(* of the clock, so the timestamp of a bucket is not either, nor ahead of    *)
(* the last 429.                                                             *)
Aged ==
    /\ LimiterTypeOK
    /\ \A r \in Requests : pc[r] # "idle" => stamp[r] <= clock
    /\ bucket # None => /\ bucket.last <= clock
                        /\ deniedAt # None => bucket.last <= deniedAt

(* One run of the script: a denial leaves the bucket as it was, for an       *)
(* expired or missing one is found full.                                     *)
LEMMA ScriptShape ==
    ASSUME Aged, NEW s \in 0..MaxClock, s <= clock
    PROVE  LET c == AfterScript(s) IN
           /\ c \in Bucket
           /\ c.last <= clock
           /\ ~Allows(s) => bucket # None /\ c = bucket
<1> DEFINE b == Found(s)
           f == Refilled(b, s)
<1>1. /\ clock \in Nat /\ s \in Nat /\ bucket \in Bucket \cup {None}
      /\ bucket # None => bucket.last <= clock
      /\ Burst \in Nat \ {0} /\ Second \in Nat \ {0} /\ Rate \in Nat \ {0}
  BY TokenBucketAssumption DEF Aged, LimiterTypeOK
<1>2. b \in Bucket /\ b.last <= clock /\ (b.tokens < 1 => bucket # None /\ b = bucket)
  BY <1>1 DEF Found
<1> HIDE DEF b
<1>3. f \in Bucket /\ f.last <= clock /\ (f.tokens < 1 => f = b)
  BY <1>1, <1>2, RefillShape
<1>4. Ttl \in Nat
  <2>1. Burst * Second \in Nat
    BY <1>1, Product
  <2>2. Burst * Second * 2 \in Nat
    BY <2>1
  <2> QED  BY <1>1, <2>2, Quotient DEF Ttl
<1> HIDE DEF f
<1>5. CASE f.tokens >= 1
  <2> DEFINE c == [f EXCEPT !.tokens = f.tokens - 1, !.expires = clock + Ttl]
  <2>1. Allows(s) /\ AfterScript(s) = c
    BY <1>5 DEF Allows, AfterScript, f, b
  <2>2. f.tokens - 1 \in 0..Burst /\ clock + Ttl \in Nat
    BY <1>1, <1>3, <1>4, <1>5
  <2>3. c \in Bucket
    BY <1>3, <2>2, Zenon
  <2>4. c.last = f.last
    BY <1>3
  <2> HIDE DEF c
  <2> QED  BY <1>3, <2>1, <2>3, <2>4
<1>6. CASE ~(f.tokens >= 1)
  <2>1. ~Allows(s) /\ AfterScript(s) = f
    BY <1>6, ZenonT(60) DEF Allows, AfterScript, f, b
  <2> QED  BY <1>2, <1>3, <1>6, <2>1
<1> QED  BY <1>5, <1>6

(* Every step of the middleware and of Redis keeps the ages in order.        *)
LEMMA StepAged == Aged /\ [LimiterNext]_vars => Aged'
<1> SUFFICES ASSUME Aged, [LimiterNext]_vars PROVE Aged'
  OBVIOUS
<1>0. RestTypeOK'
  BY StepRestType DEF Aged
<1>t. /\ bucket \in Bucket \cup {None}
      /\ pc \in [Requests -> {"idle", "load", "eval", "reload", "retry"}]
      /\ stamp \in [Requests -> 0..MaxClock]
      /\ clock \in Nat /\ deniedAt \in {None} \cup 0..MaxClock
      /\ \A r \in Requests : pc[r] # "idle" => stamp[r] <= clock
  BY TokenBucketAssumption DEF Aged, LimiterTypeOK
<1> DEFINE Stamps == \A r \in Requests : pc'[r] # "idle" => stamp'[r] <= clock'
           Hash == /\ bucket' \in Bucket \cup {None}
                   /\ bucket' # None => /\ bucket'.last <= clock'
                                        /\ deniedAt' # None => bucket'.last <= deniedAt'
<1> SUFFICES Stamps /\ Hash
  BY <1>0 DEF RestTypeOK, LimiterTypeOK, Aged
<1> USE DEF redisVars
<1>1. ASSUME UNCHANGED <<clock, bucket, deniedAt>> PROVE Hash
  BY <1>1 DEF Aged, LimiterTypeOK
<1>2. ASSUME NEW r \in Requests, pc[r] # "idle", bucket' = AfterScript(stamp[r]),
             UNCHANGED clock,
             deniedAt' \in IF Allows(stamp[r]) THEN {None} ELSE {deniedAt, clock}
      PROVE  Hash
  <2>1. stamp[r] \in 0..MaxClock /\ stamp[r] <= clock
    BY <1>2, <1>t
  <2>2. /\ bucket' \in Bucket /\ bucket'.last <= clock
        /\ ~Allows(stamp[r]) => bucket # None /\ bucket' = bucket
    BY <1>2, <2>1, ScriptShape
  <2>3. bucket # None => bucket.last <= clock /\ (deniedAt # None => bucket.last <= deniedAt)
    BY DEF Aged
  <2> QED  BY <1>2, <2>2, <2>3
<1>3. ASSUME NEW r \in Requests, dispatch(r) PROVE Stamps /\ Hash
  <2>1. Hash
    BY <1>1, <1>3 DEF dispatch
  <2>2. Stamps
    BY <1>3, <1>t, TokenBucketAssumption DEF dispatch, Goto
  <2> QED  BY <2>1, <2>2
<1>4. ASSUME NEW r \in Requests, ensure_lua_loaded(r) PROVE Stamps /\ Hash
  <2>1. Hash
    BY <1>1, <1>4 DEF ensure_lua_loaded
  <2>2. Stamps
    BY <1>4, <1>t DEF ensure_lua_loaded, Goto
  <2> QED  BY <2>1, <2>2
<1>5. ASSUME NEW r \in Requests, evalsha(r) PROVE Stamps /\ Hash
  <2>1. Hash
    BY <1>2, <1>5 DEF evalsha
  <2>2. Stamps
    BY <1>5, <1>t DEF evalsha, Goto
  <2> QED  BY <2>1, <2>2
<1>6. ASSUME NEW r \in Requests, noscript(r) PROVE Stamps /\ Hash
  <2>1. Hash
    BY <1>1, <1>6 DEF noscript
  <2>2. Stamps
    BY <1>6, <1>t DEF noscript, fail_closed, Goto
  <2> QED  BY <2>1, <2>2
<1>7. ASSUME NEW r \in Requests, Drop(r) PROVE Stamps /\ Hash
  <2>1. Stamps
    BY <1>7, <1>t DEF Drop, fail_closed, Goto
  <2>2. pc[r] # "idle" /\ UNCHANGED clock
    BY <1>7 DEF Drop
  <2>3. CASE UNCHANGED <<bucket, deniedAt>>
    BY <1>1, <2>1, <2>2, <2>3
  <2>4. CASE /\ bucket' = AfterScript(stamp[r])
             /\ deniedAt' = IF Allows(stamp[r]) THEN None ELSE deniedAt
    BY <1>2, <2>1, <2>2, <2>4
  <2> QED  BY <1>7, <2>3, <2>4, Zenon DEF Drop
<1>8. ASSUME Restart PROVE Stamps /\ Hash
  BY <1>8, <1>t DEF Restart
<1>9. ASSUME Tick PROVE Stamps /\ Hash
  <2>1. UNCHANGED <<bucket, deniedAt, pc, stamp>> /\ clock' = clock + 1
    BY <1>9 DEF Tick
  <2>2. \A r \in Requests : stamp[r] \in Nat
    BY <1>t, TokenBucketAssumption
  <2>3. Stamps
    BY <1>t, <2>1, <2>2
  <2>4. bucket # None => /\ bucket.last \in Nat /\ bucket.last <= clock
                         /\ deniedAt # None => bucket.last <= deniedAt
    BY <1>t DEF Aged
  <2>5. Hash
    BY <1>t, <2>1, <2>4
  <2> QED  BY <2>3, <2>5
<1>10. ASSUME UNCHANGED vars PROVE Stamps /\ Hash
  <2>1. Hash
    BY <1>1, <1>10 DEF vars
  <2> QED  BY <1>10, <1>t, <2>1 DEF vars
<1> QED  BY <1>3, <1>4, <1>5, <1>6, <1>7, <1>8, <1>9, <1>10 DEF LimiterNext, RequestStep

(* A second after the bucket's timestamp the script refills at least one     *)
(* token, and Retry-After is at least a second.                              *)
LEMMA WaitRefills == Aged => RetryAfterHonoured
<1> SUFFICES ASSUME Aged, deniedAt # None, bucket # None
             PROVE  Refilled(bucket, deniedAt + RetryAfter).tokens >= 1
  BY DEF RetryAfterHonoured
<1>1. /\ bucket \in Bucket /\ deniedAt \in Nat /\ bucket.last <= deniedAt
      /\ Second \in Nat \ {0} /\ Rate \in Nat \ {0}
  BY TokenBucketAssumption DEF Aged, LimiterTypeOK
<1>2. RetryAfter \in Nat /\ RetryAfter >= Second
  <2> DEFINE hint == IF Second \div Rate < 1 THEN 1 ELSE Second \div Rate
             seconds == (hint + Second - 1) \div Second
             n == IF seconds < 1 THEN 1 ELSE seconds
  <2>1. Second \div Rate \in Nat
    BY <1>1, Quotient
  <2>2. hint + Second - 1 \in Nat
    BY <1>1, <2>1
  <2> HIDE DEF hint
  <2>3. seconds \in Nat
    BY <1>1, <2>2, Quotient
  <2> HIDE DEF seconds
  <2>4. n \in Nat /\ 1 <= n
    BY <2>3
  <2> HIDE DEF n
  <2>5. Second * n \in Nat /\ Second * 1 <= Second * n
    BY <1>1, <2>4, Product
  <2>6. RetryAfter = Second * n
    BY Zenon DEF RetryAfter, n, seconds, hint
  <2> QED  BY <1>1, <2>5, <2>6
<1> DEFINE s == deniedAt + RetryAfter
           e == Elapsed(bucket, s)
<1>3. s \in Nat /\ s >= bucket.last + Second
  BY <1>1, <1>2
<1> HIDE DEF s
<1>4. e \in Nat /\ Second <= e
  BY <1>1, <1>3 DEF Elapsed
<1> HIDE DEF e
<1>5. Tokens(e) \in Nat /\ Tokens(e) > 0
  <2>1. Second * Rate <= e * Rate /\ e * Rate \in Nat /\ Second * Rate \in Nat
    BY <1>1, <1>4, Product
  <2>2. Second <= Second * Rate
    BY <1>1
  <2>3. Tokens(e) \in Nat /\ e * Rate < Second * Tokens(e) + Second
    BY <1>1, <2>1, Quotient, Zenon DEF Tokens
  <2>4. ASSUME Tokens(e) = 0 PROVE FALSE
    <3>1. Second * Tokens(e) = 0
      BY <1>1, <2>4
    <3>2. e * Rate < Second
      BY <1>1, <2>3, <3>1
    <3> QED  BY <1>1, <2>1, <2>2, <3>2
  <2> QED  BY <2>3, <2>4
<1>6. Tokens(e) > 0 => Refilled(bucket, s).tokens >= 1
  BY <1>1, <1>3, RefillShape DEF e
<1> QED  BY <1>5, <1>6 DEF s

(* dispatch and token_bucket.lua keep the bucket between zero and its burst  *)
(* capacity and every count in its range, for every rate, burst and lag.     *)
THEOREM LimiterTyped == LimiterSpec => []LimiterTypeOK
<1>1. LimiterInit => Aged
  BY InitIInv DEF LimiterInit, IInv, Aged
<1>2. Aged => LimiterTypeOK
  BY DEF Aged
<1> QED  BY <1>1, <1>2, StepAged, PTL DEF LimiterSpec

(* FR-011 for every rate, burst and lag and any number of requests: the      *)
(* Retry-After of a 429 names a time by which the script has refilled a      *)
(* token, whatever stamps, drops and restarts came between; whether the      *)
(* refill is exact does not matter.                                          *)
THEOREM RetryAfterTruthful == LimiterSpec => []RetryAfterHonoured
<1>1. LimiterInit => Aged
  BY InitIInv DEF LimiterInit, IInv, Aged
<1> QED  BY <1>1, StepAged, WaitRefills, PTL DEF LimiterSpec

(* Every token in the bucket that token_bucket.lua keeps is paid for by time *)
(* that has passed, whatever the stamps, drops and restarts.                 *)
THEOREM Paid == ASSUME ExactRefill, Timely PROVE LimiterSpec => []Credit
<1>1. IInv => Credit
  BY DEF IInv
<1>2. ExactRefill /\ Timely
  OBVIOUS
<1>3. IInv /\ [LimiterNext]_vars => IInv'
  BY <1>2, StepIInv
<1> QED  BY InitIInv, <1>1, <1>3, PTL DEF LimiterSpec

(* FR-010 for every rate whose refill is exact: a tenant is admitted at most *)
(* its burst and its rate, for any number of requests in flight.             *)
THEOREM RateLimited == ASSUME ExactRefill, Timely PROVE LimiterSpec => []RateBound
<1>2. ExactRefill /\ Timely
  OBVIOUS
<1>3. IInv /\ [LimiterNext]_vars => IInv'
  BY <1>2, StepIInv
<1> QED  BY InitIInv, CreditBounds, <1>3, PTL DEF LimiterSpec

(* The script's refill is exact when the rate divides the second: a token    *)
(* costs whole milliseconds.  The tenants' default of 200 does.              *)
THEOREM SlowRatesExact ==
    ASSUME NEW k \in Nat, Second = k * Rate PROVE ExactRefill
<1> SUFFICES ASSUME NEW e \in 0..MaxClock
             PROVE  Covered(Tokens(e)) * Rate >= Tokens(e) * Second
  BY DEF ExactRefill
<1> DEFINE t == Tokens(e)
<1>1. Second \in Nat \ {0} /\ Rate \in Nat \ {0} /\ e \in Nat
  BY TokenBucketAssumption
<1>2. t \in Nat
  <2>1. e * Rate \in Nat
    BY <1>1, Product
  <2> QED  BY <1>1, <2>1, Quotient DEF Tokens
<1> HIDE DEF t
<1>3. t * k \in Nat /\ t * Second = (t * k) * Rate
  BY <1>1, <1>2, Product
<1>4. Covered(t) = t * k
  <2> DEFINE n == t * k
  <2>1. n \in Nat /\ t * Second = n * Rate
    BY <1>3
  <2> HIDE DEF n
  <2>2. (n * Rate) \div Rate = n
    BY <1>1, <2>1
  <2>3. Covered(t) = n
    BY <2>1, <2>2 DEF Covered
  <2> QED  BY <2>3 DEF n
<1>5. Covered(t) * Rate >= t * Second
  <2>1. t * Second \in Nat
    BY <1>1, <1>2, Product
  <2> QED  BY <1>3, <1>4, <2>1
<1> QED  BY <1>5 DEF t

(* And when it is a multiple of it: every millisecond is whole tokens.  The  *)
(* default of 2000 is.                                                       *)
THEOREM FastRatesExact ==
    ASSUME NEW k \in Nat, Rate = k * Second PROVE ExactRefill
<1> SUFFICES ASSUME NEW e \in 0..MaxClock
             PROVE  Covered(Tokens(e)) * Rate >= Tokens(e) * Second
  BY DEF ExactRefill
<1>1. Second \in Nat \ {0} /\ Rate \in Nat \ {0} /\ e \in Nat
  BY TokenBucketAssumption
<1> DEFINE n == e * k
<1>2. n \in Nat /\ e * Rate = n * Second
  BY <1>1, Product
<1>3. Tokens(e) = n
  <2> HIDE DEF n
  <2>1. (n * Second) \div Second = n
    BY <1>1, <1>2
  <2> QED  BY <1>2, <2>1 DEF Tokens
<1>4. Covered(n) = e
  <2>1. n * Second = e * Rate
    BY <1>2
  <2>2. (e * Rate) \div Rate = e
    BY <1>1
  <2> HIDE DEF n
  <2> QED  BY <2>1, <2>2 DEF Covered
<1>5. e * Rate \in Nat
  BY <1>1, Product
<1> HIDE DEF n
<1> QED  BY <1>2, <1>3, <1>4, <1>5


-----------------------------------------------------------------------------
(* The script is missing where the middleware expects it only after a        *)
(* restart, and after a second one when it has just been loaded again.       *)
Reloaded ==
    /\ restarts \in Nat /\ drops \in Nat
    /\ sha => script \/ restarts >= 1
    /\ \A r \in Requests :
         /\ pc[r] = "eval" => script \/ restarts >= 1
         /\ pc[r] = "reload" => restarts >= 1
         /\ pc[r] = "retry" => restarts >= 1 /\ (script \/ restarts >= 2)
    /\ RestartIsInvisible

LEMMA StepReloaded == LimiterTypeOK /\ Reloaded /\ [LimiterNext]_vars => Reloaded'
<1> SUFFICES ASSUME LimiterTypeOK, Reloaded, [LimiterNext]_vars PROVE Reloaded'
  OBVIOUS
<1>0. /\ restarts \in Nat /\ drops \in Nat /\ unavailable \in Nat
      /\ pc \in [Requests -> {"idle", "load", "eval", "reload", "retry"}]
  BY DEF Reloaded, LimiterTypeOK
<1>1. ASSUME NEW r \in Requests, dispatch(r) PROVE Reloaded'
  BY <1>0, <1>1 DEF Reloaded, RestartIsInvisible, dispatch, Goto, redisVars
<1>2. ASSUME NEW r \in Requests, ensure_lua_loaded(r) PROVE Reloaded'
  BY <1>0, <1>2 DEF Reloaded, RestartIsInvisible, ensure_lua_loaded, Goto
<1>3. ASSUME NEW r \in Requests, evalsha(r) PROVE Reloaded'
  <2>1. UNCHANGED <<script, sha, unavailable, restarts, drops>> /\ pc' = [pc EXCEPT ![r] = "idle"]
    BY <1>3 DEF evalsha, Goto
  <2> QED BY <1>0, <2>1 DEF Reloaded, RestartIsInvisible
<1>4. ASSUME NEW r \in Requests, noscript(r) PROVE Reloaded'
  <2>1. UNCHANGED <<script, restarts, drops>> /\ ~script
    BY <1>4 DEF noscript, redisVars
  <2>2. CASE pc[r] = "eval"
    <3>1. sha' = FALSE /\ unavailable' = unavailable /\ pc' = [pc EXCEPT ![r] = "reload"]
      BY <1>4, <2>2 DEF noscript, Goto
    <3> QED BY <1>0, <2>1, <2>2, <3>1 DEF Reloaded, RestartIsInvisible
  <2>3. CASE pc[r] # "eval"
    <3>1. pc[r] = "retry" /\ sha' = sha /\ pc' = [pc EXCEPT ![r] = "idle"]
      BY <1>4, <2>3 DEF noscript, fail_closed, Goto
    <3> QED BY <1>0, <2>1, <3>1 DEF Reloaded, RestartIsInvisible
  <2> QED BY <2>2, <2>3
<1>5. ASSUME NEW r \in Requests, Drop(r) PROVE Reloaded'
  <2>1. UNCHANGED <<sha, restarts>> /\ drops' = drops + 1 /\ pc' = [pc EXCEPT ![r] = "idle"]
    BY <1>5 DEF Drop, fail_closed, Goto
  <2>2. script => script'
    BY <1>5, Zenon DEF Drop, redisVars
  <2> QED BY <1>0, <2>1, <2>2 DEF Reloaded, RestartIsInvisible
<1>6. CASE Restart
  <2>1. restarts' = restarts + 1 /\ UNCHANGED <<sha, pc, unavailable, drops>>
    BY <1>6 DEF Restart
  <2> QED BY <1>0, <2>1 DEF Reloaded, RestartIsInvisible
<1>7. CASE Tick \/ UNCHANGED vars
  <2>1. UNCHANGED <<script, sha, pc, unavailable, restarts, drops>>
    BY <1>7 DEF Tick, vars, redisVars
  <2> QED BY <2>1 DEF Reloaded, RestartIsInvisible
<1> QED BY <1>1, <1>2, <1>3, <1>4, <1>5, <1>6, <1>7 DEF LimiterNext, RequestStep

(* RateLimitMiddleware.dispatch's reload and retry after NOSCRIPT: for any   *)
(* requests in flight and any number of restarts, a request is answered 503  *)
(* only after a dropped connection or a second restart.                      *)
THEOREM RestartCostsNothing == LimiterSpec => []RestartIsInvisible
<1>1. LimiterInit => Reloaded
  BY DEF LimiterInit, Reloaded, RestartIsInvisible
<1>2. Reloaded => RestartIsInvisible
  BY DEF Reloaded
<1> QED BY <1>1, <1>2, StepReloaded, LimiterTyped, PTL DEF LimiterSpec
=============================================================================
