------------------------ MODULE TenantConfigCache ------------------------
(* The per-tenant rate-limit configuration: the tenant_config table with its   *)
(* audit and notify triggers, the time-limited in-process cache the requests   *)
(* read it through, and the LISTEN consumer that invalidates the cache.        *)
(* Version n of a tenant's configuration is what its n-th committed change     *)
(* left; version 0 is "no row", for which the defaults are served.             *)
EXTENDS Naturals, Sequences, FiniteSets

CONSTANTS
    Tenants,
    Readers,        \* concurrent requests that need their tenant's configuration
    Ttl,            \* lifetime of a cache entry
    ReadLag,        \* longest time from a SELECT's snapshot to the reader's put
    Capacity,       \* entries the cache holds
    CorrIds,        \* correlation ids the service principals set for a change
    MaxClock,       \* bound: how long the clock runs
    MaxChanges,     \* bound: changes of all tenants together
    None

ASSUME CacheAssumption ==
    /\ Ttl \in Nat
    /\ ReadLag \in Nat
    /\ Capacity \in Nat \ {0}

VARIABLES
    clock,          \* monotonic time
    commits,        \* per tenant, the times its tenant_config row changed
    audit,          \* audit rows of kind tenant_config_change
    cache,          \* _TTLCache._data: per tenant an entry or None
    reader,         \* per request, where it is in get_for_tenant
    answer,         \* what a request last got at this time: tenant and version
    listener,       \* the consumer: off, connecting, listening, or parked deaf
    inbox,          \* notifications on their way to the consumer, in order
    settled         \* history: no older version of the tenant's row is held anywhere

vars == <<clock, commits, audit, cache, reader, answer, listener, inbox, settled>>

Entry == [version : Nat, expires : Nat]
Idle == [pc |-> "idle"]
Reading == [pc : {"select"}, tenant : Tenants]
Read == [pc : {"put"}, tenant : Tenants, version : Nat, since : Nat]

(* Every variable has its type.                                                *)
CacheTypeOK ==
    /\ clock \in Nat
    /\ commits \in [Tenants -> Seq(Nat)]
    /\ \A a \in audit : a.tenant \in Tenants /\ a.version \in Nat
    /\ cache \in [Tenants -> Entry \cup {None}]
    /\ reader \in [Readers -> {Idle} \cup Reading \cup Read]
    /\ answer \in {<<>>} \cup (Tenants \X Nat)
    /\ listener \in {"off", "connecting", "listening", "deaf"}
    /\ inbox \in Seq(Tenants)
    /\ settled \in [Tenants -> BOOLEAN]

Version(t) == Len(commits[t])
Changes == Cardinality(UNION {{t} \X (1..Version(t)) : t \in Tenants})
Cached == {t \in Tenants : cache[t] # None}

Init ==
    /\ clock = 0
    /\ commits = [t \in Tenants |-> <<>>]
    /\ audit = {}
    /\ cache = [t \in Tenants |-> None]
    /\ reader = [r \in Readers |-> Idle]
    /\ answer = <<>>
    /\ listener = "off"
    /\ inbox = <<>>
    /\ settled = [t \in Tenants |-> TRUE]
-----------------------------------------------------------------------------
(* The table                                                                   *)

(* Mutant: the audit trigger inserts ON CONFLICT DO NOTHING.                   *)
change_unaudited(t, c) ==
    LET id == IF c = None THEN <<t, Version(t) + 1>> ELSE <<c>> IN
    /\ Changes < MaxChanges
    /\ commits' = [commits EXCEPT ![t] = Append(@, clock)]
    /\ audit' = IF \E a \in audit : a.corr = id THEN audit
                ELSE audit \cup {[corr |-> id, tenant |-> t, version |-> Version(t) + 1]}
    /\ inbox' = IF listener = "listening" THEN Append(inbox, t) ELSE inbox
    /\ settled' = [settled EXCEPT ![t] = FALSE]
    /\ UNCHANGED <<clock, cache, reader, answer, listener>>

(* A service principal inserts, updates or deletes the row of tenant t.  The   *)
(* audit trigger writes its row in the same transaction, under the correlation *)
(* id c of the connection or, when none is set (c = None), under a random one: *)
(* an id already used for this kind violates UNIQUE (correlation_id, kind) and *)
(* the change is rolled back.  The commit notifies whoever is listening.       *)
change(t, c) ==
    LET id == IF c = None THEN <<t, Version(t) + 1>> ELSE <<c>> IN
    /\ Changes < MaxChanges
    /\ \A a \in audit : a.corr # id
    /\ commits' = [commits EXCEPT ![t] = Append(@, clock)]
    /\ audit' = audit \cup {[corr |-> id, tenant |-> t, version |-> Version(t) + 1]}
    /\ inbox' = IF listener = "listening" THEN Append(inbox, t) ELSE inbox
    /\ settled' = [settled EXCEPT ![t] = FALSE]
    /\ UNCHANGED <<clock, cache, reader, answer, listener>>
-----------------------------------------------------------------------------
(* The cache                                                                   *)

(* Mutant: get returns what it finds.                                          *)
Expired_never(e) == FALSE

Expired(e) == clock > e.expires

(* _TTLCache.put: at capacity the entry that expires first makes room, even    *)
(* when the tenant already has an entry of its own.                            *)
Oldest == {t \in Cached : \A u \in Cached : cache[t].expires <= cache[u].expires}
With(f, t, n) == [f EXCEPT ![t] = [version |-> n, expires |-> clock + Ttl]]

(* Mutant: put makes no room.                                                  *)
put_unbounded(t, n) == cache' = With(cache, t, n)

put(t, n) ==
    IF Cardinality(Cached) >= Capacity
    THEN \E o \in Oldest : cache' = With([cache EXCEPT ![o] = None], t, n)
    ELSE cache' = With(cache, t, n)
-----------------------------------------------------------------------------
(* A request: TenantConfigRepository.get_for_tenant                            *)

(* The lookup: a live entry is the answer; an expired one is dropped, and on a *)
(* miss the request goes on to the SELECT.                                     *)
get_for_tenant(r, t) ==
    /\ reader[r] = Idle
    /\ IF cache[t] # None /\ ~Expired(cache[t])
       THEN /\ answer' = <<t, cache[t].version>>
            /\ UNCHANGED <<cache, reader>>
       ELSE /\ reader' = [reader EXCEPT ![r] = [pc |-> "select", tenant |-> t]]
            /\ cache' = [cache EXCEPT ![t] = None]
            /\ UNCHANGED answer
    /\ UNCHANGED <<clock, commits, audit, listener, inbox, settled>>

(* The SELECT sees the row as committed now.  The request is suspended until   *)
(* the result and the end of the transaction have come back.                   *)
select(r) ==
    /\ reader[r].pc = "select"
    /\ LET t == reader[r].tenant IN
       reader' = [reader EXCEPT ![r] =
           [pc |-> "put", tenant |-> t, version |-> Version(t), since |-> clock]]
    /\ UNCHANGED <<clock, commits, audit, cache, answer, listener, inbox, settled>>

(* The database fails the read: the exception leaves get_for_tenant, nothing   *)
(* is cached.                                                                  *)
select_fails(r) ==
    /\ reader[r].pc \in {"select", "put"}
    /\ reader' = [reader EXCEPT ![r] = Idle]
    /\ UNCHANGED <<clock, commits, audit, cache, answer, listener, inbox, settled>>

(* The request resumes, caches what it read and returns it.                    *)
finish(r) ==
    /\ reader[r].pc = "put"
    /\ put(reader[r].tenant, reader[r].version)
    /\ answer' = <<reader[r].tenant, reader[r].version>>
    /\ reader' = [reader EXCEPT ![r] = Idle]
    /\ UNCHANGED <<clock, commits, audit, listener, inbox, settled>>
-----------------------------------------------------------------------------
(* The consumer: TenantConfigCacheConsumer                                     *)

start ==
    /\ listener = "off"
    /\ listener' = "connecting"
    /\ UNCHANGED <<clock, commits, audit, cache, reader, answer, inbox, settled>>

(* The task is cancelled and the connection closed.                            *)
stop ==
    /\ listener # "off"
    /\ listener' = "off"
    /\ inbox' = <<>>
    /\ UNCHANGED <<clock, commits, audit, cache, reader, answer, settled>>

(* _run_forever connects and listens; an attempt that fails leaves it          *)
(* connecting, after a pause.  Once it listens it is parked on an event that   *)
(* nothing sets.                                                               *)
listen ==
    /\ listener = "connecting"
    /\ listener' = "listening"
    /\ UNCHANGED <<clock, commits, audit, cache, reader, answer, inbox, settled>>

(* The connection drops: what was on its way is lost, and the parked task does *)
(* not notice.                                                                 *)
drop ==
    /\ listener = "listening"
    /\ listener' = "deaf"
    /\ inbox' = <<>>
    /\ UNCHANGED <<clock, commits, audit, cache, reader, answer, settled>>

(* A request holds a version of the tenant's row that has been superseded.     *)
HoldsOld(r, t) ==
    /\ reader[r].pc = "put"
    /\ reader[r].tenant = t
    /\ reader[r].version < Version(t)

(* The next notification: the tenant's entry is dropped.  What was read before *)
(* is now gone unless another notification is due or a request still holds it. *)
Settles(t) ==
    /\ \A i \in 2..Len(inbox) : inbox[i] # t
    /\ \A r \in Readers : ~HoldsOld(r, t)

(* Mutant: the notification only drops an entry that has expired.              *)
on_notify_expired(t) ==
    /\ inbox # <<>>
    /\ t = Head(inbox)
    /\ inbox' = Tail(inbox)
    /\ cache' = IF cache[t] # None /\ Expired(cache[t]) THEN [cache EXCEPT ![t] = None] ELSE cache
    /\ settled' = [settled EXCEPT ![t] = Settles(t)]
    /\ UNCHANGED <<clock, commits, audit, reader, answer, listener>>

on_notify(t) ==
    /\ inbox # <<>>
    /\ t = Head(inbox)
    /\ inbox' = Tail(inbox)
    /\ cache' = [cache EXCEPT ![t] = None]
    /\ settled' = [settled EXCEPT ![t] = Settles(t)]
    /\ UNCHANGED <<clock, commits, audit, reader, answer, listener>>
-----------------------------------------------------------------------------
(* Time passes; no request takes longer than ReadLag to resume.                *)
Tick ==
    /\ clock < MaxClock
    /\ \A r \in Readers : reader[r].pc = "put" => clock < reader[r].since + ReadLag
    /\ clock' = clock + 1
    /\ answer' = <<>>
    /\ UNCHANGED <<commits, audit, cache, reader, listener, inbox, settled>>

Next ==
    \/ Tick \/ start \/ stop \/ listen \/ drop
    \/ \E t \in Tenants, c \in CorrIds \cup {None} : change(t, c)
    \/ \E t \in Tenants : on_notify(t)
    \/ \E r \in Readers :
        \/ \E t \in Tenants : get_for_tenant(r, t)
        \/ select(r)
        \/ select_fails(r)
        \/ finish(r)

Spec == Init /\ [][Next]_vars
-----------------------------------------------------------------------------
(* FR-013 and the TTL as the "worst-case" safety net of ADR-0008: however      *)
(* changes, reads, evictions and lost notifications interleave, a request gets *)
(* a version that was still current at most Ttl plus one read ago.             *)
Promise == INSTANCE BoundedStaleness
    WITH Keys <- Tenants, Bound <- Ttl + ReadLag
BoundedStale == Promise!Spec

(* "On NOTIFY, the cache invalidates the named tenant's entry; the next        *)
(* request from that tenant fetches the new value" (ADR-0008 Part 4), with the *)
(* condition under which the code keeps it: when the last notification came    *)
(* with no older read of the row under way, every later answer is current.     *)
NotifiedIsFresh ==
    \A t \in Tenants : settled[t] =>
        /\ cache[t] # None => cache[t].version = Version(t)
        /\ \A r \in Readers : ~HoldsOld(r, t)

(* FR-013b and SC-014: the committed changes of a tenant's configuration and   *)
(* the tenant_config_change rows of the audit log are the same, one for one.   *)
ChangesAudited ==
    \A t \in Tenants :
        /\ {a.version : a \in {x \in audit : x.tenant = t}} = 1..Version(t)
        /\ \A a, b \in audit : a.tenant = b.tenant /\ a.version = b.version => a = b

(* The cache never holds more tenants than its capacity, although put makes    *)
(* room before it knows whether it needs any.                                  *)
WithinCapacity == Cardinality(Cached) <= Capacity
=============================================================================
