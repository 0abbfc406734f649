------------------------ MODULE TenantConfigProofs ------------------------
(* Proofs about the tenant configuration cache, for every number of tenants    *)
(* and concurrent requests, every lifetime of an entry, read time and capacity. *)
EXTENDS TenantConfigCache, FiniteSetTheorems, TLAPS

(* What bounds the age of an answer: a cached version was current no longer    *)
(* than Ttl + ReadLag before the entry expires, a version a request holds was  *)
(* current when it was read, and no more than ReadLag ago.                     *)
Superseded(t, n) == commits[t][n + 1]
EntryInv(t) == cache[t] # None =>
    /\ cache[t].version \in 0..Len(commits[t])
    /\ cache[t].expires <= clock + Ttl
    /\ cache[t].version < Len(commits[t]) =>
           Superseded(t, cache[t].version) + (Ttl + ReadLag) >= cache[t].expires
ReaderInv(r) == reader[r].pc = "put" =>
    /\ reader[r].version \in 0..Len(commits[reader[r].tenant])
    /\ reader[r].since <= clock
    /\ clock <= reader[r].since + ReadLag
    /\ reader[r].version < Len(commits[reader[r].tenant]) =>
           Superseded(reader[r].tenant, reader[r].version) >= reader[r].since

Typed ==
    /\ clock \in Nat
    /\ commits \in [Tenants -> Seq(Nat)]
    /\ cache \in [Tenants -> Entry \cup {None}]
    /\ reader \in [Readers -> {Idle} \cup Reading \cup Read]
    /\ settled \in [Tenants -> BOOLEAN]

AgeInv ==
    /\ \A t \in Tenants : EntryInv(t)
    /\ \A r \in Readers : ReaderInv(r)

IInv == Typed /\ AgeInv /\ NotifiedIsFresh

(* An idle request and one before its SELECT hold no version.                  *)
LEMMA ReaderShape ==
    ASSUME Typed, NEW r \in Readers, reader[r].pc = "put"
    PROVE  /\ reader[r] \in Read
           /\ reader[r].tenant \in Tenants
           /\ reader[r].version \in Nat
           /\ reader[r].since \in Nat
BY DEF Typed, Idle, Reading, Read

(* A superseded version has a time at which it was superseded.                 *)
LEMMA SupersededTime ==
    ASSUME NEW times \in Seq(Nat), NEW n \in 0..Len(times), n < Len(times)
    PROVE  times[n + 1] \in Nat
OBVIOUS

(* What a put leaves: the new entry, and for the other tenants what was cached *)
(* or nothing.                                                                 *)
LEMMA PutShape ==
    ASSUME Typed, NEW t \in Tenants, NEW n \in Nat, put(t, n)
    PROVE  /\ cache' \in [Tenants -> Entry \cup {None}]
           /\ cache'[t] = [version |-> n, expires |-> clock + Ttl]
           /\ \A u \in Tenants \ {t} : cache'[u] = cache[u] \/ cache'[u] = None
<1>1. clock + Ttl \in Nat
  BY CacheAssumption DEF Typed
<1>2. [version |-> n, expires |-> clock + Ttl] \in Entry
  BY <1>1 DEF Entry
<1>3. CASE cache' = With(cache, t, n)
  BY <1>2, <1>3 DEF With, Typed
<1>4. ASSUME NEW o \in Oldest, cache' = With([cache EXCEPT ![o] = None], t, n)
      PROVE  /\ cache' \in [Tenants -> Entry \cup {None}]
             /\ cache'[t] = [version |-> n, expires |-> clock + Ttl]
             /\ \A u \in Tenants \ {t} : cache'[u] = cache[u] \/ cache'[u] = None
  BY <1>2, <1>4, Zenon DEF With, Typed, Oldest, Cached
<1>. QED
  BY <1>3, <1>4, Zenon DEF put

(* One lemma per kind of step.  A committed change supersedes the version held *)
(* until now, at the present time.                                             *)
LEMMA ChangeInv ==
    ASSUME IInv, NEW t \in Tenants, NEW c, change(t, c)
    PROVE  IInv'
<1>. USE DEF IInv
<1>1. /\ commits' = [commits EXCEPT ![t] = Append(@, clock)]
      /\ settled' = [settled EXCEPT ![t] = FALSE]
      /\ UNCHANGED <<clock, cache, reader>>
  BY DEF change
<1>2. Typed'
  BY <1>1 DEF Typed
<1>3. /\ commits'[t] = Append(commits[t], clock)
      /\ commits[t] \in Seq(Nat)
      /\ clock \in Nat
      /\ \A u \in Tenants \ {t} : commits'[u] = commits[u]
  BY <1>1 DEF Typed
<1>4. /\ Len(commits'[t]) = Len(commits[t]) + 1
      /\ Len(commits[t]) \in Nat
      /\ commits'[t][Len(commits[t]) + 1] = clock
      /\ \A n \in Nat : n < Len(commits[t]) => commits'[t][n + 1] = commits[t][n + 1]
  BY <1>3
<1>5. ASSUME NEW u \in Tenants PROVE EntryInv(u)'
  <2>1. EntryInv(u)
    BY DEF AgeInv
  <2>2. CASE u # t
    BY <2>1, <2>2, <1>1, <1>3 DEF EntryInv, Superseded
  <2>3. CASE u = t /\ cache[u] # None
    <3>1. cache[u] \in Entry
      BY <2>3 DEF Typed
    <3>2. cache[u].version \in Nat /\ cache[u].expires \in Nat
      BY <3>1 DEF Entry
    <3>3. CASE cache[u].version = Len(commits[t])
      BY <2>1, <2>3, <3>2, <3>3, <1>1, <1>3, <1>4, CacheAssumption DEF EntryInv, Superseded
    <3>4. CASE cache[u].version < Len(commits[t])
      BY <2>1, <2>3, <3>2, <3>4, <1>1, <1>4 DEF EntryInv, Superseded
    <3>. QED
      BY <2>1, <2>3, <3>2, <3>3, <3>4, <1>4 DEF EntryInv
  <2>. QED
    BY <2>2, <2>3, <1>1 DEF EntryInv
<1>6. ASSUME NEW r \in Readers PROVE ReaderInv(r)'
  <2>1. ReaderInv(r)
    BY DEF AgeInv
  <2>2. SUFFICES ASSUME reader[r].pc = "put" PROVE ReaderInv(r)'
    BY <1>1 DEF ReaderInv
  <2>3. reader[r].tenant \in Tenants /\ reader[r].version \in Nat /\ reader[r].since \in Nat
    BY <2>2, ReaderShape
  <2>4. CASE reader[r].tenant # t
    BY <2>1, <2>2, <2>3, <2>4, <1>1, <1>3 DEF ReaderInv, Superseded
  <2>5. CASE reader[r].tenant = t
    <3>1. CASE reader[r].version = Len(commits[t])
      BY <2>1, <2>2, <2>3, <2>5, <3>1, <1>1, <1>4 DEF ReaderInv, Superseded
    <3>2. CASE reader[r].version < Len(commits[t])
      BY <2>1, <2>2, <2>3, <2>5, <3>2, <1>1, <1>4 DEF ReaderInv, Superseded
    <3>. QED
      BY <2>1, <2>2, <2>3, <2>5, <3>1, <3>2, <1>4 DEF ReaderInv
  <2>. QED
    BY <2>4, <2>5
<1>7. NotifiedIsFresh'
  <2>1. ASSUME NEW u \in Tenants, settled'[u]
        PROVE  u # t /\ settled[u] /\ commits'[u] = commits[u]
    BY <2>1, <1>1, <1>3 DEF Typed
  <2>. QED
    BY <2>1, <1>1 DEF NotifiedIsFresh, HoldsOld, Version
<1>. QED
  BY <1>2, <1>5, <1>6, <1>7 DEF AgeInv

(* A lookup (get_for_tenant up to its first await) only drops an entry.        *)
LEMMA LookupInv ==
    ASSUME IInv, NEW r \in Readers, NEW t \in Tenants, get_for_tenant(r, t)
    PROVE  IInv'
<1>. USE DEF IInv
<1>1. UNCHANGED <<clock, commits, settled>>
  BY DEF get_for_tenant
<1>2. CASE UNCHANGED <<cache, reader>>
  BY <1>1, <1>2 DEF Typed, AgeInv, EntryInv, ReaderInv, Superseded, NotifiedIsFresh, HoldsOld, Version
<1>3. CASE /\ reader' = [reader EXCEPT ![r] = [pc |-> "select", tenant |-> t]]
           /\ cache' = [cache EXCEPT ![t] = None]
  <2>1. /\ \A u \in Tenants : cache'[u] = cache[u] \/ cache'[u] = None
        /\ \A q \in Readers : reader'[q] = reader[q] \/ reader'[q].pc = "select"
    BY <1>3 DEF Typed
  <2>2. Typed'
    BY <1>1, <1>3 DEF Typed, Reading
  <2>3. AgeInv'
    BY <1>1, <2>1 DEF AgeInv, EntryInv, ReaderInv, Superseded
  <2>4. NotifiedIsFresh'
    BY <1>1, <2>1 DEF NotifiedIsFresh, HoldsOld, Version
  <2>. QED
    BY <2>2, <2>3, <2>4
<1>. QED
  BY <1>2, <1>3 DEF get_for_tenant

(* What a SELECT returns is current.                                           *)
LEMMA SelectInv ==
    ASSUME IInv, NEW r \in Readers, select(r)
    PROVE  IInv'
<1>. USE DEF IInv
<1>1. UNCHANGED <<clock, commits, cache, settled>>
  BY DEF select
<1>2. PICK t \in Tenants : reader[r].tenant = t
  BY DEF select, Typed, Idle, Reading, Read
<1>3. reader' = [reader EXCEPT ![r] =
          [pc |-> "put", tenant |-> t, version |-> Version(t), since |-> clock]]
  BY <1>2 DEF select
<1>4. Version(t) \in Nat /\ clock \in Nat /\ Version(t) = Len(commits[t])
  BY DEF Version, Typed
<1>5. Typed'
  BY <1>1, <1>3, <1>4 DEF Typed, Read
<1>6. /\ reader'[r] = [pc |-> "put", tenant |-> t, version |-> Version(t), since |-> clock]
      /\ \A q \in Readers \ {r} : reader'[q] = reader[q]
  BY <1>3 DEF Typed
<1>7. ASSUME NEW q \in Readers PROVE ReaderInv(q)'
  <2>1. CASE q = r
    BY <2>1, <1>1, <1>4, <1>6, CacheAssumption DEF ReaderInv
  <2>2. CASE q # r
    BY <2>2, <1>1, <1>6 DEF AgeInv, ReaderInv, Superseded
  <2>. QED
    BY <2>1, <2>2
<1>8. AgeInv'
  BY <1>1, <1>7 DEF AgeInv, EntryInv, Superseded
<1>9. NotifiedIsFresh'
  BY <1>1, <1>4, <1>6 DEF NotifiedIsFresh, HoldsOld, Version
<1>. QED
  BY <1>5, <1>8, <1>9

(* A finished read is put with a full Ttl to live, up to ReadLag after it was  *)
(* made; this is where the two bounds add up.                                  *)
LEMMA FinishInv ==
    ASSUME IInv, NEW r \in Readers, finish(r)
    PROVE  IInv'
<1>. USE DEF IInv
<1>1. UNCHANGED <<clock, commits, settled>> /\ reader[r].pc = "put"
  BY DEF finish
<1>2. PICK t \in Tenants, n \in Nat, s \in Nat :
          reader[r].tenant = t /\ reader[r].version = n /\ reader[r].since = s
  BY <1>1, ReaderShape
<1>3. /\ cache' \in [Tenants -> Entry \cup {None}]
      /\ cache'[t] = [version |-> n, expires |-> clock + Ttl]
      /\ \A u \in Tenants \ {t} : cache'[u] = cache[u] \/ cache'[u] = None
  BY <1>2, PutShape DEF finish
<1>4. /\ reader' \in [Readers -> {Idle} \cup Reading \cup Read]
      /\ \A q \in Readers : reader'[q] = reader[q] \/ reader'[q].pc = "idle"
  BY DEF finish, Typed, Idle
<1>5. Typed'
  BY <1>1, <1>3, <1>4 DEF Typed
<1>6. ASSUME NEW u \in Tenants PROVE EntryInv(u)'
  <2>1. CASE u # t
    BY <2>1, <1>1, <1>3 DEF AgeInv, EntryInv, Superseded
  <2>2. CASE u = t
    <3>1. /\ n \in 0..Len(commits[t])
          /\ clock <= s + ReadLag
          /\ n < Len(commits[t]) => commits[t][n + 1] >= s
      BY <1>1, <1>2 DEF AgeInv, ReaderInv, Superseded
    <3>2. n < Len(commits[t]) => commits[t][n + 1] \in Nat
      <4>1. commits[t] \in Seq(Nat)
        BY DEF Typed
      <4>. QED
        BY <4>1
    <3>3. n < Len(commits[t]) => commits[t][n + 1] + (Ttl + ReadLag) >= clock + Ttl
      BY <3>1, <3>2, CacheAssumption DEF Typed
    <3>. QED
      BY <2>2, <3>1, <3>3, <1>1, <1>3, CacheAssumption DEF EntryInv, Superseded, Typed
  <2>. QED
    BY <2>1, <2>2
<1>7. AgeInv'
  BY <1>1, <1>4, <1>6 DEF AgeInv, ReaderInv, Superseded
<1>8. ASSUME NEW u \in Tenants, settled'[u]
      PROVE  /\ cache'[u] # None => cache'[u].version = Version(u)'
             /\ \A q \in Readers : ~HoldsOld(q, u)'
  <2>1. /\ cache[u] # None => cache[u].version = Version(u)
        /\ \A q \in Readers : ~HoldsOld(q, u)
    BY <1>1, <1>8 DEF NotifiedIsFresh
  <2>2. Version(u)' = Version(u)
    BY <1>1 DEF Version
  <2>3. CASE u = t
    <3>1. ~(n < Len(commits[t]))
      BY <2>1, <2>3, <1>1, <1>2 DEF HoldsOld, Version
    <3>2. n \in 0..Len(commits[t]) /\ Len(commits[t]) \in Nat
      BY <1>1, <1>2 DEF AgeInv, ReaderInv, Typed
    <3>. QED
      BY <2>1, <2>2, <2>3, <3>1, <3>2, <1>3, <1>4 DEF Version, HoldsOld
  <2>4. CASE u # t
    BY <2>1, <2>2, <2>4, <1>3, <1>4 DEF HoldsOld
  <2>. QED
    BY <2>3, <2>4
<1>. QED
  BY <1>5, <1>7, <1>8 DEF NotifiedIsFresh

(* A notification (_on_notify) drops the entry and settles the tenant if no    *)
(* request holds an older version.                                             *)
LEMMA NotifyInv ==
    ASSUME IInv, NEW t \in Tenants, on_notify(t)
    PROVE  IInv'
<1>. USE DEF IInv
<1>1. UNCHANGED <<clock, commits, reader>>
  BY DEF on_notify
<1>2. /\ \A u \in Tenants : cache'[u] = cache[u] \/ cache'[u] = None
      /\ cache'[t] = None
      /\ \A u \in Tenants \ {t} : settled'[u] = settled[u]
      /\ settled'[t] = Settles(t)
  BY DEF on_notify, Typed
<1>3. Settles(t) \in BOOLEAN
  BY DEF Settles
<1>4. Typed'
  BY <1>1, <1>3 DEF on_notify, Typed
<1>5. AgeInv'
  BY <1>1, <1>2 DEF AgeInv, EntryInv, ReaderInv, Superseded
<1>6. NotifiedIsFresh'
  BY <1>1, <1>2, Zenon DEF NotifiedIsFresh, HoldsOld, Version, Settles
<1>. QED
  BY <1>4, <1>5, <1>6

(* Time passes only while every read under way is within ReadLag.              *)
LEMMA TickInv ==
    ASSUME IInv, Tick
    PROVE  IInv'
<1>. USE DEF IInv
<1>1. clock' = clock + 1 /\ UNCHANGED <<commits, cache, reader, settled>>
  BY DEF Tick
<1>2. Typed'
  BY <1>1 DEF Typed
<1>3. ASSUME NEW t \in Tenants PROVE EntryInv(t)'
  <2>1. cache[t] # None => cache[t].expires \in Nat
    BY DEF Typed, Entry
  <2>. QED
    BY <1>1, <2>1, CacheAssumption DEF AgeInv, EntryInv, Superseded, Typed
<1>4. ASSUME NEW r \in Readers PROVE ReaderInv(r)'
  <2>1. reader[r].pc = "put" => reader[r].since \in Nat
    BY ReaderShape
  <2>2. reader[r].pc = "put" => clock < reader[r].since + ReadLag
    BY DEF Tick
  <2>3. ReaderInv(r) /\ clock \in Nat /\ ReadLag \in Nat
    BY CacheAssumption DEF AgeInv, Typed
  <2>4. reader[r].pc = "put" => /\ reader[r].since <= clock'
                                /\ clock' <= reader[r].since + ReadLag
    BY <1>1, <2>1, <2>2, <2>3 DEF ReaderInv
  <2>5. reader' = reader /\ commits' = commits
    BY <1>1
  <2>. QED
    BY <2>3, <2>4, <2>5 DEF ReaderInv, Superseded
<1>5. NotifiedIsFresh'
  BY <1>1 DEF NotifiedIsFresh, HoldsOld, Version
<1>. QED
  BY <1>2, <1>3, <1>4, <1>5 DEF AgeInv

(* A failed read and the steps of the listener change nothing that is cached.  *)
LEMMA RestInv ==
    ASSUME IInv, UNCHANGED <<clock, commits, cache, settled>>,
           \/ UNCHANGED reader
           \/ \E r \in Readers : reader' = [reader EXCEPT ![r] = Idle]
    PROVE  IInv'
<1>. USE DEF IInv
<1>1. /\ reader' \in [Readers -> {Idle} \cup Reading \cup Read]
      /\ \A q \in Readers : reader'[q] = reader[q] \/ reader'[q].pc = "idle"
  <2>1. CASE UNCHANGED reader
    BY <2>1 DEF Typed
  <2>2. ASSUME NEW r \in Readers, reader' = [reader EXCEPT ![r] = Idle]
        PROVE  /\ reader' \in [Readers -> {Idle} \cup Reading \cup Read]
               /\ \A q \in Readers : reader'[q] = reader[q] \/ reader'[q] = Idle
    BY <2>2 DEF Typed
  <2>3. Idle.pc = "idle"
    BY DEF Idle
  <2>. QED
    BY <2>1, <2>2, <2>3
<1>2. Typed'
  BY <1>1 DEF Typed
<1>3. AgeInv'
  BY <1>1 DEF AgeInv, EntryInv, ReaderInv, Superseded
<1>4. NotifiedIsFresh'
  BY <1>1 DEF NotifiedIsFresh, HoldsOld, Version
<1>. QED
  BY <1>2, <1>3, <1>4

(* The initial states satisfy the invariant.                                   *)
LEMMA InitInv == Init => IInv
BY DEF Init, IInv, Typed, AgeInv, EntryInv, ReaderInv, NotifiedIsFresh, HoldsOld, Idle

(* Every step of the cache, its requests and its listener keeps the invariant. *)
LEMMA StepInv == IInv /\ [Next]_vars => IInv'
<1>. SUFFICES ASSUME IInv, [Next]_vars PROVE IInv'
  OBVIOUS
<1>1. CASE UNCHANGED vars
  BY <1>1, RestInv DEF vars
<1>2. ASSUME start \/ stop \/ listen \/ drop PROVE IInv'
  BY <1>2, RestInv DEF start, stop, listen, drop
<1>3. ASSUME NEW r \in Readers, select_fails(r) PROVE IInv'
  BY <1>3, RestInv, Zenon DEF select_fails
<1>4. CASE Tick
  BY <1>4, TickInv
<1>5. ASSUME NEW t \in Tenants, NEW c \in CorrIds \cup {None}, change(t, c) PROVE IInv'
  BY <1>5, ChangeInv
<1>6. ASSUME NEW t \in Tenants, on_notify(t) PROVE IInv'
  BY <1>6, NotifyInv
<1>7. ASSUME NEW r \in Readers, NEW t \in Tenants, get_for_tenant(r, t) PROVE IInv'
  BY <1>7, LookupInv
<1>8. ASSUME NEW r \in Readers, select(r) \/ finish(r) PROVE IInv'
  BY <1>8, SelectInv, FinishInv
<1>. QED
  BY <1>1, <1>2, <1>3, <1>4, <1>5, <1>6, <1>7, <1>8 DEF Next

(* The age of what get_for_tenant has cached or holds stays bounded, and a     *)
(* settled tenant has no old version anywhere.                                 *)
THEOREM Invariance == Spec => []IInv
BY InitInv, StepInv, PTL DEF Spec

(* An answer from the cache or from a finished read is one the abstract        *)
(* specification allows; no other step gives an answer.                        *)
LEMMA StepPromised == IInv /\ [Next]_vars => [Promise!Next]_(Promise!staleVars)
<1>. SUFFICES ASSUME IInv, [Next]_vars
     PROVE  Promise!Next \/ UNCHANGED <<clock, commits, answer>>
  BY DEF Promise!staleVars
<1>1. ASSUME UNCHANGED <<clock, commits, answer>>
      PROVE  Promise!Next \/ UNCHANGED <<clock, commits, answer>>
  BY <1>1
<1>2. CASE Tick
  BY <1>2 DEF Tick, Promise!Next, Promise!Elapse
<1>3. ASSUME NEW t \in Tenants, NEW c, change(t, c) PROVE Promise!Next
  BY <1>3, Zenon DEF change, Promise!Next, Promise!Change
<1>4. ASSUME NEW r \in Readers, NEW t \in Tenants, get_for_tenant(r, t),
             cache[t] # None /\ ~Expired(cache[t])
      PROVE  Promise!Next
  <2>1. /\ answer' = <<t, cache[t].version>>
        /\ UNCHANGED <<clock, commits>>
        /\ ~(clock > cache[t].expires)
    BY <1>4 DEF get_for_tenant, Expired
  <2>2. EntryInv(t)
    BY DEF IInv, AgeInv
  <2>3. cache[t].expires \in Nat /\ clock \in Nat /\ commits[t] \in Seq(Nat)
    BY <1>4 DEF IInv, Typed, Entry
  <2>4. PICK n \in 0..Len(commits[t]) : n = cache[t].version
    BY <1>4, <2>2 DEF EntryInv
  <2>5. n < Len(commits[t]) => commits[t][n + 1] \in Nat
    BY <2>3, SupersededTime
  <2>6. ASSUME n < Len(commits[t])
        PROVE  commits[t][n + 1] + (Ttl + ReadLag) >= clock
    <3>1. commits[t][n + 1] + (Ttl + ReadLag) >= cache[t].expires
      BY <1>4, <2>2, <2>4, <2>6 DEF EntryInv, Superseded
    <3>2. PICK m \in Nat : m = commits[t][n + 1]
      BY <2>5, <2>6
    <3>3. PICK e \in Nat : e = cache[t].expires
      BY <2>3
    <3>4. m + (Ttl + ReadLag) >= e /\ ~(clock > e) /\ clock \in Nat
      BY <2>1, <2>3, <3>1, <3>2, <3>3
    <3>5. m + (Ttl + ReadLag) >= clock
      BY <3>4, CacheAssumption
    <3>. QED
      BY <3>2, <3>5
  <2>7. Promise!Reply(t, n)
    BY <2>1, <2>4, <2>6 DEF Promise!Reply
  <2>. QED
    BY <2>7 DEF Promise!Next
<1>5. ASSUME NEW r \in Readers, finish(r) PROVE Promise!Next
  <2>1. reader[r].pc = "put" /\ UNCHANGED <<clock, commits>>
    BY <1>5 DEF finish
  <2>2. PICK t \in Tenants, n \in Nat, s \in Nat :
            reader[r].tenant = t /\ reader[r].version = n /\ reader[r].since = s
    BY <2>1, ReaderShape DEF IInv
  <2>3. answer' = <<t, n>>
    BY <1>5, <2>2 DEF finish
  <2>4. /\ n \in 0..Len(commits[t])
        /\ clock <= s + ReadLag
        /\ n < Len(commits[t]) => commits[t][n + 1] >= s
    BY <2>1, <2>2 DEF IInv, AgeInv, ReaderInv, Superseded
  <2>5. n < Len(commits[t]) => commits[t][n + 1] \in Nat
    <3>1. commits[t] \in Seq(Nat)
      BY DEF IInv, Typed
    <3>. QED
      BY <3>1
  <2>6. n < Len(commits[t]) => commits[t][n + 1] + (Ttl + ReadLag) >= clock
    BY <2>4, <2>5, CacheAssumption DEF IInv, Typed
  <2>7. Promise!Reply(t, n)
    BY <2>1, <2>3, <2>4, <2>6 DEF Promise!Reply
  <2>. QED
    BY <2>4, <2>7 DEF Promise!Next
<1>6. ASSUME NEW r \in Readers, NEW t \in Tenants, get_for_tenant(r, t),
             ~(cache[t] # None /\ ~Expired(cache[t]))
      PROVE  UNCHANGED <<clock, commits, answer>>
  BY <1>6 DEF get_for_tenant
<1>7. ASSUME start \/ stop \/ listen \/ drop PROVE UNCHANGED <<clock, commits, answer>>
  BY <1>7 DEF start, stop, listen, drop
<1>8. ASSUME NEW r \in Readers, select(r) \/ select_fails(r)
      PROVE  UNCHANGED <<clock, commits, answer>>
  BY <1>8 DEF select, select_fails
<1>9. ASSUME NEW t \in Tenants, on_notify(t) PROVE UNCHANGED <<clock, commits, answer>>
  BY <1>9 DEF on_notify
<1>10. CASE UNCHANGED vars
  BY <1>10 DEF vars
<1>. QED
  BY <1>2, <1>3, <1>4, <1>5, <1>6, <1>7, <1>8, <1>9, <1>10 DEF Next

(* FR-013, the TTL as safety net: the cache in front of tenant_config keeps    *)
(* the promise of BoundedStaleness, whatever the listener misses: no request   *)
(* is limited by a configuration superseded more than Ttl + ReadLag ago.       *)
THEOREM AnswersBoundedStale == Spec => BoundedStale
<1>1. Init => Promise!Init
  BY DEF Init, Promise!Init
<1>. QED
  BY <1>1, StepPromised, Invariance, PTL DEF Spec, BoundedStale, Promise!Spec

(* ADR-0008 Part 4: once the notification of the last change was handled with  *)
(* no older read under way, neither the cache nor a request holds an older     *)
(* version of the tenant's configuration.                                      *)
THEOREM NotificationWorks == Spec => []NotifiedIsFresh
BY Invariance, PTL DEF IInv

(* A committed change and its audit row come together; no other step touches   *)
(* either.                                                                     *)
LEMMA AuditStep == Typed /\ ChangesAudited /\ [Next]_vars => ChangesAudited'
<1>. SUFFICES ASSUME Typed, ChangesAudited, [Next]_vars PROVE ChangesAudited'
  OBVIOUS
<1>1. ASSUME UNCHANGED <<commits, audit>> PROVE ChangesAudited'
  BY <1>1 DEF ChangesAudited, Version
<1>2. ASSUME NEW t \in Tenants, NEW c, change(t, c) PROVE ChangesAudited'
  <2>1. PICK new : /\ new.tenant = t
                   /\ new.version = Version(t) + 1
                   /\ audit' = audit \cup {new}
    <3>1. PICK id : audit' = audit \cup {[corr |-> id, tenant |-> t, version |-> Version(t) + 1]}
      BY <1>2, Zenon DEF change
    <3>. QED
      BY <3>1, Zenon
  <2>2. /\ Version(t) \in Nat
        /\ Version(t)' = Version(t) + 1
        /\ \A u \in Tenants \ {t} : Version(u)' = Version(u)
    <3>1. /\ commits' = [commits EXCEPT ![t] = Append(@, clock)]
          /\ commits[t] \in Seq(Nat)
          /\ clock \in Nat
      BY <1>2 DEF change, Typed
    <3>. QED
      BY <3>1 DEF Version, Typed
  <2>3. ASSUME NEW u \in Tenants, NEW a \in audit, a.tenant = u
        PROVE  a.version \in 1..Version(u)
    <3>1. {x.version : x \in {y \in audit : y.tenant = u}} = 1..Version(u)
      BY DEF ChangesAudited
    <3>2. a.version \in {x.version : x \in {y \in audit : y.tenant = u}}
      BY <2>3
    <3>. QED
      BY <3>1, <3>2
  <2>4. ASSUME NEW u \in Tenants
        PROVE  {a.version : a \in {x \in audit' : x.tenant = u}} = 1..Version(u)'
    <3>1. {a.version : a \in {x \in audit : x.tenant = u}} = 1..Version(u)
      BY DEF ChangesAudited
    <3>2. CASE u # t
      <4>1. {x \in audit' : x.tenant = u} = {x \in audit : x.tenant = u}
        BY <2>1, <3>2
      <4>. QED
        BY <2>2, <3>1, <3>2, <4>1
    <3>3. CASE u = t
      <4>1. {x \in audit' : x.tenant = u} = {x \in audit : x.tenant = u} \cup {new}
        BY <2>1, <3>3
      <4>2. {a.version : a \in {x \in audit' : x.tenant = u}} = (1..Version(t)) \cup {Version(t) + 1}
        BY <2>1, <3>1, <3>3, <4>1
      <4>3. 1..(Version(t) + 1) = (1..Version(t)) \cup {Version(t) + 1}
        BY <2>2
      <4>. QED
        BY <2>2, <3>3, <4>2, <4>3
    <3>. QED
      BY <3>2, <3>3
  <2>5. ASSUME NEW a \in audit', NEW b \in audit', a.tenant = b.tenant, a.version = b.version
        PROVE  a = b
    <3>1. \A x \in audit : x.tenant = t => x.version # Version(t) + 1
      BY <2>2, <2>3
    <3>2. \A x, y \in audit : x.tenant = y.tenant /\ x.version = y.version => x = y
      BY <1>2 DEF ChangesAudited
    <3>. QED
      BY <2>1, <2>5, <3>1, <3>2
  <2>. QED
    BY <2>4, <2>5 DEF ChangesAudited
<1>3. ASSUME NEW r \in Readers, NEW t \in Tenants,
             get_for_tenant(r, t)
      PROVE  UNCHANGED <<commits, audit>>
  BY <1>3 DEF get_for_tenant
<1>4. ASSUME NEW t \in Tenants, on_notify(t) PROVE UNCHANGED <<commits, audit>>
  BY <1>4 DEF on_notify
<1>5. ASSUME NEW r \in Readers, select(r) \/ select_fails(r) \/ finish(r)
      PROVE  UNCHANGED <<commits, audit>>
  BY <1>5 DEF select, select_fails, finish
<1>6. ASSUME Tick \/ start \/ stop \/ listen \/ drop \/ UNCHANGED vars
      PROVE  UNCHANGED <<commits, audit>>
  BY <1>6 DEF Tick, start, stop, listen, drop, vars
<1>. QED
  BY <1>1, <1>2, <1>3, <1>4, <1>5, <1>6 DEF Next

(* FR-013b and SC-014: at all times the committed configuration changes and    *)
(* their audit rows correspond one to one.                                     *)
THEOREM EveryChangeAudited == Spec => []ChangesAudited
<1>1. Init => ChangesAudited
  <2>. SUFFICES ASSUME Init PROVE ChangesAudited
    OBVIOUS
  <2>1. audit = {} /\ \A t \in Tenants : Version(t) = 0
    BY DEF Init, Version
  <2>. QED
    BY <2>1 DEF ChangesAudited
<1>2. Spec => []Typed
  BY Invariance, PTL DEF IInv
<1>. QED
  BY <1>1, <1>2, AuditStep, PTL DEF Spec

(* The types that the ages do not depend on.                                   *)
Surroundings ==
    /\ \A a \in audit : a.tenant \in Tenants /\ a.version \in Nat
    /\ answer \in {<<>>} \cup (Tenants \X Nat)
    /\ listener \in {"off", "connecting", "listening", "deaf"}
    /\ inbox \in Seq(Tenants)

LEMMA SurroundingsStep == Typed /\ Surroundings /\ [Next]_vars => Surroundings'
<1>. SUFFICES ASSUME Typed, Surroundings, [Next]_vars PROVE Surroundings'
  OBVIOUS
<1>1. ASSUME NEW t \in Tenants, NEW c, change(t, c) PROVE Surroundings'
  <2>1. PICK id : audit' = audit \cup {[corr |-> id, tenant |-> t, version |-> Version(t) + 1]}
    BY <1>1, Zenon DEF change
  <2>2. Version(t) + 1 \in Nat
    BY DEF Version, Typed
  <2>3. inbox' \in Seq(Tenants) /\ UNCHANGED <<answer, listener>>
    BY <1>1 DEF change, Surroundings
  <2>. QED
    BY <2>1, <2>2, <2>3 DEF Surroundings
<1>2. ASSUME NEW r \in Readers, NEW t \in Tenants, get_for_tenant(r, t) PROVE Surroundings'
  <2>1. cache[t] # None => cache[t].version \in Nat
    BY DEF Typed, Entry
  <2>2. answer' \in {<<>>} \cup (Tenants \X Nat) /\ UNCHANGED <<audit, listener, inbox>>
    BY <1>2, <2>1 DEF get_for_tenant, Surroundings
  <2>. QED
    BY <2>2 DEF Surroundings
<1>3. ASSUME NEW r \in Readers, finish(r) PROVE Surroundings'
  <2>1. reader[r].tenant \in Tenants /\ reader[r].version \in Nat
    BY <1>3, ReaderShape DEF finish
  <2>. QED
    BY <1>3, <2>1 DEF finish, Surroundings
<1>4. ASSUME NEW t \in Tenants, on_notify(t) PROVE Surroundings'
  <2>1. inbox \in Seq(Tenants) /\ inbox # <<>> /\ inbox' = Tail(inbox)
    BY <1>4 DEF on_notify, Surroundings
  <2>2. inbox' \in Seq(Tenants)
    BY <2>1
  <2>. QED
    BY <1>4, <2>2 DEF on_notify, Surroundings
<1>5. ASSUME NEW r \in Readers, select(r) \/ select_fails(r) PROVE Surroundings'
  BY <1>5 DEF select, select_fails, Surroundings
<1>6. ASSUME Tick PROVE Surroundings'
  BY <1>6 DEF Tick, Surroundings
<1>7. ASSUME start \/ listen \/ UNCHANGED vars PROVE Surroundings'
  BY <1>7 DEF start, listen, vars, Surroundings
<1>8. ASSUME stop \/ drop PROVE Surroundings'
  <2>1. <<>> \in Seq(Tenants)
    OBVIOUS
  <2>2. inbox' = <<>> /\ listener' \in {"off", "deaf"} /\ UNCHANGED <<audit, answer>>
    BY <1>8 DEF stop, drop
  <2>3. inbox' \in Seq(Tenants)
    BY <2>1, <2>2, Zenon
  <2>. QED
    BY <2>2, <2>3, Zenon DEF Surroundings
<1>. QED
  BY <1>1, <1>2, <1>3, <1>4, <1>5, <1>6, <1>7, <1>8 DEF Next

(* For any constants, the table, the audit rows, the cache, the requests and   *)
(* the listener with its notifications always have their types.                *)
THEOREM ConfigTyped == Spec => []CacheTypeOK
<1>1. Init => Surroundings
  BY DEF Init, Surroundings
<1>2. Spec => []Typed
  BY Invariance, PTL DEF IInv
<1>3. Typed /\ Surroundings => CacheTypeOK
  BY DEF Typed, Surroundings, CacheTypeOK
<1>. QED
  BY <1>1, <1>2, <1>3, SurroundingsStep, PTL DEF Spec

-----------------------------------------------------------------------------
(* The capacity.  The tenants with an entry are counted, so they are finitely  *)
(* many to begin with: every one of them was put.                              *)
CapacityInv == IsFiniteSet(Cached) /\ WithinCapacity

(* Making room first and storing second never leaves more entries than there   *)
(* were, or than the capacity, whether or not the tenant had an entry and      *)
(* whether or not it was that entry that went.                                 *)
LEMMA PutFits ==
    ASSUME Typed, CapacityInv, NEW t \in Tenants, NEW n, put(t, n)
    PROVE  CapacityInv'
<1>. USE DEF CapacityInv, WithinCapacity
<1>1. Cardinality(Cached) \in Nat
  BY FS_CardinalityType
<1>2. CASE Cardinality(Cached) < Capacity
  <2>1. cache' = With(cache, t, n)
    BY <1>1, <1>2, CacheAssumption DEF put
  <2>2. Cached' \subseteq Cached \cup {t}
    BY <2>1, Zenon DEF With, Cached, Typed
  <2>3. /\ IsFiniteSet(Cached \cup {t})
        /\ Cardinality(Cached \cup {t}) \in {Cardinality(Cached), Cardinality(Cached) + 1}
    BY FS_AddElement
  <2>4. IsFiniteSet(Cached') /\ Cardinality(Cached') <= Cardinality(Cached \cup {t})
    BY <2>2, <2>3, FS_Subset
  <2>5. Cardinality(Cached') \in Nat
    BY <2>4, FS_CardinalityType
  <2>. QED
    BY <1>1, <1>2, <2>3, <2>4, <2>5, CacheAssumption
<1>3. CASE Cardinality(Cached) >= Capacity
  <2>1. PICK o \in Oldest : cache' = With([cache EXCEPT ![o] = None], t, n)
    BY <1>3 DEF put
  <2>2. o \in Cached
    BY DEF Oldest
  <2>. DEFINE rest == Cached \ {o}
  <2>3. Cached' \subseteq rest \cup {t}
    BY <2>1, Zenon DEF With, Cached, Typed
  <2>4. IsFiniteSet(rest) /\ Cardinality(rest) = Cardinality(Cached) - 1
    BY <2>2, FS_RemoveElement, Zenon
  <2>. HIDE DEF rest
  <2>5. /\ IsFiniteSet(rest \cup {t})
        /\ Cardinality(rest \cup {t}) \in {Cardinality(rest), Cardinality(rest) + 1}
    BY <2>4, FS_AddElement
  <2>6. IsFiniteSet(Cached') /\ Cardinality(Cached') <= Cardinality(rest \cup {t})
    BY <2>3, <2>5, FS_Subset
  <2>7. Cardinality(Cached') \in Nat
    BY <2>6, FS_CardinalityType
  <2>. QED
    BY <1>1, <2>4, <2>5, <2>6, <2>7, CacheAssumption
<1>. QED
  BY <1>1, <1>2, <1>3, CacheAssumption

(* Every other step only drops entries.                                        *)
LEMMA CapacityStep == Typed /\ CapacityInv /\ [Next]_vars => CapacityInv'
<1>. SUFFICES ASSUME Typed, CapacityInv, [Next]_vars PROVE CapacityInv'
  OBVIOUS
<1>1. ASSUME NEW r \in Readers, finish(r) PROVE CapacityInv'
  <2>1. reader[r].tenant \in Tenants
    BY <1>1, ReaderShape DEF finish
  <2>. QED
    BY <1>1, <2>1, PutFits DEF finish
<1>2. ASSUME Cached' \subseteq Cached PROVE CapacityInv'
  <2>1. IsFiniteSet(Cached) /\ Cardinality(Cached) <= Capacity
    BY DEF CapacityInv, WithinCapacity
  <2>2. IsFiniteSet(Cached') /\ Cardinality(Cached') <= Cardinality(Cached)
    BY <1>2, <2>1, FS_Subset
  <2>3. Cardinality(Cached) \in Nat /\ Cardinality(Cached') \in Nat
    BY <2>1, <2>2, FS_CardinalityType
  <2>. QED
    BY <2>1, <2>2, <2>3, CacheAssumption DEF CapacityInv, WithinCapacity
<1>3. ASSUME NEW t \in Tenants, cache' = [cache EXCEPT ![t] = None] PROVE CapacityInv'
  <2>1. Cached' \subseteq Cached
    BY <1>3, Zenon DEF Cached, Typed
  <2>. QED
    BY <1>2, <2>1
<1>4. ASSUME cache' = cache PROVE CapacityInv'
  BY <1>2, <1>4 DEF Cached
<1>5. ASSUME NEW r \in Readers, NEW t \in Tenants, get_for_tenant(r, t) PROVE CapacityInv'
  BY <1>3, <1>4, <1>5 DEF get_for_tenant
<1>6. ASSUME NEW t \in Tenants, on_notify(t) PROVE CapacityInv'
  BY <1>3, <1>6, Zenon DEF on_notify
<1>7. ASSUME NEW r \in Readers, select(r) \/ select_fails(r) PROVE CapacityInv'
  BY <1>4, <1>7 DEF select, select_fails
<1>8. ASSUME NEW t \in Tenants, NEW c, change(t, c) PROVE CapacityInv'
  BY <1>4, <1>8 DEF change
<1>9. ASSUME Tick \/ start \/ stop \/ listen \/ drop \/ UNCHANGED vars PROVE CapacityInv'
  BY <1>4, <1>9 DEF Tick, start, stop, listen, drop, vars
<1>. QED
  BY <1>1, <1>5, <1>6, <1>7, <1>8, <1>9 DEF Next

(* For any number of tenants, infinitely many included, and any capacity, the  *)
(* cache never outgrows it (_TTLCache.put).                                    *)
THEOREM CacheFits == Spec => []WithinCapacity
<1>1. Init => CapacityInv
  <2>1. ASSUME Init PROVE Cached = {}
    BY <2>1 DEF Init, Cached
  <2>. QED
    BY <2>1, FS_EmptySet, CacheAssumption DEF CapacityInv, WithinCapacity
<1>2. Spec => []Typed
  BY Invariance, PTL DEF IInv
<1>3. CapacityInv => WithinCapacity
  BY DEF CapacityInv
<1>. QED
  BY <1>1, <1>2, <1>3, CapacityStep, PTL DEF Spec
=============================================================================
