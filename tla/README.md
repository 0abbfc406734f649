# CollectMind: specifications, model checks and proofs

CollectMind turns a diagnostic finding about a vehicle into a data-collection
policy and, once the collection window is over, into an outcome.  This
directory holds TLA+ modules translated from `src/src/collectmind/`, the TLC
configurations that check them on small instances, and TLAPS proofs of the
results that matter most.  `PROJECT.json` maps every definition to the lines it
models and lists runs, mutants, findings, hazards and theorems.

## The system

| Part | Source | What it does | Module |
|---|---|---|---|
| Ingest | `ingest/` | `POST /findings`: idempotency check, finding row, audit row, background task | `PolicyLoop` |
| Policy graph, validator, SLM clients | `graph/build.py`, `orchestrator.py`, `policy_*.py`, `session.py`, `validator/`, `slm/`, `models/policy.py` | generate, validate, retry within a budget, sign, deploy | `PolicyGraph`, abstracted in `PolicyLoop` |
| Graph runner | `graph/runner.py` | the chain of registry and audit writes after the graph, and its error handler | `PolicyLoop` |
| Registry | `registry/repository.py`, `audit.py`, `db.py`, migrations 003–009, 016 | tables, constraints, row-level security | `Registry` |
| Collector and telemetry simulators | `deployer/simulator.py`, `simulators/telemetry_generator.py` | accept or reject a policy, produce observations | `PolicyLoop` |
| Feedback worker | `feedback/` | polls expired deployments, evaluates, writes outcomes | `Feedback` |
| Application process | `app.py` | one event loop for all of the above; start, readiness, shutdown | `CollectMind`, `Startup` |
| Migrations | `registry/migrations/runner.py`, `infra/compose/postgres-init/` | bring the schema up or one version down, and record it | `Migrations` |
| Signing key | `deployer/signing.py` | loaded from a file, or created there | `Startup`, `PolicyGraph` |
| Authentication | `auth/`, the issuers under `infra/compose/` | bearer tokens against a cached key set | `TokenVerifier` |
| Tenant reads and break-glass reads | `query/api.py`, `audit_admin/api.py`, middleware order of `app.py` | limiter, dependency, handler; an operator's audited read of another tenant | `Access` |
| Rate limiter | `ratelimit/middleware.py`, `token_bucket.lua` | token bucket per tenant in Redis, fails closed | `TokenBucket` |
| Tenant configuration cache | `registry/tenant_config.py`, `ratelimit/config_cache.py`, migration 014 | TTL cache, invalidated by LISTEN/NOTIFY | `TenantConfigCache` |
| Ownership and scope-checked deployer | `cache/ownership_cache.py`, `registry/tenant_vehicles.py`, `deployer/node.py`, `tenant_scope_check.py`, migration 015 | who owns a vehicle, checked before a deployment | `Ownership` |
| Erasure | `erasure/` | removes or redacts a subject's data in three stores | `Erasure` |
| Kafka, observability, other models, scripts | | no state of their own that other code reads | not modelled |

Everything of the policy loop runs on one asyncio event loop.  Coroutines
interleave at every `await`, and each `await` on the database is a transaction
of its own, so an action of the model is the code between two awaits together
with the transaction it ends in.

## Modules

**`Registry`** has the tables as sets of rows, with the constraints the code
relies on: the primary key of `collection_policies` and
`UNIQUE (correlation_id, kind)` on `audit_events`.  `DbOutcome` is what one
transaction can do: commit, fail, or commit with the answer lost.  `AfterWrite`
and `WriteRaises` are `AuditEventWriter.write`: insert or do nothing on
conflict, then a read-back that row-level security limits to the writer's own
tenant.

**`PolicyLoop`** follows each request `r` from its handler to the background
session of the same name; `pc[r]` is the await it is at.

| Action | Code |
|---|---|
| `post_finding`, `check_or_record`, `persist_finding`, `accept_and_enqueue` | the handler, in `ingest/http.py` and `idempotency.py` |
| `generate`, `deploy` | rounds of `CollectMindGraph.run` |
| `audit_generated`, `audit_dead_letter`, `insert_policy`, `audit_validated`, `insert_deployment`, `audit_deployed`, `simulate` | the transactions of `GraphRunner._run`, in order |
| `audit_error` | the `except` of `run_async` |
| `Crash` | the process dies: handlers and sessions are lost, tables and collector stay |

The SLM's answer and the validator's verdict are left open here; `PolicyGraph`
has them.  A policy is
identified by its finding: the prompt pins `policy_id` to the finding and
`version` to `1.0.0`.

**`FindingLifecycle`** is the abstract specification: per finding key,
received, claimed by one session, active, closed, nothing skipped or undone.
`PolicyLoop` and `CollectMind` implement it under the mapping `Lifecycle` in
`PolicyLoop`.

**`Feedback`** is the worker's tick, one action per transaction (`list_due`,
`get_policy`, `collect_telemetry`, `insert_outcome`, `mark_expired`,
`audit_outcome`), the abandoned tick, and, when it is checked alone, an
environment that registers deployments and delivers telemetry.

**`CollectMind`** composes both on one registry, with a crash that takes all
tasks at once, and windows that may close while a session is still writing.
`get_by_finding` is what `GET /findings/{id}/outcome` answers.

**`PolicyGraph`** is `CollectMindGraph.run` on one session with nothing left
open but the model server: `generate` is one round (prompt, client, schema,
VSS and governance checks, route), `deploy` signs and sends.  One operator per
policy client (`vllm_generate`, `llamacpp_generate`, `stub_generate`,
`_build_policy`), one per check.  `rounds` remembers what was asked and
answered.  `RefinesLoop` maps the session to one of `PolicyLoop`'s, so the two
views of the graph cannot drift apart.

**`Migrations`** is `apply_pending` and `rollback_one`, statement by statement,
for any number of runners on one volume: create the version table, read it
once, then per version a transaction that executes the script and records it.
A script is the version it creates; `Needs` and `Reexecutable` say what it
depends on and whether it may be executed twice.  A volume may have been
populated by the initdb script, which records nothing.  **`Startup`** puts API
processes around it: `_lifespan` from migrating to serving, the key file that
processes share (`from_path`, `create_key`, `write_bytes`: three steps, as the
file is opened for writing before it is written), `/ready`, shutdown, kills,
and operators who roll back.

**`TokenVerifier`** is `JWTVerifier` over PyJWKClient, whose two caches (a key
set with a lifespan, and an LRU of keys looked up, without one) are modelled
from how the code uses it, and over the compose issuers, which make a new key
under a configured key id whenever they start.  `verify` is one step: it does
not yield to the event loop.  **`Access`** sends requests through
`RateLimitMiddleware.dispatch`, `charge` (the awaits on configuration and
Redis), the route's own dependency, which verifies the token again, and the
handler: `audit_for_correlation`, or `break_glass_query` as the two statements
of its transaction, `insert_break_glass` and `select_break_glass`.

**`TokenBucket`** is one tenant's bucket.  `Found`, `Refilled`, `AfterScript`
are the Lua script; `dispatch`, `ensure_lua_loaded`, `evalsha`, `noscript`,
`Drop` the middleware around it; `Restart` and `Tick` are Redis and time.  A
request reads the clock before it awaits Redis, so stamps arrive late and out
of order.  A tick is a millisecond and `Second` the script's 1000.

**`BoundedStaleness`** is the abstract promise of a time-limited cache over a
table: an answer is a version that was current at most `Bound` ago.
**`TenantConfigCache`** implements it.  `change` is a write to `tenant_config`
with its audit and notify triggers; `get_for_tenant`, `select`, `finish` are one
read, cut at its await; `put` is the cache's eviction; `start`, `listen`,
`drop`, `on_notify`, `stop` are the listener's life.  After a dropped
connection the listener is parked for good (`"deaf"`), as in the code.  A
configuration is its version number.

**`Ownership`** is `tenant_vehicles` with its triggers (`assign`), the Redis
cache (`redis_hit`, `redis_miss`, `query`, `redis_set`, `forget`), and calls of
`deploy_with_tenant_scope_check`, which look at one vehicle after the other.
Redis may fail at either command, Postgres at either of its own.  `Requests`
pairs the requesting tenant, whose the audit row is, with the tenant the policy
declares, whom the vehicles must belong to.  A rejection row has the fields
`node.py:104-118` writes, and `Coalesced` says which rows
`AuditEventWriter.write` takes for one.  `app.py` does not wire this deployer
into the graph (only tests call it), so it is a module of its own and no part
of `CollectMind`.

**`Erasure`** is one tenant's stores, the sessions that write into them
(`session`, the transactions of `GraphRunner._run` in order), and per request
`submit` and `_dispatch` cut at every transaction.  `Names` is what
`_redact_audit` compares with the subject's identifier, whatever its kind: the
finding of a session's row, the caller of an erasure's, the operator of an
assignment's.  `redacted_subject` is the field it sets, which a later redaction
overwrites.  The history variable `before` keeps what a store held of the
subject when the job came by.

## Runs

| Run | Instance | Shows |
|---|---|---|
| `loop` | 2 tenants, 1 finding id, 2 requests, a shared and a fresh correlation id, all faults, retry budget 1 | one policy and deployment per finding, the audit chain, an unrecorded delivery is on record as rejected, every session ends |
| `app` | 1 tenant, 2 findings, 2 requests, faults of SLM, collector and worker, a crash, poll limit 1 | no evaluation dropped, extra or unaudited outcomes cost a fault, outcome lineage, one verdict per trail, a verdict once served stays, refinement of `FindingLifecycle` to its end, every accepted finding concludes |
| `limiter` | 2 requests in flight, 4 ticks per second, rate and burst 2, lag 2, 1 restart, 1 drop | rate bound, true Retry-After, invisible restart |
| `config` | 2 tenants, 2 requests in flight, TTL 1, read time 1, capacity 1, 2 changes, clock to 3 | refinement of `BoundedStaleness`, what a notification achieves, changes audited one for one, capacity kept |
| `ownership` | 2 calls over the same 2 vehicles, 2 requesting tenants, 1 declared, 1 correlation id, TTL 1, call time 1, 3 assignments, clock to 3 | how old an ownership may decide a delivery or a rejection, whose row a rejection has |
| `erasure` | 2 requests, policies for {v1, v2} and {v1}, all kinds of subject, 1 fault or crash | what `completed` certifies, only the subject of a vehicle request is taken out, audit, every job reports |
| `startup` | 2 processes and an operator, 2 versions (the later needs the earlier and may be executed twice), fresh or initdb volume, 2 faults | the version table is true, ready means migrated, one signing key, initdb volumes are refused, a process that somebody keeps starting serves |
| `graph` | every client, 3 retries, 29 answers: all choices of signals and flags, the edges of the schema | only compliant policies go out, retries and dead letters say what was wrong with the last answer, a repeated prompt is futile, refinement of `PolicyLoop`'s graph |
| `access` | 2 requests, 2 tenants, 1 correlation id, tenant issuer with 2 key ids and a rotation, operator issuer | what row a disclosure commits, what a break-glass 404 means, what a genuine token may be refused for, what a charged request may still lose |
| `loop_lost`, `feedback_tenants`, `erasure_completes` | minimal | the three findings below |

*Bounds.*  Every race of the loop is between two requests, of one finding or of
one correlation id, so two suffice to meet it; two tenants because the audit
key spans tenants and row-level security does not.  A retry budget of one has
both the counted and the exhausted round.  A poll limit of one with two
deployments is the limit exceeded.  In `app` one fault is enough to separate
any two of the worker's transactions, and the properties count faults, so they
are not vacuous after it.  `MaxClock` lets the limiter's bucket empty, refill and
expire.  `loop` uses one finding id because two tenants already give two keys.
In `config` and `ownership` the clock runs past the bound that is checked, and
the bounds are tight: with one unit less TLC finds an answer or a delivery that
is too old.  Capacity 1 with two tenants makes every second put an eviction.
Requests (`config`) and calls (`ownership`) are symmetric; neither run has a
liveness property.  In `ownership` both tenants ask for policies that declare
the first: a requester that is the declared tenant and one that is not, under
one correlation id.  In `erasure` one request always takes the second
vehicle and the other any subject, so that the pairs are: one vehicle twice,
both vehicles of a policy, and a vehicle with a finding or a principal.  In
`startup` two versions give the order of migrations and one dependency, two
faults a rollback and a kill, or a kill during recovery.  The findings of
`graph` matter to the development client alone: one whose candidates it uses,
one whose text it cannot cut out of the prompt.  In `access` a key may be
retired once, under the same id or another, at the tenant issuer, which goes
down for it; the operator's has one key and stays up, and its set may lapse.
In `limiter` the refill is exact (rate 2, four ticks a second), so the rounding
of `token_bucket.lua:56` is not exercised.

*Fairness.*  Handlers, sessions and the worker are weakly fair: asyncio runs
every ready coroutine, and each awaited call returns or raises.  So are erasure
jobs, migration runners, and the steps of a start.  `startup` also assumes that
somebody starts a process again that has exited.  That is a premise the
repository does not provide: the API service of
`infra/compose/docker-compose.yaml` has no restart policy.  `StartsEventually`
says what a start achieves where something above compose repeats it.  Clients, crashes and faults are not fair, nor are
sessions in `Erasure`, where they may be rejected at any point; windows close
because time passes (only `app` assumes it).

*Deadlock* is checked but in `ownership`, `access`, `erasure` and `erasure_completes`,
whose calls and requests are used once: they stop when all have ended.
`Quiescent` in `PolicyLoop` is the state in which every request is done and the
service waits for the next.

## What is proved

Every safety invariant, action property and refinement that a run checks is a
theorem as well.

`CollectMindProofs`, for any tenants, findings, correlation ids and number of
sessions, from `PolicyLoopAssumption` and `FaultsAssumption` only: `TypeCorrect`, `SingleRecord`, `Lineage`,
`AuditTrail`, `UniqueAudit`, `Progress`, `Immutability`, `UnrecordedRejected`,
and `Refinement` of `FindingLifecycle`.  The invariant is the conjunction of the first six;
`ProgressInv` is what makes it inductive.  `OneRecordPerFinding`, say, is not
inductive alone: that a deployment row belongs to the policy's session follows
from the session having inserted that policy two transactions earlier, which
only `ProgressAt` remembers.  The proof has a frame lemma per table, a step
lemma per conjunct, and one case per location.

The same module goes on to the application, `AppSpec`, where the feedback worker
writes to the same tables and the process dies at any step.  With
`FeedbackAssumption` (a positive poll limit, a bound on faults) it proves
`AppTyped`, `OutcomesLinked`, `NoneDropped`, `SingleVerdict`, `FlawsCostFaults`,
`VerdictStands`, `AppRefinement`, and `RegistrySound`: what the loop promises
survives the worker.  The invariant, `AppInv`, has three parts.

- `CoreInv` is the loop's invariant, with what the worker's local variables mean
  at each await: the records in its queue are rows as `list_due` read them,
  since no one else expires a deployment (`QueueInv`); the verdict of the record
  in hand is true when it is written, and its outcome row is there before it is
  expired (`HandInv`); a deployment has one row (`RowsInv`).  `VerdictInv` says
  that the row that ends a session's trail is its last, without which a late
  `rejected` row could not be excluded.
- `CountInv` makes `OutcomeFlawsNeedFaults` inductive.  A deployment has as many
  outcome rows as there were faults at most, and one more only when it is
  `Spent`: expired, or in the worker's hand past the insert.  A fault or a crash
  takes the record out of the hand and pays for its row.
- `AuditInv` does the same for expired deployments without an audit row
  (`Unaudited`); these are counted, which needs the library's theorems on finite
  sets, and that there are finitely many deployments.

`VerdictStands` follows from `CountInv`: before any fault the record in hand has
no outcome row, and with one deployment per finding its finding has none.  The
answer is the latest row of its key; that there is one is a least-element
argument over the naturals, which the library's `WFMin` gives where induction
with an operator parameter cannot be used.

`PolicyGraphProofs`, for any vocabulary, PII branches, findings, answers of the
model server and retry budget, from `PolicyGraphAssumption`: `GraphTyped`,
`CompliantOnly`, `CurrentComplaints`, `RepetitionIsFinal`, and
`GraphImplementsLoop`, the refinement of `PolicyLoop`'s graph.  `SchemaHolds`,
`PiiIsBelow` and `ToldIsComplaints` show that the validator's checks, in their
order, say what `Complaints` says without an order; `NothingSaid` that a policy
of which they say nothing is compliant.  `GraphInv` adds to the properties that
the retry context follows the answers (`Chained`), that every answer but the
last was refused (`Refused`), and that decoding is a function of the prompt
(`Deterministic`).  `RepeatedPromptIsFinal` would need an induction along the
rounds, since a repeated prompt brings the same answer, so the same next prompt,
and so on to the last round.  `Echo` is that induction as an invariant: a session that has
sent one prompt twice is sending one again in its last round.

`TokenBucketProofs`, for any rate, burst, lag, number of requests, restarts and
drops: `LimiterTyped`, `RetryAfterTruthful` and `RestartCostsNothing` without
further hypotheses, `Paid` and `RateLimited` under two, stated in
the theorems.  `ExactRefill` says that the rounded refill time pays for the
tokens; `SlowRatesExact` and `FastRatesExact` prove it for rates that divide
1000 or are multiples of it, which the defaults 200 and 2000 are.  `Timely`
says that a request is quicker than an empty bucket fills.  `RateBound` needs
`Credit` to be inductive: every token in the bucket is paid for by time up to
the bucket's timestamp, and a bucket's TTL outlives its timestamp, so that a
bucket reborn full is paid for as well.  `RestartIsInvisible` needs `Reloaded`:
the script is missing where the middleware expects it only after a restart, and
after a second one when it has just been loaded again.

`TenantConfigProofs`, for any tenants, requests, TTL, read time and capacity,
from `CacheAssumption`: `AnswersBoundedStale` (refinement of
`BoundedStaleness`), `NotificationWorks`, `EveryChangeAudited`, `CacheFits` and
`ConfigTyped`.  The invariant bounds ages where they arise: a version a request holds was current
when it was read, which is at most `ReadLag` ago; a cached one was current at
most `Ttl + ReadLag` before its entry expires.  The second follows from the
first when the read is put, which is where the two times add up.

`StartupProofs`, for any migrations, dependencies, runners, processes and
faults, from `MigrationsAssumption` and `StartupAssumption`: `StartupTyped`,
`RecordTruthful`, `ReadyMigrated`, `InitdbRefused`, `SingleSigningKey`.  What
has to be added to make them inductive is what the code carries in local
variables: that `applied_versions` was true when it was read and can since have
become untrue only by a rollback, that an open transaction's version is not yet
recorded, and who may be writing the key file.

`AccessProofs`, for any requests, tenants, correlation
ids, key ids and rotations, from `TokenVerifierAssumption` and
`AccessAssumption`: `AccessTyped`, `DisclosureRecorded`, `NotFound`,
`GenuineKept`, `ChargedKept`, `StaleKept`.  The first three rest on an invariant
that ties every open transaction and every 404 to a row and every committed
break-glass row to the finished request of an operator; the others are action
properties, and rest on what one call of `verify` does to the caches
(`Verified`, proved along the branches of `_signing_key_or_refresh`).

`OwnershipProofs`, for any tenants, vehicles, scopes, calls, TTL and duration of
a call, from `OwnershipAssumption`: `OwnershipTyped`, `DeliveredScope`,
`RejectedCause`, `RejectionsOnRecord`, `HistoryOnRecord`.  The invariant
(`OwnershipInv`) says how old an owner may be wherever one is held.  What a call
read from the table was current after the call started; a cached owner was
current at most `Ttl + Window` before its entry expires, which follows when a
call writes back what it read; a vehicle a call has passed was its tenant's
less than `Ttl + Window` before the call started.  The second `Window` of
`DeliveredInScope` is the rest of that call.  For `RejectionsOnRecord` the
invariant adds that every rejection row is the row of a call that met a
mismatch (`RowsExplained`), so that a row taken for another is never one of
nobody.

`ErasureProofs`, for any policies, vehicles, requests, sessions and number of
faults, from `ErasureAssumption`: `ErasureTyped`, `Certified`,
`ErasureOnRecord`, `OnlySubject`, `ScopeKept`.  What makes `CompletedCertifies`
inductive is, per job, which stores it has behind it and with what status, and
that nothing brings a row back that was there when the job came by: a session
writes each of its rows once.

The last two assumptions also say that `None` is none of the values it stands
beside.

*Proved and in no run*: what a theorem gives for every instance and no hazard
needs a run for.  These are the type invariants of all modules but `CollectMind`
and `PolicyGraph`, the lineage, uniqueness, immutability and progress of the
policy loop (`Lineage`, `UniqueAudit`, `Immutability`, `Progress`), `Paid`,
`HistoryOnRecord`, `ScopeKept` and `StaleKept`.

*Only model-checked*: the liveness properties `EverySessionEnds`,
`EveryFindingConcludes`, `EveryRequestReported` and `StartsEventually`, which
need fairness and are outside the prover's reach, and what the findings below
refute.

## Where code and documents disagree

Each has a run that TLC refutes:

- `loop_lost`: the finding row is committed before anything exists that would
  process it, and the idempotency check goes by that row.  In TLC's trace the
  INSERT of `_persist_finding` (`http.py:128-151`) commits and its answer is
  lost: the handler answers 500, the retry is answered 202 as a replay, and
  nothing processes the finding (SC-005).  A failing audit write at
  `http.py:153` ends the same way.  The run has database faults only; that a
  crash after the 202 loses the session as well is not what it shows.
- `feedback_tenants`: the worker polls as `feature-001-default`, so no other
  tenant's deployment is ever evaluated (FR-009).
- `erasure_completes`: taking the only vehicle out of a policy's scope makes it
  NULL, which the column refuses; the statement fails for all policies, the
  request ends `partial`, and nothing tries again (FR-020a).

Met while modelling, visible in the modules, without a run of their own:

- two publications that pass the idempotency check together both deliver to the
  collector; only one is recorded (FR-008).  `UnrecordedIsRejected` is what
  holds: the other one is on record as rejected;
- at a rate that neither divides 1000 nor is a multiple of it, 1500 say, the
  script's timestamp advances by less than the refill is worth
  (`token_bucket.lua:56`, against its comment) and the tenant exceeds its rate;
  `RateLimited` is proved under `ExactRefill`;
- `jwt_verifier.py:118` promises a refresh "after a signature failure
  (post-rotation case)"; only a failed look-up refreshes.  A key rotated under
  the same key id, as the compose issuers do at every start, is refused until
  the API restarts or an unknown key id is looked up (`StaleKept`);
- a key set that cannot be fetched is a 401, not the `DependencyUnavailable` of
  the docstring at `jwt_verifier.py:129`, except before the first discovery,
  and through the limiter always;
- `audit_admin/api.py:10` says every invocation writes a row, and SC-013 asks for
  one per cross-tenant read; a second read under a correlation id writes none
  (`ON CONFLICT DO NOTHING`, `api.py:105`).  It answers whatever its own scope
  has under the id, on the first one's row: with a first read of tenant b and a
  second of tenant a, which has rows, the second is answered 200 and no row
  names its reader or tenant a.  Only if its scope has no row under the id does
  it answer 404 (`NotFound`).  `DisclosureCommitsRow` exempts these reads and
  shows that there are no others;
- FR-023 asks for a `deployment_rejected` row per mismatch, with the policy, the
  vehicle and the finding's lineage.  The row has no lineage, and a second
  mismatch of a tenant under one correlation id has no row: the first one's,
  about another policy or vehicle, is taken for it (`audit.py:113`).
  `RejectionsAudited` says what is left;
- `ratelimit/middleware.py:23` charges "every other authenticated endpoint" to
  the query bucket; `GET /findings/{id}/outcome` goes to the inbound one;
- `app.py:281` says the metrics middleware counts 429 and 503; it runs inside
  the limiter and never sees them;
- the initdb script makes a volume the runner cannot take over
  (`InitdbVolumeRefused`);
- `SchemaMatchesRecord` is about the runner and `rollback_one`.  Whoever executes
  a down script by hand leaves `schema_migrations` rows whose effects are gone,
  as `docs/PROJECT_STATE.md:41` reports of
  `tests/integration/test_rls_migration_rollback.py`; the model has no such step;
- two API processes that start for the first time together sign with different
  keys under one key id, and a kill between opening and writing the key file
  leaves one that no later start can load (`OneSigningKey`, `StartsEventually`
  name both cases);
- the schema check runs first and returns, so `WINDOW_OUT_OF_BOUNDS` is never
  reported and missing consent mostly as `SCHEMA_VALIDATION_FAILED`; the
  suggestions of `vss.py` reach no prompt; the stub client has no fixture for a
  live session, whose id is part of the prompt;
- a second tenant that reuses a correlation id gets a `RuntimeError` from
  the audit read-back, and two findings of one tenant under one id share their
  audit rows (`WriteRaises`, `AfterWrite`);
- a database failure after the `deployed` row gives the finding a `rejected` row
  as well (`OneVerdict` says that nothing else does);
- a policy the collector refused is dead-lettered as `VALIDATION_FAILED`;
- a crash between the outcome row and `mark_expired` yields a second outcome
  row (bounded by `OutcomeFlawsNeedFaults`);
- at a high acceleration the worker may evaluate before the telemetry is
  written, and conclude `no_data`;
- `token_bucket.lua` says it advances the timestamp when the clock went
  backwards, and does not;
- the configuration listener never reconnects after a drop, although its
  docstring says so: it waits on an event nobody sets (`drop`);
- a read under way when a notification arrives puts the old configuration back
  (`NotifiedIsFresh` says when it does not), so staleness is bounded by the TTL
  plus the time of a read, not by the five seconds of `research.md`;
- nothing calls `OwnershipCache.invalidate`; ownership is as stale as the TTL
  and the calls allow (`DeliveredInScope`, `RejectedForCause`);
- `app.py` wires neither the ownership cache nor the scope check;
- FR-020a wants the subject erased from every store, and `research.md:109` and
  `test_erasure.py` speak of identifiers replaced by a tombstone.  `completed`
  certifies less (`CompletedCertifies`).  The registry and the telemetry are
  touched for a vehicle only, and there the scope of `collection_policies` and
  the observations: `diagnostic_findings`, `deployment_targets`,
  `tenant_vehicles` with its history, and `policy_outcomes` keep the subject.
  In the audit log the identifiers stay where they are and `redacted_subject` is
  set beside them, on rows whose finding or principal equals the identifier,
  whatever the subject's kind, so on none for an ordinary vehicle id.  Whatever a
  session under way writes later stays;
- an erasure request whose audit row or final update fails stays `requested`;
  `in_progress` is never set.

*What the passing properties leave out.*  Some state what the code keeps of a
promise, and name in their formula the case in which it does not: `OneVerdict`
holds while the database answers; `RateBound` is claimed for exact refills;
`ReadyMeansMigrated` exempts versions an operator rolled back, `OneSigningKey`
two first starts that overlapped, `StartsEventually` a key file left empty,
`GenuineRefusedOnlyIfStale` a retired key under a reused key id,
`RejectionsAudited` and `DisclosureCommitsRow` a shared correlation id.  They
show that nothing else breaks the promise.  The hazards of `PROJECT.json` say so
where it applies.

## What is abstracted

Payloads, prompts, wording of errors, metrics and logs; the content of a policy
outside `PolicyGraph`, where it is the fields some check reads, with lists taken
as sets; telemetry as two levels.  Ed25519 and JWT signatures hold for the
payload and key they were made with and no other.  The SQL inside a migration
is the version it creates, with the tables' constraints and row-level security
in the modules that use them.  The rate limiter has one tenant with a fixed
configuration; in `Access` it answers 429 or 503 at will.  An issuer does not
change within one call of `verify`, which does not yield; keys fetched over HTTP
are those of the moment.  A database failure in `Erasure` and
`TenantConfigCache` rolls back; a commit whose answer is lost is modelled in
`Registry`, `Migrations`, `Access` and `Ownership` (`answer_lost`).  A crash is
the end of the process at any await (`LoseTasks`, `LoseWorker`, `crash`, `Kill`);
the orderly shutdown of `_lifespan` is `Stop` in `Startup`.

## Not modelled

- Kafka producing and consuming: thin wrappers, not on the path from a finding
  to an outcome (`Producer.start` is one of `Startup`'s fallible calls).
- The hot store's put and get: single Redis calls that nothing calls.
- The other read-only routes of the query API: single selects.
- Metrics, logging, tracing, dashboards: nothing reads them back.
- `deployer/real_stub.py`, which always raises and is not constructed; the
  finding generator; the scripts under `scripts/`.

A candidate for further work: `TokenBucket` with several tenants whose
configurations come from `TenantConfigCache`.
