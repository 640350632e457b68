# Verification of the Spark Connect gateway

TLA+ modules that model the gateway, TLC configurations that check them on small
instances, and theorems checked by TLAPS. Names of definitions follow the Rust
source; `PROJECT.json` maps each of them to its lines. Paths below are relative to
`src/`.

## The system and its parts

A gateway process reads its configuration, builds its pools, its affinity store,
its authenticator and its rate limiter, and then serves gRPC and an admin port
until SIGTERM (`crates/gateway`, `crates/config`). A client RPC enters one of twelve
tonic handlers (`crates/proxy/src/handler.rs`). The handler authenticates it,
resolves its tenant, asks the rate limiter, asks the `Router` (`crates/routing`) for
a backend address, forwards the RPC over a cached channel, and on the way out
records metrics and audit events. The router consults an `AffinityStore` (in memory
or in Redis) that holds two tables, session key to backend and operation id to
backend, and a pool per tenant (a static list, or one fed by a Kubernetes watcher,
with health checks around either) that picks backends for new sessions.

| Part | Source | Modules |
|---|---|---|
| RPC handlers, router, tenant routing | `crates/proxy/src/handler.rs`, `crates/routing` | `Proxy` |
| Memory store | `crates/store-memory` | `MemoryGateway` |
| Redis store, several replicas | `crates/store-redis` | `RedisGateway` |
| Session affinity as promised | `README.md`, `docs/` | `StickyRouting` (abstract) |
| Static and Kubernetes pools, pool gauge | `crates/pool-static`, `crates/pool-k8s` | `BackendPool` |
| Health checks, the pool of a tenant | `crates/healthcheck`, `crates/gateway` | `HealthAwarePool`, `TenantPool` |
| Rate limiters | `crates/ratelimit` | `RateLimits`, `MemoryLimiter`, `RedisLimiter`, `RateLimiter` |
| Authenticators, OIDC key cache, tenant resolver | `crates/auth`, `crates/tenant` | `Authenticators`, `Authentication` |
| Configuration | `crates/config` | `Config` |
| `main`, drain, readiness, admin server | `crates/gateway`, `crates/observability/src/admin.rs` | `GatewayProcess` |
| Artifact pump, channel cache | `handler.rs`, `crates/proxy/src/dial.rs` | `ArtifactPump`, `Dialer`, `Uploads` |
| Audit events, RPC and stream guards | `crates/audit`, `crates/observability/src/metrics.rs` | `Proxy` |

## Modules

Definitions called "Mutant" are wrong versions of the definition that follows them;
each breaks the property listed with it in `PROJECT.json`, and no action uses them.
A module's type invariant documents its state. A variable marked "history" is read
by no action's guard; it remembers what a property speaks of. `Option` declares `None`,
the missing value, which all modules share.

**`Proxy`** is the handlers and the router, without a store. An RPC is an identity
used once; `pc[r]` is the point its task has reached. An action is what the task
runs between two points where others can observe or change shared state, so lookup,
bind, remember, forget and the exchange with the backend interleave freely. A lookup
and the pick after it are one action (the pick touches only the pool's cursor).
`Cancel` is tonic dropping the handler's future where an await can be pending. `Kinds`
gives each RPC the kinds it may be, so that a run can be about a few of them. The
driver (`Drive`) is external: it holds sessions and operations, and is modelled from
the protocol file and what the handlers rely on. Verdicts of authentication and of
the rate limiter are free choices here; their own modules say when they occur. An
operation id is whatever a client sends: any RPC that carries one may name any
operation, under any session. The audit log is a set of events that name their RPC, so
two identical events of one RPC would count as one.

**`MemoryGateway`** extends it with the six operations of the memory store, one
atomic step each because a lock makes them so. **`StickyRouting`** says what affinity
promises: a call is served in one step, by the pinned backend or by one it then pins.

**`RedisGateway`** extends `Proxy` with the Redis store and several replicas. A store
operation is a sequence of Redis commands sent while the replica's connection mutex
is held: GET then EXPIRE, SET NX then GET, SET, DEL. Between any two commands keys
may expire and other replicas may act. A command may fail without effect, or its
effect may come later (`late`), and a caller may disappear while it waits
(`CancelInStore`), which releases the mutex and leaves the command on its way. Which
replica an RPC comes through is chosen initially among `Placements`. The
code joins tenant, user and session id with `|` into one Redis key; the model keys
the table by the fields, which is the same table while no field contains a `|`.
Pools do not change here: a pick may draw any member at any time, so a change would
add only the RPC that finds no backend, which `all_kinds` has.

**`BackendPool`** is both pools. The API server and kube's watcher are external: an
object changes, the watch is lost, a relist follows, and the pool's task consumes
the events in order. `set_backends` swaps the list and calls the observer in a
second step, as the code does after releasing its lock. The cursor wraps at
`2^CursorBits`. The code's loops over subsets and addresses (`extract_addresses`,
`healthy_snapshot`) are recursive functions that go through the sequence as the loop
does, which is also the form that theorems can be proved about. **`HealthAwarePool`** extends it with probe rounds whose probes end
in any order beside picks and membership changes. `mark_unhealthy` has no caller
among the handlers; the constant `Marks` includes it all the same, as the trait
offers it. A probe round is over the set of members: the code probes an address that
is listed twice a second time. **`TenantPool`** is the pool as `main` builds it, with
or without health checks around it (`wrap_with_healthcheck`).

**`RateLimits`** has what the two limiters share. Tokens are counted in fractions of
1/`Unit`, so that slow rates are exact; how the code's f64 arithmetic rounds is left
out. **`MemoryLimiter`** is the limiter of one process. **`RedisLimiter`** runs
the Lua script atomically with the time its caller read earlier. Its connection
mutex only orders the calls of a replica, and the model allows every order. The
replicas' clocks agree; the code has no other source of time. The history `given`
counts the tokens a bucket gave by the time that was read for them, from which
`Between` tells what any window got. **`RateLimiter`** is the limiter that
`rate_limit.store` selects.

**`Authenticators`** has the stateless computations: constructors and their errors,
bearer tokens, claims, tenant resolution, the label of a failure. A JWT's signature,
issuer, audience and expiry checks are the external library's: `sound` is their
outcome. **`Authentication`** runs concurrent requests through them, with the OIDC
key cache, its lock and its refresh floor, against a provider that rotates keys,
publishes unusable ones and fails.

**`Config`** maps a configuration file, a record of the blocks present, to what
`load` and the `build_*` functions make of it. **`GatewayProcess`** takes such a file
through every step of `main`, with the two Redis retry loops, the drain task, the
two servers, clients' calls, and Kubernetes following `/readyz`. That a server which is
told to stop waits for the calls it has accepted (`GrpcClosed`) is tonic's behaviour:
external; `SigtermEnds` and the run `deadline` rest on it. The history `pending` remembers the
streams that were active when the drain began.

**`ArtifactPump`** is one AddArtifacts call from its first message on, with the
bounded channel between pump and backend. A message may be an error of the inbound
stream (`bad`: over the size limit, or malformed), after which the client and the call
live on; a connection that breaks is another matter (`client = "broken"`). The backend
may answer, also with OK, before it has read everything, as gRPC allows. **`Dialer`** is
the channel cache, whose check and insert are two critical sections; `opened` lists the
channels with their address and the thread that opened them, and a channel is its place
in that list. **`Uploads`** composes the two.

## Runs

| Run | Instance | Distinct states |
|---|---|---|
| `all_kinds` | 2 RPCs of any kind, 4 keys, 3 tenants (one unmapped, Reject), a static and a watched pool, 1 operation id that any key may use | 1.14 M |
| `sessions` | 4 RPCs of one session, 2 backends | 0.41 M |
| `redis` | 2 RPCs on one replica or on two, 1 session, 1 operation, keys that expire, faults | 0.64 M |
| `pools` | static and Kubernetes, with and without health checks, 2 addresses, 2 objects, 4 changes (2 under health checks), thresholds 2 and 2, cursors of 3 and 1 bits | 0.43 M |
| `limiters` | 3 tenants, 2 users, a fractional rate; in process 4 ticks; shared 3 calls of 3 possible callers, 2 ticks, key TTL 2, both failure modes | 0.39 M |
| `auth` | 38 configurations, 2 requests; for OIDC floors 0 and 2, 3 ticks, 2 rotations | 0.48 M |
| `process` | 29 configuration files, 2 calls, retry budget 3 and interval 2, every fault | 0.12 M |
| `uploads` | 2 threads, 3 messages, channel of 2, 3 channels opened | 67 k |
| `clone`, `port`, `deadline`, `remainder` | 2 RPCs, 2 keys; 2 files, a taken port; 2 calls, no fault; as `uploads` | violations |

What the runs show:

- `all_kinds`: no session is bound outside its tenant's pool, and an RPC is given a
  backend of another pool only by the operation index, and then one of a tenant that
  sent an ExecutePlan with that id (`TenantIsolation`); a failed RPC leaves exactly one failure event unless it
  was cancelled or rate limited (`FailureAuditedOnce`); the stream gauge
  is exact (`StreamGaugeExact`); a follow-up finds the driver of a running operation
  (`OpReachesDriver`).
- `sessions`: RPCs routed between two releases of a session agree
  (`OneBackendPerEpoch`), so an unreleased session lives on one driver
  (`SessionOnOneDriver`), bindings end only by release, and the gateway implements
  `StickyRouting`.
- `redis`: what survives Redis' faults, whether the RPCs queue for one connection or
  have one each. RPCs that the store did answer agree across
  replicas (`AffinityAcrossReplicas`); a binding never moves in place
  (`BindingNeverMoves`); the connection is never left locked (`ConnectionReleased`);
  a binding is in the audit log unless its maker was cancelled or routed by
  operation (`BindingAudited`); the index never names a wrong driver
  (`OpIndexTruthful`); every RPC ends (`EveryRpcEnds`).
- `pools`: a watcher that has caught up holds exactly the ready pods of an existing
  object; list and gauge come to rest on it; picks are even within a turn of the
  cursor (the wrap itself may repeat or skip a backend once, when the length of the
  list does not divide the cursor's range). With health checks, evictions and
  re-admissions need, and follow, their streaks; wedged backends are evicted and sound
  ones admitted for good; a pick is possible while anything is up.
- `limiters`: in process, lazy refill equals continuous refill (`BucketExact`) and no
  window of time admits more than burst plus rate (`QuotaHeld`). Shared, the same over
  all replicas, as long as calls reach the script in the order in which they read the
  clock and keys live long enough to fill up (`SharedQuotaHeld`), and nobody is
  admitted without having paid every enabled bucket, but for errors in fail-open mode
  (`AdmittedPaid`).
- `auth`: equal credentials are equal callers unless the tenant comes from a header;
  refreshes are single-flight and respect their floor; a rotated key is accepted
  unless the floor or a failure stands in the way; every request ends.
- `process`: each default written twice in `Config` is the same both times
  (`BlockDefaultsAgree`); Redis gets its whole retry budget and start-up ends all the
  same; SIGTERM ends the process if calls end (`SigtermEnds`), and the servers are told
  to stop only after readiness was withdrawn and the streams found at SIGTERM have ended
  or the deadline has come (`DrainGraceful`).
- `uploads`: the backend receives a prefix of the upload, and when it reads the request
  of a client that ended its stream to the end, all of it up to a message that could
  not be decoded (`UploadFaithful`, `UploadArrives`); the pump ends with its call; a
  thread opens at most one channel to an address however calls race
  (`OpenedOncePerThread`).

Bounds. Two RPCs, requests or replicas are enough for a race of two; the session run
has four, so that two can race to bind around a release and a fourth sees the
result; the shared limiter has three, so that two tokens can be spent and a third
refused. Two RPCs of one replica contend for its connection; two of different replicas
race in Redis. Two backends tell "the same" from "another". The clocks reach the
refill of a bucket and the end of a key's life (`limiters`, `redis`) and the floor
(`auth`). The limits are such that the tenant's bucket refuses first at one time and the
user's at another. Streaks reach both thresholds and saturate there (`MaxStreak`). The
channel of 2 is full when the first message and another wait in it, and a third then
waits for room. RPCs are interchangeable, so `all_kinds`, `sessions`, `clone` and
`limiters` use their permutations as symmetry; no run with a liveness property does.

Assumptions. `OpReachesDriver` and `OpIndexTruthful` are about operation ids that one
ExecutePlan carried: clients mint them as UUIDs. To a driver an operation belongs to the
session that executed it, so that others cannot release it (`Executed`, external).

Fairness. All of it is weak fairness.
- Steps of a task (`Step(r)`, `Main`, `Pump`, `watcher_step`, probe steps): tokio polls
  every woken task.
- `redis`: a command is answered or its connection fails, and an exchange with a
  backend ends. The latter is an assumption about backends and connections, since
  the gateway puts no deadline on a forwarded RPC.
- `pools`: kube's watcher retries for ever; a probe has a timeout. Changes
  of the cluster and of backends' health, and probes that fail without reason, are
  finitely many (`MaxChanges`, `MaxWrappedChanges`); without that nothing would come to rest.
- `auth`: the HTTP client has a timeout, so a fetch is answered or fails.
- `process`: time passes; calls end (`Done(c)`): without it `serve_with_shutdown` may
  wait for ever. `deadline` assumes only the former, as the sentence it checks does.
- `uploads`: a backend that is sent messages reads them; a client ends its stream
  once its call is over, as gRPC libraries do when they see the status.
Clients need not send, cancel or stop; pools and Redis need not recover.

## Theorems

Every safety invariant and every action property that a passing run checks is also a
theorem. TLC checks the instances above; TLAPS proves them for any number of RPCs,
sessions, operations, tenants, pools, backends, replicas, requests, users, threads,
messages and calls, and any thresholds, budgets and channel size. The only hypotheses
are the named ASSUMEs of the modules, which the runs evaluate: constants have their
types, `None` is none of the values it stands beside (for a configuration file: a null
is no mapping, `NullAssumption`), rates and TTLs are naturals, a refused address is an
address. Four say more. `RedisAssumption` fixes the pools (`DynamicPool = {}`, see
above) and keeps session keys and operation ids apart, as the code's two key prefixes
do. `SettingsAssumption` says an authenticator is one of the four of `AuthConfig`.
`HealthAssumption` has both thresholds at least 1 and at most the bound where streaks
saturate (2^32 - 1 in the code). `ProcessAssumption` has the retry interval above 0.
Bounds such as `MaxClock`, `MaxChanges` and `MaxMessages` stay in the theorems as
arbitrary naturals.

| Module | Theorems (the property a run checks on an instance) |
|---|---|
| `MemoryGatewayProofs` | `TypeCorrect` (`TypeOK`), `SessionAffinity` (`OneBackendPerEpoch`), `Isolation` (`TenantIsolation`), `Stickiness` (`StickyRoutingImplemented`), `BindingsEndByRelease` (`BindingEndsByRelease`), `SessionsStay` (`SessionOnOneDriver`), `OperationsReached` (`OpReachesDriver`) |
| `MemoryGatewayCounts` | `FailuresAudited` (`FailureAuditedOnce`), `GaugeExact` (`StreamGaugeExact`) |
| `RedisGatewayProofs` | `NoLeakedConnection` (`ConnectionReleased`), `AffinityOverRedis` (`AffinityAcrossReplicas`), `BindingsAudited` (`BindingAudited`), `IndexTruthful` (`OpIndexTruthful`), `BindingsStay` (`BindingNeverMoves`) |
| `PoolProofs` | `PoolFollowsObject` (`PoolReflectsObject`), `PicksSpreadEvenly` (`RoundRobinEven`), `EvictionsEarned` (`FlipsFollowStreaks`), `TrafficKeepsFlowing` (`TrafficFlows`) |
| `ServiceProofs` | `LazyRefillExact` (`BucketExact`), `Quota` (`QuotaHeld`), `SharedQuota` (`SharedQuotaHeld`), `AdmittedCallsPaid` (`AdmittedPaid`); `MemoryChosen` and `RedisChosen` carry them over to `RateLimiter` |
| `AuthenticationProofs` | `SingleFlight` (`RefreshSingleFlight`), `FloorHeld` (`RefreshFloorHeld`), `RotatedKeys` (`RotatedKeyAccepted`), `SameCaller` (`SameCredentialSameCaller`) |
| `ComponentProofs` | `UploadsFaithful` (`UploadFaithful`), `ChannelsReused` (`OpenedOncePerThread`), `DrainsGracefully` (`DrainGraceful`), `RedisBudgetHeld` (`RedisGetsItsBudget`), `DefaultsWrittenTwiceAgree` (`BlockDefaultsAgree`) |

`ProxyLemmas` holds what both stores share: which variables a step of a handler may
change (`OnlyRpc`, `ProgressFrame`), what is known of a request at each point
(`RequestInv`), and the ways a call goes on (`Arrives`, `Goes`, `Opens`, `Ends`,
`Closes`; lemma `ProgressShape`). The inductive invariants are stated in
the specifications, beside the properties; each was checked with TLC on the instance
of its run before it was proved.

**Routing** (`RoutingInv`). `OneBackendPerEpoch` alone is not inductive: a new RPC
gets its address from the table, so the table must agree with the RPCs routed in the
current epoch (`EraInv`). `TenantIsolation` alone is not either: addresses come back
from the session table, the operation index and the pools, so a session's entry must be
of its tenant's pool and an operation's of the pool of a tenant that sent an ExecutePlan
with it (`PoolInv`, `MayRun`), and the address a bind proposes must be a pick of the
tenant's pool (`AddrInv`). Lemmas `ForwardInv`, `RouteInv`, `MoveInv` and `ReturnInv`
cover the four ways an RPC changes; `StepInv` has a case per action. For
`Stickiness`, a lookup hit and a bind are `Serve`, `forget_session` is `Release`,
everything else stutters. `StickyRouting` states safety only, so this refinement is
proved in full.

**Where sessions and operations live** (`HostInv`, `IndexInv`). A driver gets a
session only from an RPC that is about to be sent, and such an RPC has an era; while
nobody has sent a release the key is in epoch 0, so `EraInv` ties that RPC's address,
and therefore the driver, to the table. For an operation, the index entry is written
before the ExecutePlan is sent and removed only by a release that got past its
lookup. While the operation is `Untouched` in that sense, the only driver that runs
it is the one in the index, and a follow-up is forwarded there.

**What is logged and counted** (`CallInv`, `GaugeInv`). `CallOK` says which failure
events an RPC has left at each point; every way a call goes on keeps it. The gauge is
the cardinality of a finite set that gains an RPC when it arrives and loses it when
it ends, in the handler or in the stream that its guard was handed to.

**Redis** (`RedisInv`). `ConnInv`: who holds a replica's connection is waiting for
exactly one command, the one its point calls for. `AnswerInv`: an answer is stamped
with the epoch in which Redis gave it; an answer of the current epoch is what the
table still holds, and two answers of one epoch are equal. Expiry, release and a late
DEL each begin a new epoch, which is why commands that outlive their caller do no
harm. `got` keeps an RPC's answer after it is routed, so that the invariant can speak
of it; no guard reads it then. `TableInv`: every binding, every index entry, every
running operation and every write that may still arrive late (`late`) has an RPC that
accounts for it, which is what `BindingAudited` and `OpIndexTruthful` need of a SET or
SET NX that takes effect after its caller is gone.

**Pools** (`PoolInv`). The list alone says nothing while events are queued. `InStep`:
while the watch is up, the last queued event that replaces the list carries the
object as the API server has it, and if none is queued the list is already made of
that object. A lost watch empties the claim, a relist renews it. For the picks,
`RoundRobinEven` alone is not inductive, since it does not say which backend is next.
`Even` does: the picks since the list last changed or the cursor wrapped went round
the list k times from some position, and then as far as the cursor.

**Health checks** (`HealthInv`). The streak that the code keeps for a backend is the
length of the run of observations against its state, saturated, and an evicted
backend has fewer successes than the threshold. `EvictionsEarned` compares this with
the runs of observations themselves (`run`), also for a probe round that is applied
after membership changed under it.

What a loop over a sequence of any length computes is a matter of induction, and the
library's induction theorems are out of the provers' reach because they take an
operator. `PoolProofs` does without: a set of naturals that is not empty has a least
element (`LeastNumber`, from the theorem that `<` is well founded, which takes a set);
from it, a function that follows a step rule up to any length exists (`Recursion`),
`extract_addresses` returns exactly the ready addresses (`ExtractsReady`), and
`healthy_snapshot` exactly the backends that are not evicted (`SnapshotIs`).

**Memory limiter** (`LimiterInv`). No bucket's timestamp is in the future and none is
above its capacity; with that, `refilled(i) = Capacity(i) - taken[i]` is inductive,
and the quota follows because an admission takes a token of every bucket it asks.

**Shared limiter** (`SharedInv`). `Backed`: for every start of a window, what a bucket
gave since then plus what it holds is at most its capacity plus what the rate yields.
An absent key counts as a full bucket, which is right because a key that expires has
lived long enough to fill up. `CallInv` has each call's payments: it asks the user's
bucket only after the tenant's is paid or, in fail-open mode, in error.

**Uploads** (`PumpInv`, `DialerInv`). The backend has the first messages, the channel
the ones after them, and the pump at most the next; while the backend reads, these add
up to what was read from the client, and the pump ends only at the end or at an error of
the inbound stream. So a backend that saw the end of the request of a client that ended
its stream has everything that was readable. In the cache, a channel that was opened is
either in the table, where no insert removes the entry, or held by the thread that is
about to insert it; so a thread that misses has opened none to the address.

**Process** (`ProcessInv`). Once the drain has begun nothing makes the gateway ready
again, and the streams in `pending` are among the active ones, so that an empty gauge
means that all of them ended, whatever began meanwhile. What a retry loop has waited and
what is left of its budget add up to at least the budget. `DefaultsWrittenTwiceAgree` needs no invariant
of the process: for every file, `load` and `Running` are computed block by block, and
each block's default is the same from a missing key as from a mapping without fields.
The theorem is about any set `Yaml` of files, the run about twenty-nine of them.

**Authentication** (`LockInv`, `KeyInv`, `CallerInv`). The lock is held exactly during
a fetch, and the cache is at least as old as the floor for as long as one is out;
from this, single flight and the floor. For `RotatedKeys`, an answer that the
provider gave since a request began to fetch contains the request's key, and so does
the cache it reads again, even if another request replaced it in between. For
`SameCaller`, an accepted request's outcome is what the configured authenticator and
the resolver make of its metadata.

Only model-checked:

- Liveness (`EveryRpcEnds`, `EventuallyReflects`, `WedgedIsEvicted`,
  `SoundIsAdmitted`, `EveryRequestEnds`, `StartupEnds`, `SigtermEnds`,
  `PumpEnds`, `UploadArrives`): fairness and ENABLED are out of the prover's reach.
- The four counterexamples below (`clone`, `port`, `deadline`, `remainder`).

## Where documentation and code part ways

Four are shown by runs that end in a violation:

- `clone` (`handler.rs`:725): `README.md`:20 has each session pinned to one backend
  for its lifetime. A cloned session lives on its parent's driver, but the gateway
  binds nothing for it, so its first RPC may be pinned elsewhere.
- `port` (`crates/gateway/src/main.rs`:180): line 262 says readiness reflects that
  the gateway can serve at all. A gRPC port that is taken makes
  `serve_with_shutdown` return an error, which `main` looks at only after the admin
  task has ended. Until SIGTERM `/readyz` answers 200 for a gateway that listens
  nowhere.
- `deadline` (`crates/gateway/src/main.rs`:176): `crates/config/src/lib.rs`:515 calls the
  drain deadline a hard ceiling, after which the gateway "forcibly shuts down regardless
  of in-flight streams"; `docs/deployment.md`:453 has streams cancelled then, and 461 a
  query in flight cut; `docs/runbook.md`:454 has the server tear connections down, and
  the log (`main.rs`:136) says "forcing shutdown". Past the deadline
  `serve_with_shutdown` still waits for every open call, and a client that keeps its
  stream open keeps the process alive, until Kubernetes kills it.
  `docs/perf-baseline.md`:162 describes this as the behaviour intended.
- `remainder` (`handler.rs`:908): the comment at 891 says the first message is forwarded
  "plus the remainder". A message that is too large or malformed ends the pump as the end
  of the stream does; the backend takes what it got for the whole upload, and the client,
  whose call is alive, may be told OK.

The others were met while modelling; the models do what the code does.

Redis store (`crates/store-redis/src/lib.rs`):
- `README.md`:231 says the loser of a bind race routes to the winner's backend. When
  the key is gone by the time the loser reads it back (154), the loser goes by its
  own pick, which it has not written. `AffinityAcrossReplicas` therefore speaks of
  RPCs that the store gave an answer.
- Line 14 says the TTL is refreshed on every successful resolve; the loser's GET
  (148) refreshes nothing.
- `README.md`:24 says a reattach reaches the owner of its operation even if the
  session's affinity has expired. An operation that streams for longer than `op_ttl`
  (203) is no longer indexed and the reattach falls back to the session. Hence
  `OpIndexTruthful` here, and `OpReachesDriver` only for the memory store.

Audit log:
- `crates/routing/src/lib.rs`:202 says `session.create` fires exactly once per
  session lifetime. Two resolvers that race with the same pick both report a fresh
  binding (290).
- `crates/audit/src/lib.rs`:16 says it fires when a session is first bound. Bindings
  made by operation-routed RPCs (`routing/src/lib.rs`:312), or by one that was
  cancelled while its SET NX was on its way, have none.
- `crates/audit/src/lib.rs`:168 lists `ResourceExhausted` among the codes of
  `rpc.error`; the limiter's error returns before the audit context is set
  (`handler.rs`:225), and the RPC leaves no event.

Handlers and pools:
- `handler.rs`:607 says a successful release means that the operation is gone; line
  609 also drops the index entry after a `ReleaseUntil`, which leaves the operation
  running (`proto/spark/connect/base.proto`:950).
- `docs/multitenancy.md`:33 has RPCs from unmapped tenants never reach a backend when
  both policies reject. `resolve_op` goes by the operation index before it asks
  `pool_for` (`crates/routing/src/lib.rs`:305), so the sentence holds for RPCs routed by
  their session; `TenantIsolation` says what holds for the others.
- `crates/pool-k8s/src/lib.rs`:20 says every event replaces the list. An object
  deleted while the watch was down is reported by its absence from the relist, on
  which lines 149-157 keep the old backends.
- `crates/observability/src/metrics.rs`:97 and `README.md`:97 call the pool gauge the
  number of healthy backends; its observer sits inside the health checker
  (`main.rs`:288), so evicted backends stay counted.

Rate limits and authentication:
- `crates/ratelimit/src/lib.rs`:315 says a tenant-scope rejection means that the
  entire tenant is hot. The tenant's token is taken before the user's bucket is
  asked (317), so rejected calls of one user empty the tenant's bucket too.
- `docs/multitenancy.md`:334 and `crates/config/src/lib.rs`:266 call the shared quota
  exact. `now_ms` is read before the connection is waited for
  (`crates/ratelimit/src/redis.rs`:229), so a call may reach the script after a later
  one and the interval between them is refilled twice. `SharedQuotaHeld` names this
  exception (`behind`).
- `crates/auth/src/oidc.rs`:48 has a minimum interval between forced refreshes; only
  a successful fetch moves `last_refreshed` (218), so failing ones are not spaced.
  `RefreshFloorHeld` is about replacements of the keys.
- `crates/tenant/src/lib.rs`:93 says the tenant is never empty; an empty
  `default_name` is passed on (111).
- `docs/runbook.md`:166 has the failure reason `expired`; the authenticators answer an
  expired token with "invalid JWT", which is labelled `invalid_token`
  (`handler.rs`:263).

Process:
- `docs/runbook.md`:60 and `crates/observability/src/admin.rs`:41 have readiness wait
  for the first backend; it is set when the pools have been built (`main.rs`:317).
- `docs/architecture.md`:339 has Kubernetes drain the pod before the server stops
  accepting; the wait ends as soon as no stream is active (`main.rs`:120), which may
  be before Kubernetes has looked.

## Not modelled

- Generated protocol code, examples and the load generator: no state of the gateway.
- Formatting of audit lines, log lines, metrics exposition, histograms, spans and
  propagated headers: pure reporting. Which events are written, and the two gauges,
  are modelled.
- YAML syntax and the types of scalars; `interval_secs: 0`, on which tokio's
  `interval` panics, is outside the configurations considered.
- Cryptography, the HTTP and Redis protocols, the gRPC transport: external, reduced
  to their outcomes.
- When a withdrawn OIDC key stops being accepted: the code promises nothing.
- The components are composed where they share state (handlers with each store,
  health checks with the pools, pump with the channel cache, configuration with the
  process). Handlers with limiters and authenticators are not: these only give
  verdicts, and `Proxy` allows every verdict at every time.
