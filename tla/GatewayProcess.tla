--------------------------- MODULE GatewayProcess ---------------------------
(***************************************************************************)
(* The life of a gateway process: main of crates/gateway from the          *)
(* configuration to the exit code, with the drain task, the admin server   *)
(* and the gRPC server it starts, the calls these serve, and Kubernetes    *)
(* following /readyz (external).                                           *)
(*                                                                         *)
(* Timers count down: one tick is one unit of the configured intervals.    *)
(***************************************************************************)
EXTENDS Config

CONSTANTS
  Yaml,       \* configuration files
  Call,       \* concurrent calls of clients
  Budget,     \* STARTUP_REDIS_RETRY_BUDGET
  Interval,   \* STARTUP_REDIS_RETRY_INTERVAL
  Deadline,   \* [deadline_secs -> ticks]
  Faults,     \* what may fail: a subset of {"redis", "idp", "k8s", "port"}
  MaxFlips    \* bound: changes of Redis' reachability

ASSUME ProcessAssumption ==
  /\ Budget \in Nat /\ Interval \in Nat \ {0} /\ MaxFlips \in Nat
  /\ Faults \subseteq {"redis", "idp", "k8s", "port"}
  /\ None \notin {"ok", "error", "killed"}

VARIABLES
  yaml,       \* the configuration file
  stage,      \* what main is at
  budget,     \* ticks to the deadline of the retry loop
  sleep,      \* ticks of its sleep that are left
  waited,     \* history: ticks since the retry loop began
  ready,      \* ReadinessProbe
  drain,      \* the drain task
  left,       \* ticks to the drain deadline
  signal,     \* a SIGTERM that has been sent
  shutdown,   \* the value of the shutdown channel
  pending,    \* history: streams that have been active since the drain began
  admin,      \* the admin server
  grpc,       \* the gRPC server
  call,       \* call[c]: a client's call; only "stream" counts as an active stream
  member,     \* Kubernetes routes new connections here
  redis,      \* Redis can be reached
  flips,
  exit        \* how the process ended, None while it runs

startVars == <<budget, sleep, waited>>
stopVars == <<drain, left, signal, shutdown, pending>>
srvVars == <<admin, grpc>>
envVars == <<member, redis, flips>>
pVars == <<yaml, stage, startVars, ready, stopVars, srvVars, call, envVars, exit>>

cfg == load(yaml)

Starting == {"load", "tracing", "routing", "store", "auth", "limiter", "bind"}
Stages == Starting \cup {"admin", "serve", "join", "end"}
CallStates == {"idle", "open", "stream", "refused", "cut"}

ProcessTypeOK ==
  /\ yaml \in Yaml
  /\ stage \in Stages
  /\ budget \in 0 .. Budget
  /\ sleep \in 0 .. Interval
  /\ waited \in 0 .. Budget + Interval
  /\ ready \in BOOLEAN /\ signal \in BOOLEAN /\ shutdown \in BOOLEAN
  /\ pending \subseteq Call
  /\ drain \in {"off", "spawned", "waiting", "draining", "done"}
  /\ left \in Nat
  /\ admin \in {"off", "up", "down"}
  /\ grpc \in {"off", "listening", "closing", "closed", "failed"}
  /\ call \in [Call -> CallStates]
  /\ member \in BOOLEAN /\ redis \in BOOLEAN
  /\ flips \in 0 .. MaxFlips
  /\ exit \in {None, "ok", "error", "killed"}
  /\ stage = "end" <=> exit # None

ProcessInit ==
  /\ yaml \in Yaml
  /\ stage = "load"
  /\ budget = 0 /\ sleep = 0 /\ waited = 0
  /\ ready = FALSE
  /\ drain = "off" /\ left = 0 /\ signal = FALSE /\ shutdown = FALSE
  /\ pending = {}
  /\ admin = "off" /\ grpc = "off"
  /\ call = [c \in Call |-> "idle"]
  /\ member = FALSE /\ flips = 0
  /\ redis \in {TRUE} \cup {FALSE : f \in Faults \cap {"redis"}}
  /\ exit = None

----------------------------------------------------------------------------
(* Start-up: each step of main, an error of which ends the process *)

\* The process ends: tasks die, open calls are cut.
End(how) ==
  /\ stage' = "end"
  /\ exit' = how
  /\ admin' = "down"
  /\ grpc' = IF grpc \in {"listening", "closing"} THEN "closed" ELSE grpc
  /\ call' = [c \in Call |-> IF call[c] \in {"open", "stream"} THEN "cut" ELSE call[c]]
  /\ UNCHANGED <<yaml, startVars, ready, stopVars, envVars>>

Goto(s) == stage' = s /\ UNCHANGED exit

Load ==
  /\ stage = "load"
  /\ \/ /\ IsError(cfg)
        /\ End("error")
     \/ /\ ~IsError(cfg)
        /\ Goto("tracing")
        /\ UNCHANGED <<yaml, startVars, ready, stopVars, srvVars, call, envVars>>

Tracing ==
  /\ stage = "tracing"
  /\ \/ /\ IsError(init_tracing(build_tracing(cfg.tracing)))
        /\ End("error")
     \/ /\ ~IsError(init_tracing(build_tracing(cfg.tracing)))
        /\ Goto("routing")
        /\ UNCHANGED <<yaml, startVars, ready, stopVars, srvVars, call, envVars>>

DiscoveryBlocks(c) == {c.discovery} \cup {c.tenant_pools.overrides[t] : t \in DOMAIN c.tenant_pools.overrides}

\* build_pool_from_discovery: a static list, or a watcher's client.
PoolFails(d) == d.type = "static" /\ IsError(StaticPool_new(d.addresses))

\* build_tenant_routing: the default pool and the overrides, then ready.
build_tenant_routing ==
  /\ stage = "routing"
  /\ \/ /\ \/ \E d \in DiscoveryBlocks(cfg) : PoolFails(d)
           \/ "k8s" \in Faults /\ \E d \in DiscoveryBlocks(cfg) : d.type = "k8s"
        /\ End("error")
     \/ /\ \A d \in DiscoveryBlocks(cfg) : ~PoolFails(d)
        /\ ready' = TRUE
        /\ Goto("store")
        /\ budget' = Budget /\ sleep' = 0 /\ waited' = 0
        /\ UNCHANGED <<yaml, stopVars, srvVars, call, envVars>>

\* Mutant: the deadline moves with every attempt.
retry_with_budget_renewed(next) ==
  /\ sleep = 0
  /\ \/ /\ redis
        /\ Goto(next)
        /\ budget' = 0 /\ waited' = 0
        /\ UNCHANGED <<yaml, sleep, ready, stopVars, srvVars, call, envVars>>
     \/ /\ ~redis
        /\ budget' = Budget
        /\ sleep' = Interval
        /\ UNCHANGED <<yaml, stage, waited, ready, stopVars, srvVars, call, envVars, exit>>

\* Mutant: the first failure is final.
retry_with_budget_once(next) ==
  /\ sleep = 0
  /\ \/ /\ redis
        /\ Goto(next)
        /\ budget' = 0 /\ waited' = 0
        /\ UNCHANGED <<yaml, sleep, ready, stopVars, srvVars, call, envVars>>
     \/ ~redis /\ End("error")

\* One attempt; when it fails before the deadline, the next after a sleep.
retry_with_budget(next) ==
  /\ sleep = 0
  /\ \/ /\ redis
        /\ Goto(next)
        /\ budget' = 0 /\ waited' = 0
        /\ UNCHANGED <<yaml, sleep, ready, stopVars, srvVars, call, envVars>>
     \/ /\ ~redis /\ budget = 0
        /\ End("error")
     \/ /\ ~redis /\ budget > 0
        /\ sleep' = Interval
        /\ UNCHANGED <<yaml, stage, budget, waited, ready, stopVars, srvVars, call, envVars,
                       exit>>

build_affinity_store ==
  /\ stage = "store"
  /\ \/ /\ cfg.affinity_store.type = "memory"
        /\ Goto("auth")
        /\ UNCHANGED <<yaml, startVars, ready, stopVars, srvVars, call, envVars>>
     \/ /\ cfg.affinity_store.type = "redis"
        /\ retry_with_budget("auth")

\* The provider is asked once.
Auth ==
  /\ stage = "auth"
  /\ \/ /\ \/ IsError(build_auth(cfg.auth))
           \/ cfg.auth.type = "oidc" /\ "idp" \in Faults
        /\ End("error")
     \/ /\ ~IsError(build_auth(cfg.auth))
        /\ Goto("limiter")
        /\ budget' = Budget /\ waited' = 0
        /\ UNCHANGED <<yaml, sleep, ready, stopVars, srvVars, call, envVars>>

build_rate_limiter ==
  /\ stage = "limiter"
  /\ LET l == rate_limiter_settings(cfg.rate_limit)
         connects == l # None /\ (l # None => l.store = "redis")
     IN \/ /\ ~connects
           /\ Goto("bind")
           /\ UNCHANGED <<yaml, startVars, ready, stopVars, srvVars, call, envVars>>
        \/ /\ connects
           /\ retry_with_budget("bind")

\* The bind address is parsed and the drain task spawned.
Bind ==
  /\ stage = "bind"
  /\ \/ /\ IsError(parse_bind_addr(cfg.bind_addr))
        /\ End("error")
     \/ /\ ~IsError(parse_bind_addr(cfg.bind_addr))
        /\ drain' = "spawned"
        /\ Goto("admin")
        /\ UNCHANGED <<yaml, startVars, ready, left, signal, shutdown, pending, srvVars, call,
                       envVars>>

\* The admin server is spawned, unless admin_addr is null; it may find its
\* port taken, which only ends its task.
Admin ==
  /\ stage = "admin"
  /\ \/ /\ cfg.admin_addr # None /\ IsError(parse_bind_addr(cfg.admin_addr))
        /\ End("error")
     \/ /\ cfg.admin_addr = None
        /\ Goto("serve")
        /\ UNCHANGED <<yaml, startVars, ready, stopVars, srvVars, call, envVars>>
     \/ /\ cfg.admin_addr # None /\ ~IsError(parse_bind_addr(cfg.admin_addr))
        /\ admin' \in {"up"} \cup {"down" : f \in Faults \cap {"port"}}
        /\ Goto("serve")
        /\ UNCHANGED <<yaml, startVars, ready, stopVars, grpc, call, envVars>>

----------------------------------------------------------------------------
(* Serving *)

\* serve_with_shutdown binds its port, or fails and returns.
Serve ==
  /\ stage = "serve" /\ grpc = "off"
  /\ \/ /\ grpc' = "listening"
        /\ UNCHANGED stage
     \/ /\ "port" \in Faults
        /\ grpc' = "failed"
        /\ stage' = "join"
  /\ UNCHANGED <<yaml, startVars, ready, stopVars, admin, call, envVars, exit>>

\* A client's call, over a connection it has or makes.
Arrive(c) ==
  /\ call[c] \in {"idle", "refused"}
  /\ stage # "end"
  /\ \/ grpc = "listening" /\ call' = [call EXCEPT ![c] = "open"]
     \/ grpc # "listening" /\ member /\ call' = [call EXCEPT ![c] = "refused"]
  /\ UNCHANGED <<yaml, stage, startVars, ready, stopVars, srvVars, envVars, exit>>

\* The handler of a streaming kind begins: it takes its StreamGuard.
Stream(c) ==
  /\ call[c] = "open"
  /\ call' = [call EXCEPT ![c] = "stream"]
  /\ UNCHANGED <<yaml, stage, startVars, ready, stopVars, srvVars, envVars, exit>>

\* A unary call is answered, a stream ends.
Done(c) ==
  /\ call[c] \in {"open", "stream"}
  /\ call' = [call EXCEPT ![c] = "idle"]
  /\ pending' = pending \ {c}
  /\ UNCHANGED <<yaml, stage, startVars, ready, drain, left, signal, shutdown, srvVars,
                 envVars, exit>>

\* What the gauge scg_active_streams counts.
active_streams == {c \in Call : call[c] = "stream"}

----------------------------------------------------------------------------
(* Shutdown *)

\* The signal is sent; without a handler it kills the process.
Sigterm ==
  /\ stage # "end" /\ ~signal
  /\ \/ /\ drain \in {"off", "spawned"}
        /\ End("killed")
     \/ /\ drain = "waiting"
        /\ signal' = TRUE
        /\ UNCHANGED <<yaml, stage, startVars, ready, drain, left, shutdown, pending, srvVars,
                       call, envVars, exit>>

shutdown_signal ==
  /\ drain = "spawned" /\ stage # "end"
  /\ drain' = "waiting"
  /\ UNCHANGED <<yaml, stage, startVars, ready, left, signal, shutdown, pending, srvVars, call,
                 envVars, exit>>

\* Mutant: readiness is withdrawn with the shutdown, not before it.
DrainBegin_ready ==
  /\ drain = "waiting" /\ signal /\ stage # "end"
  /\ drain' = "draining"
  /\ left' = Deadline[cfg.shutdown.deadline_secs]
  /\ pending' = active_streams
  /\ UNCHANGED <<yaml, stage, startVars, ready, signal, shutdown, srvVars, call, envVars, exit>>

\* Step 1 of the drain task.
DrainBegin ==
  /\ drain = "waiting" /\ signal /\ stage # "end"
  /\ ready' = FALSE
  /\ drain' = "draining"
  /\ left' = Deadline[cfg.shutdown.deadline_secs]
  /\ pending' = active_streams
  /\ UNCHANGED <<yaml, stage, startVars, signal, shutdown, srvVars, call, envVars, exit>>

\* Mutant: no deadline on the wait.
DrainEnd_unbounded ==
  /\ drain = "draining" /\ stage # "end"
  /\ active_streams = {}
  /\ drain' = "done"
  /\ shutdown' = TRUE
  /\ UNCHANGED <<yaml, stage, startVars, ready, left, signal, pending, srvVars, call, envVars,
                 exit>>

\* Step 2: no stream is active when the task looks, or the deadline has come.
DrainEnd ==
  /\ drain = "draining" /\ stage # "end"
  /\ active_streams = {} \/ left = 0
  /\ drain' = "done"
  /\ shutdown' = TRUE
  /\ UNCHANGED <<yaml, stage, startVars, ready, left, signal, pending, srvVars, call, envVars,
                 exit>>

\* The admin server's loop sees the channel.
AdminStops ==
  /\ admin = "up" /\ shutdown /\ stage # "end"
  /\ admin' = "down"
  /\ UNCHANGED <<yaml, stage, startVars, ready, stopVars, grpc, call, envVars, exit>>

\* serve_with_shutdown sees the channel and stops accepting.
GrpcStops ==
  /\ grpc = "listening" /\ shutdown /\ stage # "end"
  /\ grpc' = "closing"
  /\ UNCHANGED <<yaml, stage, startVars, ready, stopVars, admin, call, envVars, exit>>

\* It returns when the calls it has accepted are over: a server of tonic that is
\* shut down gracefully closes no connection with a call in flight (external).
GrpcClosed ==
  /\ grpc = "closing" /\ stage = "serve"
  /\ \A c \in Call : call[c] \notin {"open", "stream"}
  /\ grpc' = "closed"
  /\ stage' = "join"
  /\ UNCHANGED <<yaml, startVars, ready, stopVars, admin, call, envVars, exit>>

\* main waits for the admin task, flushes the spans and returns.
Join ==
  /\ stage = "join"
  /\ admin # "up"
  /\ End(IF grpc = "failed" THEN "error" ELSE "ok")

----------------------------------------------------------------------------
(* The environment *)

ProcessTick ==
  /\ budget + sleep + left > 0 /\ stage # "end"
  /\ budget' = IF budget > 0 THEN budget - 1 ELSE 0
  /\ sleep' = IF sleep > 0 THEN sleep - 1 ELSE 0
  /\ waited' = IF waited < Budget + Interval THEN waited + 1 ELSE waited
  /\ left' = IF left > 0 THEN left - 1 ELSE 0
  /\ UNCHANGED <<yaml, stage, ready, drain, signal, shutdown, pending, srvVars, call, envVars,
                 exit>>

readyz == admin = "up" /\ ready

\* Kubernetes acts on the readiness probe.
Probe ==
  /\ stage # "end"
  /\ member # readyz
  /\ member' = readyz
  /\ UNCHANGED <<yaml, stage, startVars, ready, stopVars, srvVars, call, redis, flips, exit>>

\* Redis becomes reachable, or stops being so.
RedisFlips ==
  /\ "redis" \in Faults /\ flips < MaxFlips /\ stage \in {"store", "limiter"}
  /\ redis' = ~redis
  /\ flips' = flips + 1
  /\ UNCHANGED <<yaml, stage, startVars, ready, stopVars, srvVars, call, member, exit>>

Main ==
  \/ Load \/ Tracing \/ build_tenant_routing \/ build_affinity_store \/ Auth
  \/ build_rate_limiter \/ Bind \/ Admin \/ Serve \/ GrpcClosed \/ Join

Tasks == shutdown_signal \/ DrainBegin \/ DrainEnd \/ AdminStops \/ GrpcStops

ProcessNext ==
  \/ Main \/ Tasks \/ Sigterm \/ ProcessTick \/ Probe \/ RedisFlips
  \/ \E c \in Call : Arrive(c) \/ Stream(c) \/ Done(c)
  \/ stage = "end" /\ UNCHANGED pVars

ProcessSpec == ProcessInit /\ [][ProcessNext]_pVars

\* main and the tasks it spawned are scheduled and time passes.
ScheduledSpec ==
  /\ ProcessSpec
  /\ WF_pVars(Main) /\ WF_pVars(ProcessTick)
  /\ WF_pVars(shutdown_signal) /\ WF_pVars(DrainBegin) /\ WF_pVars(DrainEnd)
  /\ WF_pVars(AdminStops) /\ WF_pVars(GrpcStops)

\* Besides, every call ends: its client or its backend finishes it.
FairProcessSpec == ScheduledSpec /\ \A c \in Call : WF_pVars(Done(c))

----------------------------------------------------------------------------
(* Properties *)

\* A drain lets go in order: the servers are told to stop only after readiness
\* has been withdrawn, and only when every stream that was active at SIGTERM has
\* ended or the deadline has come, although other streams begin meanwhile.
DrainGraceful == shutdown => ~ready /\ (left = 0 \/ pending = {})

\* Redis is given its whole budget: the process gives up on it no earlier than
\* Budget after the first attempt of the connection it was making.
RedisGetsItsBudget ==
  [][(stage \in {"store", "limiter"} /\ exit' = "error") => waited >= Budget]_pVars

\* Start-up ends: the server listens, or the process has exited with an error
\* or been killed, even when Redis never answers.
StartupEnds == stage = "load" ~> (grpc = "listening" \/ stage \in {"join", "end"})

With(y, b, v) == [k \in DOMAIN y \cup {b} |-> IF k = b THEN v ELSE y[k]]
Without(y, b) == [k \in DOMAIN y \ {b} |-> y[k]]

\* A configuration block left out, left empty or given its documented default
\* tag configures the same gateway: the two places where the code writes each
\* default agree.
BlockDefaultsAgree ==
  ~IsError(cfg) =>
    /\ \A b \in {"audit", "rate_limit", "tenant_pools", "health_check", "shutdown"} :
         load(With(yaml, b, Empty)) = load(Without(yaml, b))
    /\ Running(With(yaml, "tracing", Empty)) = Running(Without(yaml, "tracing"))
    /\ load(With(yaml, "rate_limit", [redis |-> Empty, default |-> Empty]))
         = load(Without(yaml, "rate_limit"))
    /\ load(With(yaml, "auth", [type |-> "none"])) = load(Without(yaml, "auth"))
    /\ load(With(yaml, "affinity_store", [type |-> "memory"]))
         = load(Without(yaml, "affinity_store"))
    /\ load(With(yaml, "tenant_resolver", [source |-> "from_claim"]))
         = load(Without(yaml, "tenant_resolver"))

\* SIGTERM ends the process, if calls end, although new ones keep arriving
\* during the drain.
SigtermEnds == signal ~> exit # None

\* "After this many seconds the gateway forcibly shuts down regardless of
\* in-flight streams" (deadline_secs): a drain ends with the process, although
\* a client may keep its stream open.
DeadlineIsHard == drain = "draining" ~> exit # None

\* /readyz answers 200 only if the gateway can serve at all.
ReadyMeansServing == readyz => grpc # "failed"

----------------------------------------------------------------------------
(* What makes DrainGraceful and RedisGetsItsBudget inductive *)

\* The drain task follows SIGTERM, long after main called the gateway ready; and
\* the two clocks of a retry loop never get out of step.
ProcessInv ==
  /\ budget \in Nat /\ waited \in Nat /\ call \in [Call -> CallStates]
  /\ exit # None => stage = "end"
  /\ stage \in Starting => drain = "off"
  /\ drain \in {"draining", "done"} => ~ready
  /\ shutdown => drain = "done" /\ (left = 0 \/ pending = {})
  /\ stage # "end" => pending \subseteq active_streams
  /\ stage \in {"store", "limiter"} => waited + budget >= Budget
=============================================================================
