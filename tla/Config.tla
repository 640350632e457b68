------------------------------- MODULE Config -------------------------------
(***************************************************************************)
(* The configuration file (crates/config) and its translation into the     *)
(* settings of the components (crates/gateway/src/main.rs).                *)
(*                                                                         *)
(* A YAML mapping is a record with the keys that are present.  A key that  *)
(* is absent gets the default of its field; a block that is absent gets    *)
(* the Default of its type, which the code writes down a second time.  The *)
(* value None is a YAML null.  Unknown keys are ignored.  Groups, issuer   *)
(* and audience, which nothing here decides on, are left out.              *)
(***************************************************************************)
EXTENDS Authenticators, Naturals

Absent(y, k) == k \notin DOMAIN y
Field(y, k, default) == IF Absent(y, k) THEN default ELSE y[k]

\* An Option field: null is the same as absent.
Block(y, k) == Field(y, k, None)

Empty == [k \in {} |-> None]

\* A null is no mapping.
ASSUME NullAssumption ==
  None \notin {Empty, [redis |-> Empty, default |-> Empty], [type |-> "none"],
               [type |-> "memory"], [source |-> "from_claim"]}

----------------------------------------------------------------------------
(* The blocks: what serde makes of a mapping, and the Default of the type *)

\* Tagged blocks: without its tag a mapping does not parse.
Tags == [auth |-> "type", affinity_store |-> "type", tenant_resolver |-> "source",
         backend_discovery |-> "type"]

Parses(y) ==
  \A b \in DOMAIN Tags : Block(y, b) # None => Tags[b] \in DOMAIN y[b]

AuthConfig(y) ==
  CASE y.type = "none" -> [type |-> "none"]
    [] y.type = "static" -> [type |-> "static", tokens |-> y.tokens]
    [] y.type = "jwt" -> [type |-> "jwt", key |-> y.key, algorithms |-> y.algorithms,
                          user_id_claim |-> Field(y, "user_id_claim", "sub"),
                          tenant_claim |-> Block(y, "tenant_claim")]
    [] y.type = "oidc" -> [type |-> "oidc", jwks_url |-> Block(y, "jwks_url"),
                           discovery_url |-> Block(y, "discovery_url"),
                           algorithms |-> y.algorithms,
                           user_id_claim |-> Field(y, "user_id_claim", "sub"),
                           tenant_claim |-> Block(y, "tenant_claim"),
                           refresh_floor_secs |-> Field(y, "refresh_floor_secs", 60)]
AuthConfig_default == [type |-> "none"]

AffinityStoreConfig(y) ==
  CASE y.type = "memory" -> [type |-> "memory"]
    [] y.type = "redis" -> [type |-> "redis", url |-> y.url,
                            key_prefix |-> Field(y, "key_prefix", "scg"),
                            session_ttl_secs |-> Field(y, "session_ttl_secs", 60 * 60),
                            op_ttl_secs |-> Field(y, "op_ttl_secs", 15 * 60)]
AffinityStoreConfig_default == [type |-> "memory"]

AuditSettings(y) ==
  [enabled |-> Field(y, "enabled", TRUE),
   log_successful_rpcs |-> Field(y, "log_successful_rpcs", FALSE)]
AuditSettings_default == [enabled |-> TRUE, log_successful_rpcs |-> FALSE]

BucketSettings(y) ==
  [rpcs_per_second |-> Field(y, "rpcs_per_second", 0), burst |-> Field(y, "burst", 0),
   per_user_rpcs_per_second |-> Field(y, "per_user_rpcs_per_second", 0),
   per_user_burst |-> Field(y, "per_user_burst", 0)]
BucketSettings_default ==
  [rpcs_per_second |-> 0, burst |-> 0, per_user_rpcs_per_second |-> 0, per_user_burst |-> 0]

RateLimitRedisSettings(y) ==
  [url |-> Field(y, "url", "localhost"), key_prefix |-> Field(y, "key_prefix", "scg-rl"),
   key_ttl_secs |-> Field(y, "key_ttl_secs", 3600),
   on_failure |-> Field(y, "on_failure", "open")]
RateLimitRedisSettings_default ==
  [url |-> "localhost", key_prefix |-> "scg-rl", key_ttl_secs |-> 3600, on_failure |-> "open"]

RateLimitSettings(y) ==
  [enabled |-> Field(y, "enabled", FALSE), store |-> Field(y, "store", "memory"),
   redis |-> IF Absent(y, "redis") THEN RateLimitRedisSettings_default
             ELSE RateLimitRedisSettings(y.redis),
   default |-> IF Absent(y, "default") THEN BucketSettings_default
               ELSE BucketSettings(y.default),
   overrides |-> LET o == Field(y, "overrides", Empty)
                 IN [t \in DOMAIN o |-> BucketSettings(o[t])]]
RateLimitSettings_default ==
  [enabled |-> FALSE, store |-> "memory", redis |-> RateLimitRedisSettings_default,
   default |-> BucketSettings_default, overrides |-> Empty]

TenantPoolsSettings(y) ==
  [overrides |-> Field(y, "overrides", Empty),
   on_unknown_tenant |-> Field(y, "on_unknown_tenant", "use_default")]
TenantPoolsSettings_default == [overrides |-> Empty, on_unknown_tenant |-> "use_default"]

TenantResolverSettings(y) ==
  [source |-> y.source,
   header |-> IF y.source = "from_metadata" THEN Field(y, "header", "x-tenant") ELSE None,
   on_missing |-> Field(y, "on_missing", "use_default"),
   default_name |-> Field(y, "default_name", "default")]
TenantResolverSettings_default ==
  [source |-> "from_claim", header |-> None, on_missing |-> "use_default",
   default_name |-> "default"]

HealthCheckSettings(y) ==
  [enabled |-> Field(y, "enabled", FALSE), interval_secs |-> Field(y, "interval_secs", 5),
   timeout_secs |-> Field(y, "timeout_secs", 2),
   unhealthy_threshold |-> Field(y, "unhealthy_threshold", 3),
   healthy_threshold |-> Field(y, "healthy_threshold", 2)]

\* Mutant: the numbers' own defaults, as derive(Default) would give them.
HealthCheckSettings_derived ==
  [enabled |-> FALSE, interval_secs |-> 0, timeout_secs |-> 0,
   unhealthy_threshold |-> 0, healthy_threshold |-> 0]

HealthCheckSettings_default ==
  [enabled |-> FALSE, interval_secs |-> 5, timeout_secs |-> 2,
   unhealthy_threshold |-> 3, healthy_threshold |-> 2]

ShutdownSettings(y) == [deadline_secs |-> Field(y, "deadline_secs", 30)]
ShutdownSettings_default == [deadline_secs |-> 30]

TracingSettings(y) ==
  [endpoint |-> Block(y, "endpoint"),
   service_name |-> Field(y, "service_name", "spark-connect-gateway"),
   service_version |-> Block(y, "service_version"),
   sample_ratio |-> Field(y, "sample_ratio", 100),   \* a percentage here
   export_timeout_secs |-> Field(y, "export_timeout_secs", 10)]

----------------------------------------------------------------------------
(* Config::load on a file that is YAML *)

OrDefault(y, k, parse(_), default) == IF Block(y, k) = None THEN default ELSE parse(y[k])

EmptyStatic(d) == d.type = "static" /\ d.addresses = <<>>

Discovery(y) ==
  LET shorthand == Block(y, "backends")
      tagged == Block(y, "backend_discovery")
      d == IF tagged # None THEN tagged ELSE [type |-> "static", addresses |-> shorthand]
  IN CASE shorthand # None /\ tagged # None -> Error("ConflictingDiscovery")
       [] shorthand = None /\ tagged = None -> Error("NoDiscoverySource")
       [] (shorthand = None) # (tagged = None) ->
            IF EmptyStatic(d) THEN Error("EmptyStatic") ELSE d

from_raw(y) ==
  IF IsError(Discovery(y)) THEN Discovery(y)
  ELSE [bind_addr |-> IF Field(y, "bind_addr", "") = "" THEN ":15003" ELSE y.bind_addr,
        discovery |-> Discovery(y),
        auth |-> OrDefault(y, "auth", AuthConfig, AuthConfig_default),
        admin_addr |-> LET a == Field(y, "admin_addr", ":9090")
                       IN IF a = "" THEN None ELSE a,
        tracing |-> OrDefault(y, "tracing", TracingSettings, None),
        affinity_store |-> OrDefault(y, "affinity_store", AffinityStoreConfig,
                                     AffinityStoreConfig_default),
        health_check |-> OrDefault(y, "health_check", HealthCheckSettings,
                                   HealthCheckSettings_default),
        shutdown |-> OrDefault(y, "shutdown", ShutdownSettings, ShutdownSettings_default),
        tenant_resolver |-> OrDefault(y, "tenant_resolver", TenantResolverSettings,
                                      TenantResolverSettings_default),
        tenant_pools |-> OrDefault(y, "tenant_pools", TenantPoolsSettings,
                                   TenantPoolsSettings_default),
        rate_limit |-> OrDefault(y, "rate_limit", RateLimitSettings,
                                 RateLimitSettings_default),
        audit |-> OrDefault(y, "audit", AuditSettings, AuditSettings_default)]

load(y) == IF Parses(y) THEN from_raw(y) ELSE Error("Parse")

----------------------------------------------------------------------------
(* From the configuration to the components *)

TracingConfig_default ==
  [service_name |-> "spark-connect-gateway", service_version |-> "built",
   endpoint |-> None, sample_ratio |-> 100, export_timeout |-> 10]

build_tracing(s) ==
  IF s = None THEN TracingConfig_default
  ELSE [service_name |-> s.service_name,
        service_version |-> IF s.service_version # None THEN s.service_version
                            ELSE TracingConfig_default.service_version,
        endpoint |-> s.endpoint, sample_ratio |-> s.sample_ratio,
        export_timeout |-> s.export_timeout_secs]

\* init_tracing: only an exporter that cannot be built fails.
init_tracing(cfg) == IF cfg.endpoint = "malformed" THEN Error("OtlpInit") ELSE cfg

\* StaticPool::new, called for the default pool and for each override.
StaticPool_new(addresses) == IF addresses = <<>> THEN Error("EmptyPool")
                             ELSE [backends |-> addresses, next |-> 0]

\* Without a port the address does not parse; a leading colon is completed.
parse_bind_addr(s) == IF s = "malformed" THEN Error("invalid bind_addr") ELSE [addr |-> s]

bucket_rate(rps, burst) == [rpcs_per_second |-> rps, burst |-> burst]

tenant_limits_from(b) ==
  [tenant |-> bucket_rate(b.rpcs_per_second, b.burst),
   per_user |-> bucket_rate(b.per_user_rpcs_per_second, b.per_user_burst)]

\* build_rate_limiter but for the connection: None when switched off.
rate_limiter_settings(cfg) ==
  IF ~cfg.enabled THEN None
  ELSE [store |-> cfg.store, default |-> tenant_limits_from(cfg.default),
        overrides |-> [t \in DOMAIN cfg.overrides |-> tenant_limits_from(cfg.overrides[t])],
        redis |-> cfg.redis]

\* build_auth but for the provider's answers.
build_auth(cfg) ==
  CASE cfg.type = "none" -> [type |-> "none"]
    [] cfg.type = "static" -> StaticToken_new(cfg.tokens)
    [] cfg.type = "jwt" -> Jwt_new(cfg)
    [] cfg.type = "oidc" -> Oidc_settings(cfg)

\* wrap_with_healthcheck: which prober is started, if any.
wrap_with_healthcheck(cfg) ==
  IF ~cfg.enabled THEN None
  ELSE [interval |-> cfg.interval_secs, timeout |-> cfg.timeout_secs,
        unhealthy_threshold |-> cfg.unhealthy_threshold,
        healthy_threshold |-> cfg.healthy_threshold]

\* TenantResolverConfig: the header is the source's only if it reads one.
build_tenant_resolver(cfg) ==
  [source |-> cfg.source, header |-> cfg.header, on_missing |-> cfg.on_missing,
   default_name |-> cfg.default_name]

build_audit_logger(cfg) ==
  [enabled |-> cfg.enabled, log_successful_rpcs |-> cfg.log_successful_rpcs]

\* What the running gateway is made of.
Running(y) ==
  LET c == load(y)
  IN [tracing |-> build_tracing(c.tracing), health |-> wrap_with_healthcheck(c.health_check),
      limiter |-> rate_limiter_settings(c.rate_limit), auth |-> build_auth(c.auth),
      resolver |-> build_tenant_resolver(c.tenant_resolver),
      audit |-> build_audit_logger(c.audit), pools |-> c.tenant_pools,
      store |-> c.affinity_store, deadline |-> c.shutdown.deadline_secs]
=============================================================================
