-------------------------- MODULE MCGatewayProcess --------------------------
(* Small instances of GatewayProcess.                                        *)
EXTENDS GatewayProcess, TLC

CONSTANTS c1, c2

Ticks == 30 :> 2 @@ 0 :> 0

Base == [backends |-> <<"b1">>]
K8s == [backend_discovery |-> [type |-> "k8s"]]
Quick == Base @@ [shutdown |-> [deadline_secs |-> 0]]

Redis(name) == name :> [type |-> "redis", url |-> "redis"]
Limited == "rate_limit" :> [enabled |-> TRUE, store |-> "redis",
                            overrides |-> ("a" :> [burst |-> 1])]

Rsa == [type |-> "jwt", key |-> [kind |-> "pem_file", path |-> "rsa"], algorithms |-> <<"RS256">>]
Entry(t) == [token |-> t, user_id |-> "u", tenant |-> None]

\* Configurations that start, one for every way a block is built.
Sound ==
  {Base, K8s, Quick, Base @@ Redis("affinity_store"), Base @@ Limited,
   Base @@ Redis("affinity_store") @@ Limited,
   [backend_discovery |-> [type |-> "static", addresses |-> <<"b1", "b2">>],
    backends |-> None, bind_addr |-> "", admin_addr |-> None, tracing |-> [endpoint |-> "otel"]],
   Base @@ [auth |-> [type |-> "static", tokens |-> <<Entry("t1"), Entry("t2")>>],
            affinity_store |-> [type |-> "memory"], audit |-> [enabled |-> FALSE]],
   Base @@ [auth |-> Rsa, tenant_resolver |-> [source |-> "from_metadata"],
            tenant_pools |-> [overrides |-> "a" :> [type |-> "k8s"]]],
   Base @@ [auth |-> [type |-> "oidc", jwks_url |-> "url", algorithms |-> <<"RS256">>],
            health_check |-> [enabled |-> TRUE, interval_secs |-> 1]],
   Base @@ [auth |-> [type |-> "jwt", key |-> [kind |-> "hmac_secret", secret |-> "s"],
                      algorithms |-> <<"HS256">>], admin_addr |-> "",
            rate_limit |-> [enabled |-> TRUE, default |-> [burst |-> 1]]]}

\* Configurations that are turned down, one for every reason.
Unsound ==
  {[bind_addr |-> ":15003"], Base @@ K8s, [backends |-> <<>>],
   [backend_discovery |-> [type |-> "static", addresses |-> <<>>]],
   Base @@ [tenant_pools |-> [overrides |-> "a" :> [type |-> "static", addresses |-> <<>>]]],
   Base @@ [tenant_resolver |-> [on_missing |-> "reject"]],
   Base @@ [bind_addr |-> "malformed"], Base @@ [admin_addr |-> "malformed"],
   Base @@ [tracing |-> [endpoint |-> "malformed"]],
   Base @@ [auth |-> [type |-> "static", tokens |-> <<>>]],
   Base @@ [auth |-> [type |-> "static", tokens |-> <<Entry("t1"), Entry("t1")>>]],
   Base @@ [auth |-> [Rsa EXCEPT !.algorithms = <<>>]],
   Base @@ [auth |-> [Rsa EXCEPT !.algorithms = <<"RS256", "none">>]],
   Base @@ [auth |-> [Rsa EXCEPT !.algorithms = <<"ES256", "RS256">>]],
   Base @@ [auth |-> [Rsa EXCEPT !.key = [kind |-> "pem_file", path |-> "unreadable"]]],
   Base @@ [auth |-> Rsa @@ [user_id_claim |-> ""]],
   Base @@ [auth |-> [type |-> "oidc", algorithms |-> <<"RS256">>]],
   Base @@ [auth |-> [type |-> "oidc", jwks_url |-> "url", algorithms |-> <<"HS256">>]]}

AllYaml == Sound \cup Unsound
StopYaml == {Base, Quick}
=============================================================================
