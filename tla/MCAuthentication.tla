-------------------------- MODULE MCAuthentication --------------------------
(* A small instance of Authentication.                                       *)
EXTENDS Authentication, TLC

CONSTANTS r1, r2

\* Tokens: two opaque ones, of which one is known, and JWTs of two keys.
Opaque(i) == [form |-> "opaque", id |-> i]
Jwt(k, s, claims) == [form |-> "jwt", kid |-> k, sound |-> s, claims |-> claims]

UserA == "sub" :> "u" @@ "org" :> "a"
UserOnly == "sub" :> "u"
NoUser == "org" :> "a"
EmptyOrg == "sub" :> "u" @@ "org" :> ""

Tokens == {Opaque("known"), Opaque("other"), Jwt("k1", "yes", UserA),
           Jwt("k1", "yes", UserOnly), Jwt("k1", "yes", NoUser),
           Jwt("k1", "yes", EmptyOrg),
           Jwt("k1", "no", UserA), Jwt("k1", "expired", UserA)}

Bearer(t) == [scheme |-> "Bearer", token |-> t]

\* Every credential with every tenant header, for the stateless authenticators.
AllMetadata ==
  [authorization : {Bearer(t) : t \in Tokens}
                   \cup {None, [scheme |-> "Basic", token |-> Opaque("known")]},
   tenant_header : {None, "", "b"}]

Table == StaticToken_new(<<[token |-> Opaque("known"), user_id |-> "u", tenant |-> "a"],
                           [token |-> Opaque("third"), user_id |-> "v", tenant |-> None]>>)

JwtAuth == Jwt_new([algorithms |-> <<"RS256", "ES256">>, user_id_claim |-> "sub",
                    tenant_claim |-> "org", key |-> [kind |-> "pem_inline", pem |-> "rsa"]])

Oidc(floor) == Oidc_settings([algorithms |-> <<"RS256">>, user_id_claim |-> "sub",
                              tenant_claim |-> "org", jwks_url |-> "url",
                              discovery_url |-> None, refresh_floor_secs |-> floor])

\* An empty default only matters where it is used.
Resolvers ==
  {r \in [source : {"from_claim", "from_metadata", "always_default"},
          on_missing : {"use_default", "reject"}, default_name : {"default", ""}] :
     r.default_name = "" => r.source = "always_default"}

Stateless == [auth : {[type |-> "none"], Table, JwtAuth}, resolver : Resolvers]

Claimed(p) == [source |-> "from_claim", on_missing |-> p, default_name |-> "default"]

Cached == {[auth |-> Oidc(0), resolver |-> Claimed("reject")],
           [auth |-> Oidc(2), resolver |-> Claimed("use_default")]}

AllSettings == Stateless \cup Cached

\* Tokens that name two keys, and those that never get to the cache.
KeyMetadata ==
  [authorization : {Bearer(Jwt("k1", "yes", UserA)), Bearer(Jwt("k2", "yes", UserA)),
                    Bearer(Jwt("k2", "no", UserOnly)), Bearer(Jwt(None, "yes", UserA)),
                    Bearer(Opaque("known")), None},
   tenant_header : {None}]

MetadataOf(auth_) == IF auth_.type = "oidc" THEN KeyMetadata ELSE AllMetadata

Good(k) == [kid |-> k, form |-> "good"]

KeyDocuments ==
  {{Good("k1")}, {Good("k1"), Good("k2")},
   {Good("k2"), [kid |-> "k1", form |-> "bad"], [kid |-> "", form |-> "bad"]},
   {Good("k2"), [kid |-> "k1", form |-> "unsupported"], [kid |-> "", form |-> "bad"]}}
=============================================================================
