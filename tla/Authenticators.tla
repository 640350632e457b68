--------------------------- MODULE Authenticators ---------------------------
(***************************************************************************)
(* What the authenticators of crates/auth and the tenant resolver of       *)
(* crates/tenant compute: how they are built from their settings, and what *)
(* they make of a request's metadata.                                      *)
(*                                                                         *)
(* Metadata is [authorization, tenant_header], each None when the header   *)
(* is absent or is not text; authorization is [scheme, token].  A token is *)
(* [form, ...]: an opaque one has an id, a JWT has the fields its checks   *)
(* look at, and its claims are those that are strings: as_str turns any    *)
(* other value into an absent one.  Groups, which nothing in the gateway   *)
(* decides on, are left out.                                               *)
(***************************************************************************)
EXTENDS Sequences, Functions, Option

----------------------------------------------------------------------------
(* Results: an identity, or a Status named by its message *)

Ok(user, tenant) == [ok |-> TRUE, user_id |-> user, tenant |-> tenant]
Fail(msg) == [ok |-> FALSE, msg |-> msg]

\* A prefix compared without regard to case, the rest trimmed.
bearer_token(md) ==
  IF md.authorization # None /\ md.authorization.scheme \in {"Bearer", "bearer"}
  THEN md.authorization.token ELSE None

----------------------------------------------------------------------------
(* Construction *)

Error(e) == [error |-> e]
IsError(x) == "error" \in DOMAIN x

\* StaticTokenAuthenticator::new: a table from tokens to identities.
StaticToken_new(entries) ==
  CASE entries = <<>> -> Error("Empty")
    [] entries # <<>> /\ ~IsInjective([i \in DOMAIN entries |-> entries[i].token])
         -> Error("Duplicate")
    [] OTHER -> [type |-> "static", table |-> entries]

JwtAlgorithms == {"HS256", "HS384", "HS512", "RS256", "RS384", "RS512",
                  "PS256", "PS384", "PS512", "ES256", "ES384", "EDDSA"}
OidcAlgorithms == JwtAlgorithms \ {"HS256", "HS384", "HS512"}

family(alg) ==
  CASE alg \in {"HS256", "HS384", "HS512"} -> "hmac"
    [] alg \in {"RS256", "RS384", "RS512", "PS256", "PS384", "PS512"} -> "rsa"
    [] alg \in {"ES256", "ES384"} -> "ec"
    [] alg = "EDDSA" -> "ed"

\* The first algorithm says how the PEM is read; bytes of any kind make a
\* shared secret.  A PEM is named by the family of the key it holds.
build_pem_key(algorithms, pem) ==
  CASE family(algorithms[1]) = "hmac" -> [family |-> "hmac", secret |-> pem]
    [] family(algorithms[1]) # "hmac" /\ family(algorithms[1]) = pem -> [family |-> pem]
    [] OTHER -> Error("KeyParse")

Jwt_key(key, algorithms) ==
  CASE key.kind = "hmac_secret" -> [family |-> "hmac", secret |-> key.secret]
    [] key.kind = "pem_inline" -> build_pem_key(algorithms, key.pem)
    [] key.kind = "pem_file" -> IF key.path = "unreadable" THEN Error("KeyRead")
                                ELSE build_pem_key(algorithms, key.path)

\* JwtAuthenticator::new.
Jwt_new(cfg) ==
  CASE cfg.algorithms = <<>> -> Error("NoAlgorithms")
    [] cfg.algorithms # <<>> /\ cfg.user_id_claim = "" -> Error("EmptyUserIdClaim")
    [] /\ cfg.algorithms # <<>> /\ cfg.user_id_claim # ""
       /\ ~(Range(cfg.algorithms) \subseteq JwtAlgorithms) -> Error("UnknownAlg")
    [] OTHER -> IF IsError(Jwt_key(cfg.key, cfg.algorithms))
                THEN Jwt_key(cfg.key, cfg.algorithms)
                ELSE [type |-> "jwt", user_id_claim |-> cfg.user_id_claim,
                      tenant_claim |-> cfg.tenant_claim]

\* OidcAuthenticator::new up to its requests to the provider.
Oidc_settings(cfg) ==
  CASE cfg.algorithms = <<>> -> Error("NoAlgorithms")
    [] /\ cfg.algorithms # <<>>
       /\ ~(Range(cfg.algorithms) \subseteq OidcAlgorithms) -> Error("UnknownAlg")
    [] /\ cfg.algorithms # <<>>
       /\ Range(cfg.algorithms) \subseteq OidcAlgorithms
       /\ cfg.jwks_url = None /\ cfg.discovery_url = None -> Error("NoJwksSource")
    [] OTHER -> [type |-> "oidc", user_id_claim |-> cfg.user_id_claim,
                 tenant_claim |-> cfg.tenant_claim,
                 refresh_floor |-> cfg.refresh_floor_secs]

----------------------------------------------------------------------------
(* Authentication of a request *)

Anonymous_authenticate == Ok("anonymous", None)

\* StaticTokenAuthenticator::lookup and authenticate.
StaticToken_authenticate(auth, md) ==
  LET hits == {e \in Range(auth.table) : e.token = bearer_token(md)}
  IN CASE bearer_token(md) = None -> Fail("missing_or_malformed_Bearer_header")
       [] bearer_token(md) # None /\ hits = {} -> Fail("invalid_token")
       [] bearer_token(md) # None /\ hits # {} ->
            LET e == CHOOSE x \in hits : TRUE IN Ok(e.user_id, e.tenant)

claim(token, name) ==
  IF name # None /\ name \in DOMAIN token.claims THEN token.claims[name] ELSE None

\* The claims of a token that decode has accepted.
identity(auth, token) ==
  IF claim(token, auth.user_id_claim) = None THEN Fail("JWT_missing_required_claim")
  ELSE Ok(claim(token, auth.user_id_claim), claim(token, auth.tenant_claim))

\* decode of the jsonwebtoken library: signature, issuer, audience and times.
decode(auth, token) ==
  IF token.form = "jwt" /\ token.sound = "yes" THEN identity(auth, token)
                                               ELSE Fail("invalid_JWT")

Jwt_authenticate(auth, md) ==
  IF bearer_token(md) = None THEN Fail("missing_or_malformed_Bearer_header")
                             ELSE decode(auth, bearer_token(md))

----------------------------------------------------------------------------
(* Tenant resolution and the reason of a failure *)

\* What the configured source says; None and "" are both nothing.
candidate(cfg, md, id) ==
  CASE cfg.source = "from_claim" -> id.tenant
    [] cfg.source = "from_metadata" -> md.tenant_header
    [] cfg.source = "always_default" -> cfg.default_name

\* Mutant: a tenant header wins over the configured source.
resolve_header_first(cfg, md, id) ==
  LET t == IF md.tenant_header \notin {None, ""} THEN md.tenant_header
           ELSE candidate(cfg, md, id)
  IN CASE t \notin {None, ""} -> Ok(id.user_id, t)
       [] t \in {None, ""} /\ cfg.on_missing = "use_default" -> Ok(id.user_id, cfg.default_name)
       [] OTHER -> Fail("tenant_required_but_not_provided")

\* TenantResolver::resolve.
resolve(cfg, md, id) ==
  LET t == candidate(cfg, md, id)
  IN CASE t \notin {None, ""} -> Ok(id.user_id, t)
       [] t \in {None, ""} /\ cfg.on_missing = "use_default" -> Ok(id.user_id, cfg.default_name)
       [] t \in {None, ""} /\ cfg.on_missing = "reject" -> Fail("tenant_required_but_not_provided")

\* The label of scg_auth_failures_total and of auth.failure events, found by
\* searching the message for "missing", "expired", "kid" and "invalid".
auth_failure_reason(msg) ==
  CASE msg \in {"missing_or_malformed_Bearer_header", "JWT_missing_kid",
                "JWT_missing_required_claim"} -> "missing_token"
    [] msg = "JWT_kid_not_in_JWKS" -> "unknown_kid"
    [] msg \in {"invalid_token", "invalid_JWT_header", "invalid_JWT"} -> "invalid_token"
=============================================================================
