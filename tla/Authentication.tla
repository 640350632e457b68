--------------------------- MODULE Authentication ---------------------------
(***************************************************************************)
(* Requests being authenticated concurrently (authenticate_and_resolve of  *)
(* crates/proxy up to the rate limiter).  Only the OIDC authenticator of   *)
(* crates/auth/src/oidc.rs has state: a cache of the provider's keys that  *)
(* a request refreshes, under a lock and not too often, when the key its   *)
(* token names is not there.                                               *)
(*                                                                         *)
(* A document of the provider is a set of keys [kid, form]; form says what *)
(* fetch_jwks can make of the key.                                         *)
(***************************************************************************)
EXTENDS Authenticators, Integers, FiniteSets

CONSTANTS
  Failed,     \* a request to the provider that failed
  Request,    \* concurrent calls
  Settings,   \* [auth, resolver]: the configurations considered
  Metadata(_), \* what requests may carry under a configuration
  Documents,  \* key sets the provider may publish
  Faults,     \* whether requests to the provider can fail
  MaxClock,   \* bound: ticks
  MaxChanges  \* bound: changes of the published document

ASSUME AuthenticationAssumption ==
  /\ MaxClock \in Nat
  /\ MaxChanges \in Nat
  /\ Faults \in BOOLEAN
  /\ None \notin Request

\* AuthConfig is an enum of these types, and refresh_floor_secs a u64.
ASSUME SettingsAssumption ==
  \A s \in Settings :
    /\ s.auth.type \in {"none", "static", "jwt", "oidc"}
    /\ s.auth.type = "oidc" => s.auth.refresh_floor \in Nat

VARIABLES
  auth, resolver,  \* the gateway's configuration
  clock,
  document,        \* what the provider publishes
  changes,
  cache,           \* CachedKeys: kids and last_refreshed
  holder,          \* the request that holds refresh_lock
  pc,              \* pc[r]: where r is
  md,              \* md[r]: its metadata
  reply,           \* reply[r]: the provider's answer to r's fetch, None before
  out,             \* out[r]: its result
  excuse           \* history: r met a failed fetch or the floor, or its key was
                   \* not published all the time r was running

sysVars == <<auth, resolver, clock, document, changes>>
aVars == <<sysVars, cache, holder, pc, md, reply, out, excuse>>

Stages == {"new", "start", "lock", "fetch", "reread", "done"}

AuthTypeOK ==
  /\ \E s \in Settings : auth = s.auth /\ resolver = s.resolver
  /\ clock \in 0 .. MaxClock
  /\ document \in Documents
  /\ changes \in 0 .. MaxChanges
  /\ cache.last \in 0 .. clock
  /\ holder \in Request \cup {None}
  /\ pc \in [Request -> Stages]
  /\ md \in [Request -> Metadata(auth) \cup {None}]
  /\ reply \in [Request -> Documents \cup {None, Failed}]
  /\ DOMAIN out = Request
  /\ excuse \subseteq Request

----------------------------------------------------------------------------
(* fetch_jwks, on an answer: keys without kid, of an unknown type or with    *)
(* fields missing are skipped, one that does not parse fails the whole set   *)

Parses(doc) == doc # Failed /\ ~\E k \in doc : k.form = "bad" /\ k.kid # ""
Keys(doc) == {k.kid : k \in {x \in doc : x.form = "good" /\ x.kid # ""}}

Published(k) == k \in Keys(document) /\ Parses(document)

Init ==
  /\ \E s \in Settings : auth = s.auth /\ resolver = s.resolver
  /\ clock = 0
  /\ document \in {d \in Documents : Parses(d)}
  /\ changes = 0
  /\ cache = [kids |-> Keys(document), last |-> 0]
  /\ holder = None
  /\ pc = [r \in Request |-> "new"]
  /\ md = [r \in Request |-> None]
  /\ reply = [r \in Request |-> None]
  /\ out = [r \in Request |-> None]
  /\ excuse = {}

----------------------------------------------------------------------------
(* A request *)

Token(r) == bearer_token(md[r])
kid(r) == Token(r).kid

Denied(reason) == [ok |-> FALSE, reason |-> reason]

\* authenticate has its result: on success the tenant is resolved; a failure
\* is counted under its reason.
Finish(r, result) ==
  /\ pc' = [pc EXCEPT ![r] = "done"]
  /\ out' = [out EXCEPT ![r] =
       CASE ~result.ok -> Denied(auth_failure_reason(result.msg))
         [] result.ok /\ resolve(resolver, md[r], result).ok -> resolve(resolver, md[r], result)
         [] OTHER -> Denied("missing_tenant")]

NotPublished(m) ==
  LET t == bearer_token(m) IN t # None /\ t.form = "jwt" /\ ~Published(t.kid)

Arrive(r, m) ==
  /\ pc[r] = "new"
  /\ pc' = [pc EXCEPT ![r] = "start"]
  /\ md' = [md EXCEPT ![r] = m]
  /\ excuse' = IF NotPublished(m) THEN excuse \cup {r} ELSE excuse
  /\ UNCHANGED <<sysVars, cache, holder, reply, out>>

\* The authenticators that do not wait.
authenticate(r) ==
  /\ pc[r] = "start"
  /\ auth.type # "oidc"
  /\ Finish(r, CASE auth.type = "none" -> Anonymous_authenticate
                 [] auth.type = "static" -> StaticToken_authenticate(auth, md[r])
                 [] auth.type = "jwt" -> Jwt_authenticate(auth, md[r]))
  /\ UNCHANGED <<sysVars, cache, holder, md, reply, excuse>>

\* OidcAuthenticator::authenticate up to key_for's first look at the cache.
Oidc_authenticate(r) ==
  /\ pc[r] = "start"
  /\ auth.type = "oidc"
  /\ \/ /\ Token(r) = None
        /\ Finish(r, Fail("missing_or_malformed_Bearer_header"))
     \/ /\ Token(r) # None /\ Token(r).form # "jwt"
        /\ Finish(r, Fail("invalid_JWT_header"))
     \/ /\ Token(r) # None /\ Token(r).form = "jwt" /\ kid(r) = None
        /\ Finish(r, Fail("JWT_missing_kid"))
     \/ /\ Token(r) # None /\ Token(r).form = "jwt" /\ kid(r) \in cache.kids
        /\ Finish(r, decode(auth, Token(r)))
     \/ /\ Token(r) # None /\ Token(r).form = "jwt" /\ kid(r) # None
        /\ kid(r) \notin cache.kids
        /\ pc' = [pc EXCEPT ![r] = "lock"]
        /\ UNCHANGED out
  /\ UNCHANGED <<sysVars, cache, holder, md, reply, excuse>>

\* Mutant: the cache is not looked at again once the lock is held, nor is its
\* age.
key_for_no_recheck(r) ==
  /\ pc[r] = "lock"
  /\ holder = None
  /\ holder' = r
  /\ pc' = [pc EXCEPT ![r] = "fetch"]
  /\ UNCHANGED <<sysVars, cache, md, reply, out, excuse>>

\* Mutant: the floor is inclusive of the next refresh period.
key_for_doubled_floor(r) ==
  /\ pc[r] = "lock"
  /\ holder = None
  /\ \/ /\ clock - cache.last <= auth.refresh_floor
        /\ Finish(r, Fail("JWT_kid_not_in_JWKS"))
        /\ excuse' = IF clock - cache.last < auth.refresh_floor
                     THEN excuse \cup {r} ELSE excuse
        /\ UNCHANGED holder
     \/ /\ clock - cache.last > auth.refresh_floor
        /\ holder' = r
        /\ pc' = [pc EXCEPT ![r] = "fetch"]
        /\ UNCHANGED <<out, excuse>>
  /\ UNCHANGED <<sysVars, cache, md, reply>>

\* key_for with the lock: the cache again, then its age, then the provider.
key_for(r) ==
  /\ pc[r] = "lock"
  /\ holder = None
  /\ \/ /\ kid(r) \in cache.kids
        /\ Finish(r, decode(auth, Token(r)))
        /\ UNCHANGED <<holder, excuse>>
     \/ /\ kid(r) \notin cache.kids
        /\ clock - cache.last < auth.refresh_floor
        /\ Finish(r, Fail("JWT_kid_not_in_JWKS"))
        /\ excuse' = excuse \cup {r}
        /\ UNCHANGED holder
     \/ /\ kid(r) \notin cache.kids
        /\ clock - cache.last >= auth.refresh_floor
        /\ holder' = r
        /\ pc' = [pc EXCEPT ![r] = "fetch"]
        /\ UNCHANGED <<out, excuse>>
  /\ UNCHANGED <<sysVars, cache, md, reply>>

\* The provider answers what it publishes then; or the request fails, at the
\* latest when its timeout fires.
Answer(r) ==
  /\ pc[r] = "fetch"
  /\ reply[r] = None
  /\ \/ reply' = [reply EXCEPT ![r] = document]
     \/ Faults /\ reply' = [reply EXCEPT ![r] = Failed]
  /\ UNCHANGED <<sysVars, cache, holder, pc, md, out, excuse>>

\* Mutant: a failed refresh keeps the lock.
refresh_keeps_lock(r) ==
  /\ pc[r] = "fetch"
  /\ reply[r] # None
  /\ IF Parses(reply[r])
     THEN /\ cache' = [kids |-> Keys(reply[r]), last |-> clock]
          /\ holder' = None
          /\ pc' = [pc EXCEPT ![r] = "reread"]
          /\ UNCHANGED <<out, excuse>>
     ELSE /\ Finish(r, Fail("JWT_kid_not_in_JWKS"))
          /\ excuse' = excuse \cup {r}
          /\ UNCHANGED <<cache, holder>>
  /\ reply' = [reply EXCEPT ![r] = None]
  /\ UNCHANGED <<sysVars, md>>

\* The answer is there: the cache is replaced, or left alone, and the lock
\* released.
refresh(r) ==
  /\ pc[r] = "fetch"
  /\ reply[r] # None
  /\ \/ /\ Parses(reply[r])
        /\ cache' = [kids |-> Keys(reply[r]), last |-> clock]
        /\ pc' = [pc EXCEPT ![r] = "reread"]
        /\ UNCHANGED <<out, excuse>>
     \/ /\ ~Parses(reply[r])
        /\ Finish(r, Fail("JWT_kid_not_in_JWKS"))
        /\ excuse' = excuse \cup {r}
        /\ UNCHANGED cache
  /\ holder' = None
  /\ reply' = [reply EXCEPT ![r] = None]
  /\ UNCHANGED <<sysVars, md>>

reread(r) ==
  /\ pc[r] = "reread"
  /\ Finish(r, IF kid(r) \in cache.kids THEN decode(auth, Token(r))
                                        ELSE Fail("JWT_kid_not_in_JWKS"))
  /\ UNCHANGED <<sysVars, cache, holder, md, reply, excuse>>

\* Mutant: the lock outlives the request that held it.
Cancel_keeps_lock(r) ==
  /\ pc[r] \in {"lock", "fetch"}
  /\ pc' = [pc EXCEPT ![r] = "done"]
  /\ out' = [out EXCEPT ![r] = Denied("cancelled")]
  /\ reply' = [reply EXCEPT ![r] = None]
  /\ UNCHANGED <<sysVars, cache, holder, md, excuse>>

\* The client goes away: dropping the future drops the guard.
Cancel(r) ==
  /\ pc[r] \in {"lock", "fetch"}
  /\ pc' = [pc EXCEPT ![r] = "done"]
  /\ out' = [out EXCEPT ![r] = Denied("cancelled")]
  /\ holder' = IF holder = r THEN None ELSE holder
  /\ reply' = [reply EXCEPT ![r] = None]
  /\ UNCHANGED <<sysVars, cache, md, excuse>>

----------------------------------------------------------------------------

\* The provider publishes another document (external).
Rotate(d) ==
  /\ auth.type = "oidc"
  /\ changes < MaxChanges
  /\ d # document
  /\ changes' = changes + 1
  /\ document' = d
  /\ excuse' = excuse \cup
       {r \in Request : /\ pc[r] \in Stages \ {"new", "done"}
                        /\ Token(r) # None
                        /\ Token(r).form = "jwt"
                        /\ ~(Parses(d) /\ kid(r) \in Keys(d))}
  /\ UNCHANGED <<auth, resolver, clock, cache, holder, pc, md, reply, out>>

\* Only the key cache reads the clock.
Tick ==
  /\ auth.type = "oidc"
  /\ clock < MaxClock
  /\ clock' = clock + 1
  /\ UNCHANGED <<auth, resolver, document, changes, cache, holder, pc, md, reply, out,
                 excuse>>

Step(r) ==
  \/ authenticate(r) \/ Oidc_authenticate(r) \/ key_for(r)
  \/ Answer(r) \/ refresh(r) \/ reread(r)

Next ==
  \/ \E r \in Request : (\E m \in Metadata(auth) : Arrive(r, m)) \/ Step(r) \/ Cancel(r)
  \/ \E d \in Documents : Rotate(d)
  \/ Tick
  \/ (\A r \in Request : pc[r] = "done") /\ UNCHANGED aVars

Spec == Init /\ [][Next]_aVars

\* Tasks are scheduled, and the client's timeout ends a request to the provider.
FairSpec == Spec /\ \A r \in Request : WF_aVars(Step(r))

----------------------------------------------------------------------------
(* Properties *)

\* Refreshes are single-flight and never leave the lock behind: refresh_lock
\* is held exactly while its holder waits for the provider.
RefreshSingleFlight ==
  /\ Cardinality({r \in Request : pc[r] = "fetch"}) <= 1
  /\ \A r \in Request : holder = r <=> pc[r] = "fetch"

\* The keys are not replaced twice within refresh_floor, however many requests
\* miss the same key at once.
RefreshFloorHeld ==
  [][cache' # cache => clock - cache.last >= auth.refresh_floor]_aVars

\* A rotated key is picked up.  A sound token whose key was published all the
\* time its request ran is turned down as unknown_kid only if the cache was
\* younger than the floor or the refresh failed (key_for).
RotatedKeyAccepted ==
  \A r \in Request :
    /\ pc[r] = "done" /\ auth.type = "oidc"
    /\ Token(r) # None /\ Token(r).form = "jwt" /\ Token(r).sound = "yes"
    /\ r \notin excuse
    => out[r] # Denied("unknown_kid")

\* Every request ends, although requests wait for one another's refresh and
\* may be cancelled while they hold the lock.  (A request is made once: it is
\* not "new" again.)
EveryRequestEnds == []<>(\A r \in Request : pc[r] \in {"new", "done"})

Accepted(r) == pc[r] = "done" /\ out[r].ok

\* Whom a request acts for is decided by its credential, unless the tenant is
\* configured to come from a header: two accepted requests with the same
\* credential get the same user and tenant, whatever else they carry.
SameCredentialSameCaller ==
  \A q, r \in Request :
    /\ Accepted(q) /\ Accepted(r)
    /\ resolver.source # "from_metadata"
    /\ auth.type = "none" \/ md[q].authorization = md[r].authorization
    => out[q] = out[r]

----------------------------------------------------------------------------
(* The inductive invariants behind them *)

IsJwt(r) == Token(r) # None /\ Token(r).form = "jwt"

\* refresh_lock and the cache's age: the lock is held exactly during a fetch,
\* an answer exists only then, and the cache was old enough when it began.
LockOK(r) ==
  /\ holder = r <=> pc[r] = "fetch"
  /\ pc[r] # "fetch" => reply[r] = None
  /\ pc[r] \in {"lock", "fetch", "reread"} => auth.type = "oidc" /\ IsJwt(r)
  /\ pc[r] = "fetch" => clock - cache.last >= auth.refresh_floor

LockInv == AuthTypeOK /\ \A r \in Request : LockOK(r)

\* A running request whose key is still published: an answer the provider gave
\* since it began to fetch has the key, and so has the cache it reads again,
\* even if another request replaced that in between.
KeyOK(r) ==
  /\ pc[r] \in Stages \ {"new", "done"} /\ IsJwt(r) /\ r \notin excuse
       => Published(kid(r))
  /\ pc[r] = "reread" /\ r \notin excuse => kid(r) \in cache.kids
  /\ \A q \in Request :
       /\ reply[q] # None /\ Parses(reply[q])
       /\ pc[r] \in {"fetch", "reread"} /\ r \notin excuse
       => kid(r) \in Keys(reply[q])

KeyInv == RotatedKeyAccepted /\ \A r \in Request : KeyOK(r)

\* What the configured authenticator makes of the metadata m.
Authenticated(m) ==
  CASE auth.type = "none" -> Anonymous_authenticate
    [] auth.type = "static" -> StaticToken_authenticate(auth, m)
    [] auth.type = "jwt" -> Jwt_authenticate(auth, m)
    [] auth.type = "oidc" -> decode(auth, bearer_token(m))

\* The path a request took to its acceptance has left no trace in the result.
CallerOK(r) ==
  Accepted(r) => out[r] = resolve(resolver, md[r], Authenticated(md[r]))

CallerInv == \A r \in Request : CallerOK(r)
=============================================================================
