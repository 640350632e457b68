----------------------------- MODULE RateLimits -----------------------------
(***************************************************************************)
(* What the two rate limiters of crates/ratelimit share: the configured    *)
(* limits and the buckets they apply to.                                   *)
(*                                                                         *)
(* Tokens are floating-point numbers in the code so that slow rates do not *)
(* round to zero; the models count them in fractions of 1/Unit, and time   *)
(* in ticks.                                                               *)
(***************************************************************************)
EXTENDS Integers, Option

CONSTANTS
  Tenant, User,
  Limits,    \* [Tenant -> [tenant, per_user : [rate, burst]]]: override or default,
             \* rate in fractions per tick, burst in whole tokens
  Unit,      \* fractions in a token
  MaxClock   \* bound: ticks of the shared limiter

VARIABLE clock

ASSUME LimitsAssumption ==
  /\ Unit \in Nat \ {0}
  /\ MaxClock \in Nat
  /\ \A t \in Tenant : /\ Limits[t].tenant.rate \in Nat
                       /\ Limits[t].tenant.burst \in Nat
                       /\ Limits[t].per_user.rate \in Nat
                       /\ Limits[t].per_user.burst \in Nat
  /\ None \notin Tenant \cup User

\* A bucket is named by its tenant and, for a per-user one, its user.
Buckets == Tenant \X (User \cup {None})
Rate(i) == IF i[2] = None THEN Limits[i[1]].tenant ELSE Limits[i[1]].per_user
Capacity(i) == Rate(i).burst * Unit

is_enabled(r) == r.rate > 0 /\ r.burst > 0

AtMost(a, b) == IF a < b THEN a ELSE b
Floor0(a) == IF a > 0 THEN a ELSE 0
=============================================================================
