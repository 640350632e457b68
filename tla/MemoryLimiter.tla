---------------------------- MODULE MemoryLimiter ----------------------------
(***************************************************************************)
(* The in-process token buckets of crates/ratelimit/src/lib.rs.            *)
(***************************************************************************)
EXTENDS RateLimits

CONSTANT MaxTicks   \* bound: ticks of the in-process limiter

ASSUME MemoryAssumption == MaxTicks \in Nat /\ None \notin [tokens : Nat, last : Nat]

VARIABLES
  bucket,   \* bucket[i]: tokens and last_refill, None until first used
  taken,    \* history: taken[i] is the largest excess, over all windows up to
            \* now, of the tokens taken from i over what i's rate yields
  served    \* history: the same for the RPCs that were admitted

mVars == <<clock, bucket, taken, served>>

MemoryTypeOK ==
  /\ clock \in 0 .. MaxTicks
  /\ bucket \in [Buckets -> [tokens : Nat, last : Nat] \cup {None}]
  /\ taken \in [Buckets -> Nat]
  /\ served \in [Buckets -> Nat]

MemoryInit ==
  /\ clock = 0
  /\ bucket = [i \in Buckets |-> None]
  /\ taken = [i \in Buckets |-> 0]
  /\ served = [i \in Buckets |-> 0]

----------------------------------------------------------------------------
(* Bucket *)

\* Bucket::new starts full.
Current(i) == IF bucket[i] = None THEN [tokens |-> Capacity(i), last |-> clock]
                                  ELSE bucket[i]

\* The refill of try_take.
refilled(i) ==
  AtMost(Current(i).tokens + (clock - Current(i).last) * Rate(i).rate, Capacity(i))

\* Mutant: last_refill is never moved.
tried_keeps_time(i) ==
  [tokens |-> IF refilled(i) >= Unit THEN refilled(i) - Unit ELSE refilled(i),
   last |-> Current(i).last]

\* try_take: refill, then one token if there is one.
has_token(i) == refilled(i) >= Unit
tried(i) ==
  [tokens |-> IF has_token(i) THEN refilled(i) - Unit ELSE refilled(i),
   last |-> clock]

----------------------------------------------------------------------------

\* Mutant: the answer of the tenant's bucket is ignored.
verdict_user_only(t, u) ==
  CASE is_enabled(Limits[t].per_user) /\ ~has_token(<<t, u>>) -> "User"
    [] OTHER -> "Ok"

\* The tenant bucket is asked first, a disabled bucket is not asked.
verdict(t, u) ==
  CASE is_enabled(Limits[t].tenant) /\ ~has_token(<<t, None>>) -> "Tenant"
    [] /\ ~(is_enabled(Limits[t].tenant) /\ ~has_token(<<t, None>>))
       /\ is_enabled(Limits[t].per_user) /\ ~has_token(<<t, u>>) -> "User"
    [] OTHER -> "Ok"

\* Whether check consults bucket i: the user's only once the tenant's gave.
Asks(t, u, i) ==
  \/ i = <<t, None>> /\ is_enabled(Limits[t].tenant)
  \/ i = <<t, u>> /\ is_enabled(Limits[t].per_user) /\ verdict(t, u) # "Tenant"

\* The entry of a tenant is made by its first check with any bucket enabled,
\* its own bucket included even when only the per-user one is enabled.
Makes(t, i) ==
  /\ i = <<t, None>>
  /\ is_enabled(Limits[t].tenant) \/ is_enabled(Limits[t].per_user)

\* check, under the limiter's lock: a user-scope rejection has already taken
\* the tenant's token.
MemoryLimiter_check(t, u) ==
  /\ bucket' = [i \in Buckets |->
       CASE Asks(t, u, i) -> tried(i)
         [] ~Asks(t, u, i) /\ Makes(t, i) -> Current(i)
         [] ~Asks(t, u, i) /\ ~Makes(t, i) -> bucket[i]]
  /\ taken' = [i \in Buckets |->
       IF Asks(t, u, i) /\ has_token(i) THEN taken[i] + Unit ELSE taken[i]]
  /\ served' = [i \in Buckets |->
       IF Asks(t, u, i) /\ verdict(t, u) = "Ok" THEN served[i] + Unit ELSE served[i]]
  /\ UNCHANGED clock

\* Time passes: what was taken is paid back at the bucket's rate.
MemoryTick ==
  /\ clock < MaxTicks
  /\ clock' = clock + 1
  /\ taken' = [i \in Buckets |-> Floor0(taken[i] - Rate(i).rate)]
  /\ served' = [i \in Buckets |-> Floor0(served[i] - Rate(i).rate)]
  /\ UNCHANGED bucket

MemoryNext ==
  \/ \E t \in Tenant, u \in User : MemoryLimiter_check(t, u)
  \/ MemoryTick

MemorySpec == MemoryInit /\ [][MemoryNext]_mVars

----------------------------------------------------------------------------
(* Properties *)

\* A bucket's tokens are its capacity less what was taken and not yet paid
\* back, whatever the times of the calls: lazy refilling loses and invents
\* nothing (Bucket::try_take).
BucketExact == \A i \in Buckets : refilled(i) = Capacity(i) - taken[i]

\* The quota.  In every window of time the RPCs admitted for a tenant, and for
\* a user within it, exceed what the rate yields by at most the burst.
QuotaHeld ==
  \A i \in Buckets : is_enabled(Rate(i)) => served[i] <= Capacity(i)

\* What makes BucketExact and QuotaHeld inductive: a bucket is never in the
\* future nor above its capacity, an unused one has given nothing, and an RPC
\* is admitted only with a token of every bucket it asked.
LimiterInv ==
  /\ MemoryTypeOK
  /\ \A i \in Buckets :
       \/ bucket[i] = None /\ taken[i] = 0
       \/ /\ bucket[i] # None
          /\ bucket[i].last <= clock
          /\ bucket[i].tokens <= Capacity(i)
  /\ \A i \in Buckets : served[i] <= taken[i]
  /\ BucketExact
=============================================================================
