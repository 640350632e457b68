---------------------------- MODULE RateLimiter ----------------------------
(***************************************************************************)
(* The limiter of a gateway: rate_limit.store selects the in-process       *)
(* buckets or the shared ones (build_rate_limiter of crates/gateway), for  *)
(* the life of the process.                                                *)
(***************************************************************************)
EXTENDS MemoryLimiter, RedisLimiter

VARIABLE store   \* RateLimitStore: "Memory" or "Redis"

memoryVars == <<bucket, taken, served>>
sharedVars == <<fail_mode, pc, who, now, hash, ttl, out, took, given, errors, behind>>
lVars == <<store, clock, memoryVars, sharedVars>>

LimiterInit == store \in {"Memory", "Redis"} /\ MemoryInit /\ SharedInit

LimiterNext ==
  \/ store = "Memory" /\ MemoryNext /\ UNCHANGED <<store, sharedVars>>
  \/ store = "Redis" /\ SharedNext /\ UNCHANGED <<store, memoryVars>>

LimiterSpec == LimiterInit /\ [][LimiterNext]_lVars
=============================================================================
