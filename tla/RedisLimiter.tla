---------------------------- MODULE RedisLimiter ----------------------------
(***************************************************************************)
(* The shared token buckets of crates/ratelimit/src/redis.rs: RPCs of any  *)
(* number of replicas run the bucket script one at a time in Redis, each   *)
(* with the time its caller read before it queued for the connection.      *)
(*                                                                         *)
(* The connection mutex is left out: it lets the waiting calls of a        *)
(* replica through in some order, and so does the model.  The replicas'    *)
(* clocks agree.                                                           *)
(***************************************************************************)
EXTENDS RateLimits

CONSTANTS
  Rpc,           \* calls of RedisLimiter::check, of all replicas
  Callers,       \* the pairs of tenant and user that call
  KeyTTL,        \* RedisLimiterConfig.key_ttl, in ticks
  ScriptFaults   \* whether the script call can fail

ASSUME RedisLimiterAssumption ==
  /\ Callers \subseteq Tenant \X User
  /\ KeyTTL \in Nat \ {0}
  /\ ScriptFaults \in BOOLEAN
  /\ None \notin Nat \cup [tokens : Nat, ts : Nat] \cup (Tenant \X User) /\ None # "Ok"

Scopes == {"Tenant", "User"}

VARIABLES
  fail_mode, \* RedisLimiterConfig.fail_mode: "Open" or "Closed"
  pc,      \* pc[r]: the scope r is to ask next, or "new", "done"
  who,     \* who[r]: tenant and user
  now,     \* now[r]: the time take_one read, None before
  hash,    \* hash[i]: fields tokens and ts of the Redis key, None when absent
  ttl,     \* ttl[i]: ticks the key still lives
  out,     \* out[r]: "Ok", the scope that rejected, "Closed", "Cancelled"
  took,    \* history: the scopes whose bucket gave r a token
  given,   \* history: given[i][t] is how many tokens bucket i gave to calls that
           \* had asked before time t
  errors,  \* history: the scopes whose script call failed for r
  behind   \* history: a script ran out of order

rVars == <<fail_mode, clock, pc, who, now, hash, ttl, out, took, given, errors,
           behind>>

SharedTypeOK ==
  /\ fail_mode \in {"Open", "Closed"}
  /\ clock \in 0 .. MaxClock
  /\ pc \in [Rpc -> {"new", "done"} \cup Scopes]
  /\ who \in [Rpc -> (Tenant \X User) \cup {None}]
  /\ now \in [Rpc -> Nat \cup {None}]
  /\ hash \in [Buckets -> [tokens : Nat, ts : Nat] \cup {None}]
  /\ ttl \in [Buckets -> 0 .. KeyTTL]
  /\ out \in [Rpc -> {"Ok", "Closed", "Cancelled"} \cup Scopes \cup {None}]
  /\ took \in [Rpc -> SUBSET Scopes]
  /\ given \in [Buckets -> [0 .. MaxClock + 1 -> Nat]]
  /\ errors \in [Rpc -> SUBSET Scopes]
  /\ behind \in BOOLEAN

SharedInit ==
  /\ fail_mode \in {"Open", "Closed"}
  /\ clock = 0
  /\ pc = [r \in Rpc |-> "new"]
  /\ who = [r \in Rpc |-> None]
  /\ now = [r \in Rpc |-> None]
  /\ hash = [i \in Buckets |-> None]
  /\ ttl = [i \in Buckets |-> 0]
  /\ out = [r \in Rpc |-> None]
  /\ took = [r \in Rpc |-> {}]
  /\ given = [i \in Buckets |-> [t \in 0 .. MaxClock + 1 |-> 0]]
  /\ errors = [r \in Rpc |-> {}]
  /\ behind = FALSE

----------------------------------------------------------------------------
(* TOKEN_BUCKET_SCRIPT, run atomically by Redis *)

Stored(i, t) == IF hash[i] = None THEN [tokens |-> Capacity(i), ts |-> t] ELSE hash[i]

\* History: a call that asked at t runs after a later one, or after the key is gone.
Late(i, t) == IF hash[i] = None THEN t < clock ELSE t < hash[i].ts

\* The tokens of bucket i at time t.
script_tokens(i, t) ==
  AtMost(Capacity(i), Stored(i, t).tokens + Floor0(t - Stored(i, t).ts) * Rate(i).rate)

\* Mutant: an admitted call is not written back.
script_unsaved(i, t) ==
  /\ hash' = [hash EXCEPT ![i] = [tokens |-> script_tokens(i, t), ts |-> t]]
  /\ ttl' = [ttl EXCEPT ![i] = KeyTTL]
  /\ behind' = (behind \/ Late(i, t))

script(i, t) ==
  /\ hash' = [hash EXCEPT ![i] =
       [tokens |-> IF script_tokens(i, t) >= Unit THEN script_tokens(i, t) - Unit
                                                  ELSE script_tokens(i, t),
        ts |-> t]]
  /\ ttl' = [ttl EXCEPT ![i] = KeyTTL]
  /\ behind' = (behind \/ Late(i, t))

----------------------------------------------------------------------------
(* RedisLimiter *)

LimitsOf(r) == Limits[who[r][1]]
Enabled(r, s) ==
  is_enabled(IF s = "Tenant" THEN LimitsOf(r).tenant ELSE LimitsOf(r).per_user)
BucketOf(r) == <<who[r][1], IF pc[r] = "Tenant" THEN None ELSE who[r][2]>>

Finish(r, verdict) ==
  /\ pc' = [pc EXCEPT ![r] = "done"]
  /\ out' = [out EXCEPT ![r] = verdict]

\* r has passed scope s: the user's bucket is next, if it is enabled.
Passed(r, s) ==
  \/ /\ s = "Tenant" /\ Enabled(r, "User")
     /\ pc' = [pc EXCEPT ![r] = "User"]
     /\ UNCHANGED out
  \/ /\ s = "User" \/ ~Enabled(r, "User")
     /\ Finish(r, "Ok")

\* check is called: with both buckets disabled it admits at once, otherwise it
\* reads the clock for the first bucket before it waits for anything.
RedisLimiter_check(r, t, u) ==
  /\ pc[r] = "new"
  /\ who' = [who EXCEPT ![r] = <<t, u>>]
  /\ \/ /\ is_enabled(Limits[t].tenant)
        /\ pc' = [pc EXCEPT ![r] = "Tenant"]
        /\ UNCHANGED out
     \/ /\ ~is_enabled(Limits[t].tenant) /\ is_enabled(Limits[t].per_user)
        /\ pc' = [pc EXCEPT ![r] = "User"]
        /\ UNCHANGED out
     \/ /\ ~is_enabled(Limits[t].tenant) /\ ~is_enabled(Limits[t].per_user)
        /\ Finish(r, "Ok")
  /\ now' = [now EXCEPT ![r] = IF pc'[r] = "done" THEN None ELSE clock]
  /\ UNCHANGED <<fail_mode, clock, hash, ttl, took, given, errors, behind>>

\* take_one reads the clock, then waits for the connection: for the second
\* bucket this may be long after the first was asked.
current_time_ms(r) ==
  /\ pc[r] \in Scopes
  /\ now[r] = None
  /\ now' = [now EXCEPT ![r] = clock]
  /\ UNCHANGED <<fail_mode, clock, pc, who, hash, ttl, out, took, given, errors, behind>>

\* History: one more token, to a call that asked at time t.
Counted(g, t) == [u \in 0 .. MaxClock + 1 |-> IF u > t THEN g[u] + 1 ELSE g[u]]

\* The script answers.
take_one(r) ==
  /\ pc[r] \in Scopes
  /\ now[r] # None
  /\ script(BucketOf(r), now[r])
  /\ \/ /\ script_tokens(BucketOf(r), now[r]) >= Unit
        /\ took' = [took EXCEPT ![r] = @ \cup {pc[r]}]
        /\ given' = [given EXCEPT ![BucketOf(r)] = Counted(@, now[r])]
        /\ Passed(r, pc[r])
     \/ /\ script_tokens(BucketOf(r), now[r]) < Unit
        /\ Finish(r, pc[r])
        /\ UNCHANGED <<took, given>>
  /\ now' = [now EXCEPT ![r] = None]
  /\ UNCHANGED <<fail_mode, clock, who, errors>>

\* Mutant: an error admits in either mode.
handle_redis_error_open(r) == Passed(r, pc[r])

\* handle_redis_error: fail-open goes on to the next bucket, fail-closed rejects.
handle_redis_error(r) ==
  \/ fail_mode = "Open" /\ Passed(r, pc[r])
  \/ fail_mode = "Closed" /\ Finish(r, "Closed")

\* The call fails; the script may have run all the same.
take_one_fails(r) ==
  /\ ScriptFaults
  /\ pc[r] \in Scopes
  /\ now[r] # None
  /\ script(BucketOf(r), now[r]) \/ UNCHANGED <<hash, ttl, behind>>
  /\ errors' = [errors EXCEPT ![r] = @ \cup {pc[r]}]
  /\ handle_redis_error(r)
  /\ now' = [now EXCEPT ![r] = None]
  /\ UNCHANGED <<fail_mode, clock, who, took, given>>

\* The client goes away while the script may be on its way.
Cancel(r) ==
  /\ pc[r] \in Scopes
  /\ now[r] # None
  /\ Finish(r, "Cancelled")
  /\ script(BucketOf(r), now[r]) \/ UNCHANGED <<hash, ttl, behind>>
  /\ now' = [now EXCEPT ![r] = None]
  /\ UNCHANGED <<fail_mode, clock, who, took, given, errors>>

\* Time passes; a key not touched for KeyTTL is gone.
SharedTick ==
  /\ clock < MaxClock
  /\ clock' = clock + 1
  /\ ttl' = [i \in Buckets |-> Floor0(ttl[i] - 1)]
  /\ hash' = [i \in Buckets |-> IF ttl[i] = 1 THEN None ELSE hash[i]]
  /\ UNCHANGED <<fail_mode, pc, who, now, out, took, given, errors, behind>>

Quiet == (\A r \in Rpc : pc[r] = "done") /\ clock = MaxClock /\ UNCHANGED rVars

SharedNext ==
  \/ \E r \in Rpc, c \in Callers : RedisLimiter_check(r, c[1], c[2])
  \/ \E r \in Rpc : \/ current_time_ms(r) \/ take_one(r)
                    \/ take_one_fails(r) \/ Cancel(r)
  \/ SharedTick
  \/ Quiet

SharedSpec == SharedInit /\ [][SharedNext]_rVars

----------------------------------------------------------------------------
(* Properties *)

\* The tokens that g counts between times s and e, both included.
Between(g, s, e) == g[e + 1] - g[s]

WithinQuota(i, g) ==
  \A s \in 0 .. MaxClock : \A e \in s .. MaxClock :
    Between(g, s, e) * Unit <= Capacity(i) + (e - s) * Rate(i).rate

\* The cluster-wide quota.  The replicas together get no more tokens in any
\* window than the burst and what the rate yields, through errors, lost
\* answers and expiring keys, provided that no call runs after one that asked
\* later or after its key expired, and that keys live long enough to fill up.
SharedQuotaHeld ==
  ~behind => \A i \in Buckets :
    is_enabled(Rate(i)) /\ KeyTTL * Rate(i).rate >= Capacity(i) => WithinQuota(i, given[i])

\* An admitted RPC got a token from every bucket enabled for it; the only
\* exception is an error in fail-open mode, which is always counted.
AdmittedPaid ==
  \A r \in Rpc : out[r] = "Ok" =>
    \A s \in Scopes : Enabled(r, s) =>
      s \in took[r] \/ (fail_mode = "Open" /\ s \in errors[r])

----------------------------------------------------------------------------
(* What makes the properties inductive *)

Paid(r, s) ==
  Enabled(r, s) => s \in took[r] \/ (fail_mode = "Open" /\ s \in errors[r])

\* A call asks the user's bucket only after it passed the tenant's, and never
\* knows a time that is still to come.
CallInv(r) ==
  /\ pc[r] # "new" => who[r] # None
  /\ pc[r] # "done" => out[r] # "Ok"
  /\ pc[r] = "User" => Paid(r, "Tenant")
  /\ out[r] = "Ok" => Paid(r, "Tenant") /\ Paid(r, "User")
  /\ now[r] # None => now[r] <= clock

NoneAfter(g, t) == \A u \in t + 1 .. MaxClock + 1 : g[u] = g[t + 1]

\* What was given since any time s, with the k tokens held at time t, is within
\* the capacity and what the rate yields.
Backed(i, g, t, k) ==
  \A s \in 0 .. t : Between(g, s, t) * Unit + k <= Capacity(i) + (t - s) * Rate(i).rate

\* An absent key is as good as a full bucket at the present time.  A bucket has
\* the tokens for what it gave, gave none to a call later than its last, and
\* its key outlives its last script by KeyTTL.
BucketInv(i) ==
  /\ Stored(i, clock).ts <= clock
  /\ NoneAfter(given[i], Stored(i, clock).ts)
  /\ Backed(i, given[i], Stored(i, clock).ts, Stored(i, clock).tokens)
  /\ WithinQuota(i, given[i])
  /\ hash[i] # None => ttl[i] > 0 /\ clock + ttl[i] >= hash[i].ts + KeyTTL

LongLived(i) == KeyTTL * Rate(i).rate >= Capacity(i)

SharedInv ==
  /\ SharedTypeOK
  /\ \A r \in Rpc : CallInv(r)
  /\ ~behind => \A i \in Buckets : LongLived(i) => BucketInv(i)
=============================================================================
