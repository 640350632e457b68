--------------------------- MODULE ServiceProofs ---------------------------
(***************************************************************************)
(* Theorems about the two rate limiters, MemoryLimiter and RedisLimiter,   *)
(* for any limits, tenants and users, and for calls at any times; of the   *)
(* one in Redis also for any number of gateways and any faults.            *)
(***************************************************************************)
EXTENDS RateLimiter, TLAPS

----------------------------------------------------------------------------
(* Buckets *)

\* What a bucket yields in n ticks, and in one more.
LEMMA Yield ==
  ASSUME NEW n \in Nat, NEW x \in Nat
  PROVE  n * x \in Nat /\ (n + 1) * x = n * x + x /\ 0 * x = 0
OBVIOUS

\* Rates add up over adjacent periods.
LEMMA Periods ==
  ASSUME NEW s \in Nat, NEW t \in Nat, NEW u \in Nat, s <= t, t <= u, NEW x \in Nat
  PROVE  /\ (u - s) * x = (u - t) * x + (t - s) * x
         /\ (u - s) * x \in Nat /\ (u - t) * x \in Nat /\ (t - s) * x \in Nat
<1>1. PICK m \in Nat, n \in Nat : m = u - t /\ n = t - s /\ u - s = m + n
  OBVIOUS
<1>2. (m + n) * x = m * x + n * x /\ m * x \in Nat /\ n * x \in Nat
  OBVIOUS
<1> QED BY <1>1, <1>2

\* The rate and the capacity of a bucket are numbers.
LEMMA BucketType ==
  ASSUME NEW i \in Buckets
  PROVE  Rate(i).rate \in Nat /\ Rate(i).burst \in Nat /\ Capacity(i) \in Nat
<1>1. i[1] \in Tenant
  BY Zenon DEF Buckets
<1>2. Rate(i).rate \in Nat /\ Rate(i).burst \in Nat
  BY <1>1, LimitsAssumption, Zenon DEF Rate
<1>3. Unit \in Nat
  BY LimitsAssumption, Zenon
<1> QED BY <1>2, <1>3 DEF Capacity

----------------------------------------------------------------------------
(* RedisLimiter: the calls *)

\* Only call r changed.
OnlyCall(r) ==
  \A q \in Rpc \ {r} :
    /\ pc'[q] = pc[q] /\ who'[q] = who[q] /\ now'[q] = now[q] /\ out'[q] = out[q]
    /\ took'[q] = took[q] /\ errors'[q] = errors[q]

\* A call that nothing happened to.
LEMMA KeptCall ==
  ASSUME SharedTypeOK, NEW q \in Rpc, CallInv(q), UNCHANGED fail_mode,
         clock' \in Nat, clock' >= clock,
         pc'[q] = pc[q], who'[q] = who[q], now'[q] = now[q], out'[q] = out[q],
         took'[q] = took[q], errors'[q] = errors[q]
  PROVE  CallInv(q)'
<1>1. (Paid(q, "Tenant")' <=> Paid(q, "Tenant")) /\ (Paid(q, "User")' <=> Paid(q, "User"))
  BY Zenon DEF Paid, Enabled, LimitsOf
<1>2. now'[q] # None => now'[q] <= clock'
  BY LimitsAssumption DEF CallInv, SharedTypeOK
<1> QED BY <1>1, <1>2, Zenon DEF CallInv

\* A bucket that nothing happened to.
LEMMA KeptInv ==
  ASSUME NEW i \in Buckets, BucketInv(i), UNCHANGED clock,
         hash'[i] = hash[i], ttl'[i] = ttl[i], given'[i] = given[i]
  PROVE  BucketInv(i)'
<1>1. Stored(i, clock)' = Stored(i, clock)
  BY Zenon DEF Stored
<1> QED BY <1>1, Zenon DEF BucketInv

\* A bucket that no script and no call touched keeps its invariant; all do when
\* no script runs.
LEMMA QuietBuckets ==
  ASSUME SharedInv, UNCHANGED <<clock, hash, ttl, given, behind>>
  PROVE  ~behind' => \A i \in Buckets : LongLived(i) => BucketInv(i)'
BY KeptInv, Zenon DEF SharedInv

\* A step of one call keeps the invariant if it keeps the call's own part and
\* the buckets'.
LEMMA OneCallInv ==
  ASSUME SharedInv, NEW r \in Rpc, OnlyCall(r), UNCHANGED <<clock, fail_mode>>, CallInv(r)',
         SharedTypeOK', ~behind' => \A i \in Buckets : LongLived(i) => BucketInv(i)'
  PROVE  SharedInv'
<1>1. SharedTypeOK /\ clock' \in Nat /\ clock' >= clock
  BY LimitsAssumption DEF SharedInv, SharedTypeOK
<1>2. ASSUME NEW q \in Rpc, q # r PROVE CallInv(q)'
  BY <1>1, <1>2, KeptCall, Zenon DEF OnlyCall, SharedInv
<1> QED BY <1>2, Zenon DEF SharedInv, LongLived, Capacity, Rate

\* A new call is told which bucket to ask, or that it need ask none.
LEMMA CheckKeeps ==
  ASSUME SharedInv, NEW r \in Rpc, NEW t \in Tenant, NEW u \in User, RedisLimiter_check(r, t, u)
  PROVE  SharedInv'
<1> /\ SharedTypeOK /\ CallInv(r) /\ pc[r] = "new" /\ clock \in Nat /\ out[r] # "Ok"
    /\ <<t, u>> # None
  BY LimitsAssumption, RedisLimiterAssumption
     DEF SharedInv, SharedTypeOK, RedisLimiter_check, CallInv
<1> /\ who' = [who EXCEPT ![r] = <<t, u>>] /\ now' = [now EXCEPT ![r] = now'[r]]
    /\ now'[r] = None \/ now'[r] = clock
    /\ UNCHANGED <<fail_mode, clock, hash, ttl, took, given, errors, behind>>
  BY Zenon DEF RedisLimiter_check, SharedTypeOK
<1>1. PICK p \in {"done"} \cup Scopes, v \in {out[r], "Ok"} :
        /\ pc' = [pc EXCEPT ![r] = p] /\ out' = [out EXCEPT ![r] = v]
        /\ v = "Ok" => p = "done" /\ ~is_enabled(Limits[t].per_user)
        /\ p # "Tenant" => ~is_enabled(Limits[t].tenant)
  BY DEF RedisLimiter_check, Finish, SharedTypeOK, Scopes
<1> now' \in [Rpc -> Nat \cup {None}]
  BY DEF SharedTypeOK
<1> who' \in [Rpc -> (Tenant \X User) \cup {None}] /\ who'[r] = <<t, u>>
  BY Zenon DEF SharedTypeOK
<1>2. /\ pc'[r] = p /\ out'[r] = v
      /\ pc' \in [Rpc -> {"new", "done"} \cup Scopes]
      /\ out' \in [Rpc -> {"Ok", "Closed", "Cancelled"} \cup Scopes \cup {None}]
  BY <1>1, Zenon DEF SharedTypeOK
<1>3. SharedTypeOK' /\ OnlyCall(r)
  BY <1>1, <1>2, Zenon DEF SharedTypeOK, OnlyCall
<1>4. CallInv(r)'
  <2>1. /\ ~is_enabled(Limits[t].tenant) => Paid(r, "Tenant")'
        /\ ~is_enabled(Limits[t].per_user) => Paid(r, "User")'
    BY <1>2, Zenon DEF Paid, Enabled, LimitsOf
  <2> QED BY <1>1, <1>2, <2>1 DEF CallInv
<1> QED BY <1>3, <1>4, QuietBuckets, OneCallInv, Zenon

\* Reading the clock tells a call the present time.
LEMMA TimeKeeps ==
  ASSUME SharedInv, NEW r \in Rpc, current_time_ms(r)
  PROVE  SharedInv'
<1>1. /\ now' = [now EXCEPT ![r] = clock] /\ SharedTypeOK /\ CallInv(r) /\ clock \in Nat
      /\ UNCHANGED <<fail_mode, clock, pc, who, hash, ttl, out, took, given, errors, behind>>
  BY LimitsAssumption DEF SharedInv, SharedTypeOK, current_time_ms
<1>2. SharedTypeOK' /\ OnlyCall(r) /\ now'[r] = clock
  BY <1>1, Zenon DEF SharedTypeOK, OnlyCall
<1>3. (Paid(r, "Tenant")' <=> Paid(r, "Tenant")) /\ (Paid(r, "User")' <=> Paid(r, "User"))
  BY <1>1, Zenon DEF Paid, Enabled, LimitsOf
<1>4. CallInv(r)'
  BY <1>1, <1>2, <1>3 DEF CallInv
<1> QED BY <1>1, <1>2, <1>4, QuietBuckets, OneCallInv, Zenon

----------------------------------------------------------------------------
(* RedisLimiter: the answers of the script *)

\* What the answer to a call, or the lack of one, does to its bucket: the
\* script ran or did not, and when it gave the call a token it had one.
Serves(r, i, t) ==
  \/ /\ script(i, t)
     /\ \/ UNCHANGED given
        \/ script_tokens(i, t) >= Unit /\ given' = [given EXCEPT ![i] = Counted(@, t)]
  \/ UNCHANGED <<hash, ttl, behind, given>>

\* What it does to the call: having paid, or an error in fail-open mode, it
\* passes its scope s; otherwise it ends without being admitted.
Settles(r, s) ==
  \/ Passed(r, s) /\ (s \in took'[r] \/ (fail_mode = "Open" /\ s \in errors'[r]))
  \/ \E v \in {"Closed", "Cancelled"} \cup Scopes : Finish(r, v)

\* The three ways in which the wait for the script ends have this shape.
LEMMA AnswerShape ==
  ASSUME SharedInv, NEW r \in Rpc, take_one(r) \/ take_one_fails(r) \/ Cancel(r)
  PROVE  /\ pc[r] \in Scopes /\ now[r] \in Nat /\ now[r] <= clock /\ BucketOf(r) \in Buckets
         /\ now' = [now EXCEPT ![r] = None]
         /\ UNCHANGED <<fail_mode, clock, who>>
         /\ took' \in [Rpc -> SUBSET Scopes] /\ errors' \in [Rpc -> SUBSET Scopes]
         /\ took[r] \subseteq took'[r] /\ errors[r] \subseteq errors'[r]
         /\ \A q \in Rpc : q # r => took'[q] = took[q] /\ errors'[q] = errors[q]
         /\ Serves(r, BucketOf(r), now[r])
         /\ Settles(r, pc[r])
<1> /\ SharedTypeOK /\ CallInv(r) /\ pc[r] \in Scopes /\ now[r] # None
    /\ now' = [now EXCEPT ![r] = None] /\ UNCHANGED <<fail_mode, clock, who>>
  BY Zenon DEF SharedInv, take_one, take_one_fails, Cancel
<1> /\ now[r] \in Nat /\ now[r] <= clock /\ who[r] \in Tenant \X User
    /\ took \in [Rpc -> SUBSET Scopes] /\ errors \in [Rpc -> SUBSET Scopes]
  BY Zenon DEF SharedTypeOK, CallInv, Scopes
<1> BucketOf(r) \in Buckets
  BY Zenon DEF BucketOf, Buckets
<1>1. CASE take_one(r)
  <2> UNCHANGED errors
    BY <1>1, Zenon DEF take_one
  <2>1. CASE /\ script_tokens(BucketOf(r), now[r]) >= Unit
             /\ took' = [took EXCEPT ![r] = @ \cup {pc[r]}]
             /\ given' = [given EXCEPT ![BucketOf(r)] = Counted(@, now[r])]
             /\ Passed(r, pc[r])
    <3>1. /\ took' \in [Rpc -> SUBSET Scopes] /\ took[r] \subseteq took'[r]
          /\ \A q \in Rpc : q # r => took'[q] = took[q]
          /\ pc[r] \in took'[r]
      BY <2>1, Zenon
    <3>2. Serves(r, BucketOf(r), now[r]) /\ Settles(r, pc[r])
      BY <1>1, <2>1, <3>1, Zenon DEF take_one, Serves, Settles
    <3> QED BY <3>1, <3>2, Zenon
  <2>2. CASE Finish(r, pc[r]) /\ UNCHANGED <<took, given>>
    BY <1>1, <2>2, Zenon DEF take_one, Serves, Settles
  <2> QED BY <1>1, <2>1, <2>2, Zenon DEF take_one
<1>2. CASE take_one_fails(r) \/ Cancel(r)
  <2>1. /\ UNCHANGED <<took, given>>
        /\ script(BucketOf(r), now[r]) \/ UNCHANGED <<hash, ttl, behind>>
    BY <1>2, Zenon DEF take_one_fails, Cancel
  <2>2. /\ errors' \in [Rpc -> SUBSET Scopes] /\ errors[r] \subseteq errors'[r]
        /\ \A q \in Rpc : q # r => errors'[q] = errors[q]
        /\ take_one_fails(r) => pc[r] \in errors'[r]
    BY <1>2 DEF take_one_fails, Cancel
  <2>3. Settles(r, pc[r])
    BY <1>2, <2>2, Zenon DEF take_one_fails, Cancel, handle_redis_error, Settles
  <2> QED BY <2>1, <2>2, <2>3, Zenon DEF Serves
<1> QED BY <1>1, <1>2, Zenon

\* What the script writes.
Left(i, t) == IF script_tokens(i, t) >= Unit THEN script_tokens(i, t) - Unit
                                             ELSE script_tokens(i, t)

\* The fields a script finds, computes and writes are numbers.
LEMMA StoredType ==
  ASSUME SharedTypeOK, NEW i \in Buckets, NEW t \in Nat
  PROVE  /\ Stored(i, t).tokens \in Nat /\ Stored(i, t).ts \in Nat
         /\ script_tokens(i, t) \in Nat
         /\ script_tokens(i, t) <= Capacity(i)
         /\ script_tokens(i, t)
              <= Stored(i, t).tokens + Floor0(t - Stored(i, t).ts) * Rate(i).rate
         /\ Left(i, t) \in Nat /\ Left(i, t) <= script_tokens(i, t)
<1>1. Rate(i).rate \in Nat /\ Capacity(i) \in Nat /\ Unit \in Nat
  BY BucketType, LimitsAssumption, Zenon
<1>2. Stored(i, t).tokens \in Nat /\ Stored(i, t).ts \in Nat
  BY <1>1, Zenon DEF SharedTypeOK, Stored
<1>3. Floor0(t - Stored(i, t).ts) \in Nat
  BY <1>2 DEF Floor0
<1>4. Floor0(t - Stored(i, t).ts) * Rate(i).rate \in Nat
  BY <1>1, <1>3, Yield, Zenon
<1>5. /\ script_tokens(i, t) \in Nat
      /\ script_tokens(i, t) <= Capacity(i)
      /\ script_tokens(i, t)
           <= Stored(i, t).tokens + Floor0(t - Stored(i, t).ts) * Rate(i).rate
  BY <1>1, <1>2, <1>4 DEF script_tokens, AtMost
<1> QED BY <1>1, <1>2, <1>5 DEF Left

\* The script leaves a record with its caller's time, and a key that lives.
LEMMA ScriptWrites ==
  ASSUME SharedTypeOK, NEW i \in Buckets, NEW t \in Nat, script(i, t), UNCHANGED clock
  PROVE  /\ hash'[i].ts = t /\ hash'[i] # None /\ ttl'[i] = KeyTTL
         /\ Stored(i, clock)'.ts = t /\ Stored(i, clock)'.tokens = Left(i, t)
         /\ hash' \in [Buckets -> [tokens : Nat, ts : Nat] \cup {None}]
         /\ ttl' \in [Buckets -> 0 .. KeyTTL]
         /\ behind' \in BOOLEAN
<1>1. Left(i, t) \in Nat /\ KeyTTL \in 0 .. KeyTTL
  BY StoredType, RedisLimiterAssumption
<1>2. /\ hash' = [hash EXCEPT ![i] = [tokens |-> Left(i, t), ts |-> t]]
      /\ ttl' = [ttl EXCEPT ![i] = KeyTTL]
      /\ behind' \in BOOLEAN
  BY Zenon DEF script, Left
<1>3. /\ hash'[i] = [tokens |-> Left(i, t), ts |-> t]
      /\ hash' \in [Buckets -> [tokens : Nat, ts : Nat] \cup {None}]
      /\ ttl' \in [Buckets -> 0 .. KeyTTL] /\ ttl'[i] = KeyTTL
  BY <1>1, <1>2, Zenon DEF SharedTypeOK
<1>4. hash'[i] # None
  BY <1>1, <1>3, RedisLimiterAssumption
<1>5. Stored(i, clock)' = hash'[i]
  BY <1>4, Zenon DEF Stored
<1> QED BY <1>2, <1>3, <1>4, <1>5

\* The fields of the buckets keep their types.
LEMMA ServesType ==
  ASSUME SharedTypeOK, NEW r, NEW i \in Buckets, NEW t \in Nat, Serves(r, i, t), UNCHANGED clock
  PROVE  /\ hash' \in [Buckets -> [tokens : Nat, ts : Nat] \cup {None}]
         /\ ttl' \in [Buckets -> 0 .. KeyTTL]
         /\ behind' \in BOOLEAN
         /\ given' \in [Buckets -> [0 .. MaxClock + 1 -> Nat]]
<1>1. given' \in [Buckets -> [0 .. MaxClock + 1 -> Nat]]
  <2>1. given \in [Buckets -> [0 .. MaxClock + 1 -> Nat]] /\ given[i] \in [0 .. MaxClock + 1 -> Nat]
    BY Zenon DEF SharedTypeOK
  <2>2. Counted(given[i], t) \in [0 .. MaxClock + 1 -> Nat]
    BY <2>1 DEF Counted
  <2> QED BY <2>1, <2>2, Zenon DEF Serves
<1>2. /\ hash' \in [Buckets -> [tokens : Nat, ts : Nat] \cup {None}]
      /\ ttl' \in [Buckets -> 0 .. KeyTTL]
      /\ behind' \in BOOLEAN
  <2>1. CASE script(i, t)
    BY <2>1, ScriptWrites, Zenon
  <2>2. CASE UNCHANGED <<hash, ttl, behind>>
    BY <2>2, Zenon DEF SharedTypeOK
  <2> QED BY <2>1, <2>2, Zenon DEF Serves
<1> QED BY <1>1, <1>2, Zenon

\* It leaves the other calls alone, and this one paid for what it passed.
LEMMA AnswerCall ==
  ASSUME SharedInv, NEW r \in Rpc, take_one(r) \/ take_one_fails(r) \/ Cancel(r)
  PROVE  SharedTypeOK' /\ OnlyCall(r) /\ CallInv(r)'
<1>1. PICK s \in Scopes : s = pc[r]
  BY AnswerShape, Zenon
<1> /\ SharedTypeOK /\ CallInv(r) /\ now[r] \in Nat /\ now[r] <= clock
    /\ BucketOf(r) \in Buckets
    /\ now' = [now EXCEPT ![r] = None] /\ UNCHANGED <<fail_mode, clock, who>>
    /\ took' \in [Rpc -> SUBSET Scopes] /\ errors' \in [Rpc -> SUBSET Scopes]
    /\ took[r] \subseteq took'[r] /\ errors[r] \subseteq errors'[r]
    /\ \A q \in Rpc : q # r => took'[q] = took[q] /\ errors'[q] = errors[q]
    /\ Serves(r, BucketOf(r), now[r]) /\ Settles(r, s)
  BY <1>1, AnswerShape, Zenon DEF SharedInv
<1>2. /\ hash' \in [Buckets -> [tokens : Nat, ts : Nat] \cup {None}]
      /\ ttl' \in [Buckets -> 0 .. KeyTTL] /\ behind' \in BOOLEAN
      /\ given' \in [Buckets -> [0 .. MaxClock + 1 -> Nat]]
  BY ServesType, Zenon
<1>3. /\ pc' \in [Rpc -> {"new", "done"} \cup Scopes]
      /\ out' \in [Rpc -> {"Ok", "Closed", "Cancelled"} \cup Scopes \cup {None}]
      /\ \A q \in Rpc : q # r => pc'[q] = pc[q] /\ out'[q] = out[q]
  BY Zenon DEF Settles, SharedTypeOK, Passed, Finish, Scopes
<1>4. OnlyCall(r) /\ now' \in [Rpc -> Nat \cup {None}] /\ now'[r] = None
  BY <1>3, Zenon DEF SharedTypeOK, OnlyCall
<1>5. /\ Paid(r, "Tenant") => Paid(r, "Tenant")'
      /\ \A o \in Scopes : ~Enabled(r, o) => Paid(r, o)'
      /\ Enabled(r, "User")' <=> Enabled(r, "User")
  BY Zenon DEF Paid, Enabled, LimitsOf
<1>6. CallInv(r)'
  <2>1. /\ who'[r] # None /\ out[r] # "Ok" /\ (s = "User" => Paid(r, "Tenant"))
        /\ now'[r] = None
    BY <1>1, <1>4, Zenon DEF CallInv, Scopes
  <2>2. CASE Passed(r, s) /\ (s \in took'[r] \/ (fail_mode = "Open" /\ s \in errors'[r]))
    <3>1. Paid(r, s)'
      BY <2>2, Zenon DEF Paid
    <3>2. CASE s = "Tenant" /\ Enabled(r, "User")
      <4>1. pc'[r] = "User" /\ out'[r] = out[r]
        BY <2>2, <3>2, Zenon DEF Passed, SharedTypeOK
      <4> QED BY <2>1, <3>1, <3>2, <4>1, Zenon DEF CallInv
    <3>3. CASE s = "User" \/ ~Enabled(r, "User")
      <4>1. pc'[r] = "done" /\ out'[r] = "Ok"
        BY <2>2, <3>3, Zenon DEF Passed, Finish, SharedTypeOK
      <4>2. Paid(r, "Tenant")' /\ Paid(r, "User")'
        BY <1>5, <2>1, <3>1, <3>3, Zenon DEF Scopes
      <4> QED BY <2>1, <4>1, <4>2, Zenon DEF CallInv
    <3> QED BY <3>2, <3>3, Zenon DEF Scopes
  <2>3. ASSUME NEW v \in {"Closed", "Cancelled"} \cup Scopes, Finish(r, v)
        PROVE  CallInv(r)'
    <3>1. pc'[r] = "done" /\ out'[r] # "Ok"
      BY <2>3, Zenon DEF Finish, SharedTypeOK, Scopes
    <3> QED BY <2>1, <3>1, Zenon DEF CallInv
  <2> QED BY <2>2, <2>3, Zenon DEF Settles
<1>7. SharedTypeOK'
  BY <1>2, <1>3, <1>4, Zenon DEF SharedTypeOK
<1> QED BY <1>4, <1>6, <1>7, Zenon

----------------------------------------------------------------------------
(* RedisLimiter: tokens given within a window *)

\* The history of a bucket.
Counts == [0 .. MaxClock + 1 -> Nat]

\* Counts are numbers, and nothing is counted in a window after the last time.
LEMMA BetweenType ==
  ASSUME NEW g \in Counts, NEW s \in 0 .. MaxClock, NEW e \in 0 .. MaxClock
  PROVE  /\ Between(g, s, e) \in Int /\ Between(g, s, e) * Unit \in Int
         /\ \A t \in 0 .. e : NoneAfter(g, t) =>
              /\ Between(g, s, e) = Between(g, s, t)
              /\ t < s => Between(g, s, e) * Unit = 0
<1> MaxClock \in Nat /\ Unit \in Nat /\ 0 * Unit = 0 /\ \A n \in Int : n * Unit \in Int
  BY LimitsAssumption
<1>1. ASSUME NEW t \in 0 .. e, NoneAfter(g, t)
      PROVE  /\ Between(g, s, e) = Between(g, s, t)
             /\ t < s => Between(g, s, e) = 0
  <2>1. e + 1 \in t + 1 .. MaxClock + 1 /\ (t < s => s \in t + 1 .. MaxClock + 1)
    OBVIOUS
  <2> QED BY <1>1, <2>1 DEF NoneAfter, Between, Counts
<1>2. Between(g, s, e) \in Int
  BY DEF Between, Counts
<1> QED BY <1>1, <1>2, Zenon

\* A token given to a call that asked at time t counts in the windows that hold t.
LEMMA BetweenCounted ==
  ASSUME NEW g \in Counts, NEW t \in 0 .. MaxClock
  PROVE  /\ Counted(g, t) \in Counts
         /\ \A s \in 0 .. t :
              Between(Counted(g, t), s, t) * Unit = Between(g, s, t) * Unit + Unit
         /\ \A s \in 0 .. MaxClock : \A e \in s .. MaxClock :
              e < t => Between(Counted(g, t), s, e) = Between(g, s, e)
         /\ NoneAfter(g, t) => NoneAfter(Counted(g, t), t)
<1> MaxClock \in Nat
  BY LimitsAssumption, Zenon
<1>1. /\ Counted(g, t) \in Counts
      /\ \A u \in 0 .. MaxClock + 1 : Counted(g, t)[u] = IF u > t THEN g[u] + 1 ELSE g[u]
  BY DEF Counted, Counts
<1>2. ASSUME NEW s \in 0 .. t
      PROVE  Between(g, s, t) \in Int /\ Between(Counted(g, t), s, t) = Between(g, s, t) + 1
  <2>1. /\ t + 1 \in 0 .. MaxClock + 1 /\ s \in 0 .. MaxClock + 1 /\ t + 1 > t /\ ~(s > t)
        /\ g[t + 1] \in Nat /\ g[s] \in Nat
    BY DEF Counts
  <2> QED BY <1>1, <2>1 DEF Between
<1>3. ASSUME NEW s \in 0 .. MaxClock, NEW e \in s .. MaxClock, e < t
      PROVE  Between(Counted(g, t), s, e) = Between(g, s, e)
  <2>1. e + 1 \in 0 .. MaxClock + 1 /\ s \in 0 .. MaxClock + 1 /\ ~(e + 1 > t) /\ ~(s > t)
    BY <1>3
  <2> QED BY <1>1, <2>1, Zenon DEF Between
<1>4. NoneAfter(g, t) => NoneAfter(Counted(g, t), t)
  BY <1>1 DEF NoneAfter
<1>5. \A n \in Int : (n + 1) * Unit = n * Unit + Unit
  BY LimitsAssumption
<1> QED BY <1>1, <1>2, <1>3, <1>4, <1>5, Zenon

\* Time brings a bucket no more than its rate yields, up to its capacity.
LEMMA RefillBacked ==
  ASSUME NEW i \in Buckets, NEW g \in Counts, NEW u \in 0 .. MaxClock, NEW t \in 0 .. u,
         NEW k \in Nat, NEW m \in Nat, NoneAfter(g, t), Backed(i, g, t, k),
         m <= Capacity(i), m <= k + (u - t) * Rate(i).rate
  PROVE  Backed(i, g, u, m) /\ NoneAfter(g, u)
<1> DEFINE x == Rate(i).rate
           c == Capacity(i)
<1> x \in Nat /\ c \in Nat /\ MaxClock \in Nat
  BY BucketType, LimitsAssumption, Zenon
<1>1. ASSUME NEW s \in 0 .. u
      PROVE  Between(g, s, u) * Unit + m <= c + (u - s) * x
  <2>1. CASE s <= t
    <3>1. /\ Between(g, s, u) = Between(g, s, t) /\ Between(g, s, t) * Unit \in Int
          /\ Between(g, s, t) * Unit + k <= c + (t - s) * x
      BY <2>1, BetweenType DEF Backed
    <3>2. /\ (u - s) * x = (u - t) * x + (t - s) * x
          /\ (u - t) * x \in Nat /\ (t - s) * x \in Nat
      BY <2>1, Periods
    <3> QED BY <3>1, <3>2
  <2>2. CASE t < s
    <3>1. Between(g, s, u) * Unit = 0 /\ (u - s) * x \in Nat
      BY <2>2, BetweenType, Periods
    <3> QED BY <3>1
  <2> QED BY <2>1, <2>2
<1>2. NoneAfter(g, u)
  BY DEF NoneAfter
<1> QED BY <1>1, <1>2, Zenon DEF Backed

\* A bucket that holds a token has it to give.
LEMMA TakeBacked ==
  ASSUME NEW i \in Buckets, NEW g \in Counts, NEW t \in 0 .. MaxClock, NEW k \in Nat, k >= Unit,
         Backed(i, g, t, k)
  PROVE  Backed(i, Counted(g, t), t, k - Unit)
<1>1. ASSUME NEW s \in 0 .. t
      PROVE  Between(Counted(g, t), s, t) * Unit + (k - Unit) <= Capacity(i) + (t - s) * Rate(i).rate
  <2>1. /\ Between(g, s, t) * Unit + k <= Capacity(i) + (t - s) * Rate(i).rate
        /\ Between(Counted(g, t), s, t) * Unit = Between(g, s, t) * Unit + Unit
    BY BetweenCounted, Zenon DEF Backed
  <2>2. s \in 0 .. MaxClock /\ t - s \in Nat /\ Unit \in Nat
    BY LimitsAssumption
  <2>3. /\ Between(g, s, t) * Unit \in Int /\ (t - s) * Rate(i).rate \in Nat
        /\ Capacity(i) \in Nat
    BY <2>2, BucketType, BetweenType, Yield, Zenon
  <2> QED BY <2>1, <2>2, <2>3
<1> QED BY <1>1, Zenon DEF Backed

\* Windows that end before the last time keep their count, the others give no
\* more than the bucket had tokens for.
LEMMA BackedQuota ==
  ASSUME NEW i \in Buckets, NEW f \in Counts, NEW g \in Counts, NEW t \in 0 .. MaxClock,
         NEW k \in Nat, WithinQuota(i, f), Backed(i, g, t, k), NoneAfter(g, t),
         g = f \/ g = Counted(f, t)
  PROVE  WithinQuota(i, g)
<1> DEFINE x == Rate(i).rate
<1> x \in Nat /\ Capacity(i) \in Nat
  BY BucketType, Zenon
<1> SUFFICES ASSUME NEW s \in 0 .. MaxClock, NEW e \in s .. MaxClock
             PROVE  Between(g, s, e) * Unit <= Capacity(i) + (e - s) * x
  BY Zenon DEF WithinQuota
<1> e \in 0 .. MaxClock
  OBVIOUS
<1>1. CASE e < t
  <2>1. Between(g, s, e) = Between(f, s, e)
    BY <1>1, BetweenCounted
  <2> QED BY <2>1, Zenon DEF WithinQuota
<1>2. CASE t <= e /\ s <= t
  <2>1. /\ Between(g, s, e) = Between(g, s, t) /\ Between(g, s, t) * Unit \in Int
        /\ Between(g, s, t) * Unit + k <= Capacity(i) + (t - s) * x
    BY <1>2, BetweenType DEF Backed
  <2>2. /\ (e - s) * x = (e - t) * x + (t - s) * x
        /\ (e - t) * x \in Nat /\ (t - s) * x \in Nat
    BY <1>2, Periods
  <2> QED BY <2>1, <2>2
<1>3. CASE t <= e /\ s > t
  <2>1. Between(g, s, e) * Unit = 0 /\ (e - s) * x \in Nat
    BY <1>3, BetweenType, Periods
  <2> QED BY <2>1
<1> QED BY <1>1, <1>2, <1>3

----------------------------------------------------------------------------
(* RedisLimiter: the buckets *)

\* A call that is not late finds the bucket as it is now, in the past or present.
LEMMA InTime ==
  ASSUME SharedTypeOK, NEW i \in Buckets, NEW t \in Nat, t <= clock, ~Late(i, t)
  PROVE  /\ Stored(i, clock) = Stored(i, t)
         /\ Stored(i, t).ts <= t
         /\ Floor0(t - Stored(i, t).ts) = t - Stored(i, t).ts
<1>1. clock \in Nat
  BY LimitsAssumption DEF SharedTypeOK
<1>2. CASE hash[i] = None
  <2>1. t = clock
    BY <1>1, <1>2 DEF Late
  <2> QED BY <1>2, <2>1 DEF Stored, Floor0
<1>3. CASE hash[i] # None
  <2>1. /\ hash[i].ts \in Nat /\ hash[i].ts <= t
        /\ Stored(i, clock) = hash[i] /\ Stored(i, t) = hash[i]
    BY <1>3 DEF Late, SharedTypeOK, Stored
  <2> QED BY <2>1 DEF Floor0
<1> QED BY <1>2, <1>3, Zenon

\* A script that is not late keeps the bucket backed, whether the token it
\* takes reaches its caller or is lost.
LEMMA ScriptInv ==
  ASSUME SharedTypeOK, NEW i \in Buckets, BucketInv(i), NEW t \in Nat, t <= clock,
         ~Late(i, t), script(i, t), UNCHANGED clock,
         \/ given'[i] = given[i]
         \/ script_tokens(i, t) >= Unit /\ given'[i] = Counted(given[i], t)
  PROVE  BucketInv(i)'
<1> DEFINE g == given[i]
           k == script_tokens(i, t)
<1> /\ clock \in Nat /\ KeyTTL \in Nat \ {0} /\ t \in 0 .. MaxClock /\ g \in Counts
    /\ NoneAfter(g, Stored(i, clock).ts) /\ WithinQuota(i, g)
    /\ Backed(i, g, Stored(i, clock).ts, Stored(i, clock).tokens)
  BY LimitsAssumption, RedisLimiterAssumption DEF SharedTypeOK, Counts, BucketInv
<1>1. /\ Stored(i, clock).ts \in 0 .. t /\ Stored(i, clock).tokens \in Nat
      /\ k \in Nat /\ k <= Capacity(i)
      /\ k <= Stored(i, clock).tokens + (t - Stored(i, clock).ts) * Rate(i).rate
      /\ Left(i, t) \in Nat /\ Left(i, t) <= k
  BY StoredType, InTime
<1>2. Backed(i, g, t, k) /\ NoneAfter(g, t)
  BY <1>1, RefillBacked, Zenon
<1>3. Backed(i, g', t, Left(i, t)) /\ NoneAfter(g', t) /\ g' \in Counts
  <2>1. CASE g' = g
    <3>1. /\ Left(i, t) <= k + (t - t) * Rate(i).rate /\ Left(i, t) <= Capacity(i)
          /\ t \in 0 .. t
      BY <1>1, BucketType, Yield
    <3> QED BY <1>1, <1>2, <2>1, <3>1, RefillBacked, Zenon
  <2>2. CASE k >= Unit /\ g' = Counted(g, t)
    BY <1>1, <1>2, <2>2, TakeBacked, BetweenCounted DEF Left
  <2> QED BY <2>1, <2>2, Zenon
<1>4. WithinQuota(i, g')
  BY <1>1, <1>3, BackedQuota, Zenon
<1>5. /\ Stored(i, clock)'.ts = t /\ Stored(i, clock)'.tokens = Left(i, t)
      /\ clock' + ttl'[i] >= hash'[i].ts + KeyTTL /\ ttl'[i] > 0 /\ t <= clock'
  BY ScriptWrites
<1> QED BY <1>3, <1>4, <1>5, Zenon DEF BucketInv

\* The buckets keep their invariant, unless the script ran late.
LEMMA ServesInv ==
  ASSUME SharedInv, NEW r, NEW i \in Buckets, NEW t \in Nat, t <= clock, Serves(r, i, t),
         UNCHANGED clock
  PROVE  ~behind' => \A j \in Buckets : LongLived(j) => BucketInv(j)'
<1>1. CASE UNCHANGED <<hash, ttl, behind, given>>
  BY <1>1, QuietBuckets, Zenon
<1>2. CASE /\ script(i, t)
           /\ \/ UNCHANGED given
              \/ script_tokens(i, t) >= Unit /\ given' = [given EXCEPT ![i] = Counted(@, t)]
  <2> SUFFICES ASSUME ~behind', NEW j \in Buckets, LongLived(j) PROVE BucketInv(j)'
    BY Zenon
  <2>1. ~behind /\ ~Late(i, t)
    BY <1>2, Zenon DEF script
  <2>2. BucketInv(j) /\ SharedTypeOK
    BY <2>1, Zenon DEF SharedInv
  <2>3. CASE j = i
    <3>1. \/ given'[i] = given[i]
          \/ script_tokens(i, t) >= Unit /\ given'[i] = Counted(given[i], t)
      BY <1>2, <2>2, Zenon DEF SharedTypeOK
    <3> QED BY <1>2, <2>1, <2>2, <2>3, <3>1, ScriptInv, Zenon
  <2>4. CASE j # i
    <3>1. hash'[j] = hash[j] /\ ttl'[j] = ttl[j] /\ given'[j] = given[j]
      BY <1>2, <2>2, <2>4, Zenon DEF script, SharedTypeOK
    <3> QED BY <2>2, <3>1, KeptInv, Zenon
  <2> QED BY <2>3, <2>4, Zenon
<1> QED BY <1>1, <1>2, Zenon DEF Serves

\* Time passes: an absent key stays as good as a full bucket, a key that lives
\* keeps its fields, and one that expires had the time to fill up.
LEMMA TickBucketInv ==
  ASSUME SharedTypeOK, NEW i \in Buckets, LongLived(i), BucketInv(i), SharedTick
  PROVE  BucketInv(i)'
<1> DEFINE st == Stored(i, clock)
           x == Rate(i).rate
<1> /\ clock \in Nat /\ clock' = clock + 1 /\ clock' \in 0 .. MaxClock
    /\ KeyTTL \in Nat \ {0} /\ given[i] \in Counts /\ given'[i] = given[i]
    /\ hash'[i] = IF ttl[i] = 1 THEN None ELSE hash[i]
    /\ ttl'[i] = Floor0(ttl[i] - 1)
    /\ ttl[i] \in Nat
  BY LimitsAssumption, RedisLimiterAssumption DEF SharedTypeOK, SharedTick, Counts
<1> /\ st.tokens \in Nat /\ st.ts \in 0 .. clock
    /\ x \in Nat /\ Capacity(i) \in Nat
    /\ NoneAfter(given[i], st.ts) /\ Backed(i, given[i], st.ts, st.tokens)
    /\ WithinQuota(i, given[i])
    /\ hash[i] # None => ttl[i] > 0 /\ clock + ttl[i] >= hash[i].ts + KeyTTL
  BY StoredType, BucketType DEF BucketInv
<1>1. CASE hash'[i] = None
  <2>1. PICK u \in 0 .. MaxClock :
          /\ u = clock' /\ st.ts \in 0 .. u /\ (u - st.ts) * x \in Nat
          /\ Stored(i, clock)' = [tokens |-> Capacity(i), ts |-> u]
    <3>1. PICK u \in 0 .. MaxClock : u = clock' /\ st.ts \in 0 .. u
      OBVIOUS
    <3>2. (u - st.ts) * x \in Nat
      BY <3>1, Periods
    <3>3. Stored(i, clock)' = [tokens |-> Capacity(i), ts |-> u]
      BY <1>1, <3>1, Zenon DEF Stored, Capacity, Rate
    <3> QED BY <3>1, <3>2, <3>3, Zenon
  <2>2. Capacity(i) <= st.tokens + (u - st.ts) * x
    <3>1. CASE hash[i] = None
      BY <2>1, <3>1 DEF Stored
    <3>2. CASE hash[i] # None
      <4>1. PICK w \in Nat : w = st.ts + KeyTTL /\ w <= u /\ w - st.ts = KeyTTL
        BY <1>1, <2>1, <3>2 DEF Stored
      <4>2. /\ (u - st.ts) * x = (u - w) * x + (w - st.ts) * x
            /\ (u - w) * x \in Nat /\ (w - st.ts) * x \in Nat
        BY <2>1, <4>1, Periods
      <4> QED BY <4>1, <4>2 DEF LongLived
    <3> QED BY <3>1, <3>2, Zenon
  <2>3. Backed(i, given[i], u, Capacity(i)) /\ NoneAfter(given[i], u)
    <3>1. Capacity(i) <= Capacity(i)
      OBVIOUS
    <3> QED BY <2>1, <2>2, <3>1, RefillBacked
  <2> QED BY <1>1, <2>1, <2>3 DEF BucketInv
<1>2. CASE hash'[i] # None
  <2>1. /\ hash'[i] = hash[i] /\ ttl[i] # 1 /\ hash[i] # None /\ Stored(i, clock)' = st
        /\ hash[i].ts \in Nat
    BY <1>2, Zenon DEF Stored, SharedTypeOK
  <2>2. ttl'[i] > 0 /\ clock' + ttl'[i] >= hash'[i].ts + KeyTTL /\ st.ts <= clock'
    BY <2>1 DEF Floor0
  <2> QED BY <2>1, <2>2, Zenon DEF BucketInv
<1> QED BY <1>1, <1>2, Zenon

----------------------------------------------------------------------------
(* RedisLimiter: theorems *)

\* An answer, an error or a cancellation keeps the invariant.
LEMMA AnswerKeeps ==
  ASSUME SharedInv, NEW r \in Rpc, take_one(r) \/ take_one_fails(r) \/ Cancel(r)
  PROVE  SharedInv'
<1>1. ~behind' => \A i \in Buckets : LongLived(i) => BucketInv(i)'
  BY AnswerShape, ServesInv, Zenon
<1> QED BY <1>1, AnswerShape, AnswerCall, OneCallInv, Zenon

\* Time passes: keys grow older and may expire.
LEMMA SharedTickKeeps ==
  ASSUME SharedInv, SharedTick
  PROVE  SharedInv'
<1>1. /\ SharedTypeOK /\ clock' \in Nat /\ clock' \in 0 .. MaxClock /\ clock' >= clock
      /\ UNCHANGED <<fail_mode, pc, who, now, out, took, given, errors, behind>>
  BY LimitsAssumption DEF SharedInv, SharedTypeOK, SharedTick
<1>2. ttl' \in [Buckets -> 0 .. KeyTTL]
  BY <1>1, RedisLimiterAssumption DEF SharedTick, SharedTypeOK, Floor0
<1>3. hash' \in [Buckets -> [tokens : Nat, ts : Nat] \cup {None}]
  BY <1>1, Zenon DEF SharedTick, SharedTypeOK
<1>4. SharedTypeOK'
  BY <1>1, <1>2, <1>3, Zenon DEF SharedTypeOK
<1>5. \A q \in Rpc : CallInv(q)'
  BY <1>1, KeptCall, Zenon DEF SharedInv
<1>6. ~behind' => \A i \in Buckets : LongLived(i) => BucketInv(i)'
  BY <1>1, TickBucketInv, Zenon DEF SharedInv
<1> QED BY <1>4, <1>5, <1>6, Zenon DEF SharedInv, LongLived, Capacity, Rate

\* Initially nothing was given, and every bucket is full.
LEMMA SharedInitInv ==
  ASSUME SharedInit
  PROVE  SharedInv
<1>1. 0 \in 0 .. MaxClock /\ 0 \in 0 .. KeyTTL
  BY LimitsAssumption, RedisLimiterAssumption
<1>2. ttl \in [Buckets -> 0 .. KeyTTL] /\ clock \in 0 .. MaxClock
  BY <1>1, Zenon DEF SharedInit
<1>3. given \in [Buckets -> [0 .. MaxClock + 1 -> Nat]]
  BY Zenon DEF SharedInit
<1>4. SharedTypeOK
  BY <1>2, <1>3, Zenon DEF SharedInit, SharedTypeOK
<1>5. ASSUME NEW r \in Rpc PROVE CallInv(r)
  <2>1. pc[r] = "new" /\ who[r] = None /\ out[r] = None /\ now[r] = None
    BY Zenon DEF SharedInit
  <2> QED BY <2>1, RedisLimiterAssumption, Zenon DEF CallInv
<1>6. ASSUME NEW i \in Buckets PROVE BucketInv(i)
  <2>1. /\ clock = 0 /\ hash[i] = None /\ Stored(i, clock).ts = 0
        /\ Stored(i, clock).tokens = Capacity(i)
        /\ \A u \in 0 .. MaxClock + 1 : given[i][u] = 0
    BY Zenon DEF SharedInit, Stored
  <2>2. Capacity(i) \in Nat /\ Rate(i).rate \in Nat /\ Unit \in Nat /\ MaxClock \in Nat
    BY BucketType, LimitsAssumption, Zenon
  <2>3. 0 * Unit = 0 /\ 0 * Rate(i).rate = 0 /\ \A n \in Nat : n * Rate(i).rate \in Nat
    BY <2>2, Yield, Zenon
  <2>4. \A s, e \in 0 .. MaxClock : Between(given[i], s, e) = 0
    BY <2>1, <2>2 DEF Between
  <2>5. WithinQuota(i, given[i])
    <3>1. SUFFICES ASSUME NEW s \in 0 .. MaxClock, NEW e \in s .. MaxClock
                   PROVE  Between(given[i], s, e) * Unit <= Capacity(i) + (e - s) * Rate(i).rate
      BY Zenon DEF WithinQuota
    <3>2. s \in Nat /\ e \in 0 .. MaxClock /\ e - s \in Nat
      BY <2>2
    <3>3. Between(given[i], s, e) = 0 /\ (e - s) * Rate(i).rate \in Nat
      BY <2>3, <2>4, <3>2, Zenon
    <3> QED BY <2>2, <2>3, <3>3
  <2>6. Backed(i, given[i], 0, Capacity(i))
    <3>1. SUFFICES ASSUME NEW s \in 0 .. 0
                   PROVE  Between(given[i], s, 0) * Unit + Capacity(i)
                            <= Capacity(i) + (0 - s) * Rate(i).rate
      BY Zenon DEF Backed
    <3>2. s \in Nat /\ 0 \in Nat /\ s = 0
      OBVIOUS
    <3>3. Between(given[i], s, 0) = 0 /\ 0 - s = 0
      BY <1>1, <2>4, <3>2
    <3> QED BY <2>2, <2>3, <3>3
  <2>7. NoneAfter(given[i], 0)
    BY <2>1, <2>2 DEF NoneAfter
  <2> QED BY <2>1, <2>5, <2>6, <2>7 DEF BucketInv
<1> QED BY <1>4, <1>5, <1>6, Zenon DEF SharedInv

\* The invariant is inductive.
LEMMA SharedNextInv == SharedInv /\ [SharedNext]_rVars => SharedInv'
<1> SUFFICES ASSUME SharedInv, [SharedNext]_rVars PROVE SharedInv' BY Zenon
<1>1. ASSUME NEW r \in Rpc, NEW c \in Callers, RedisLimiter_check(r, c[1], c[2])
      PROVE  SharedInv'
  <2>1. c[1] \in Tenant /\ c[2] \in User
    BY RedisLimiterAssumption, Zenon
  <2> QED BY <1>1, <2>1, CheckKeeps, Zenon
<1>2. CASE UNCHANGED rVars
  <2>1. /\ SharedTypeOK /\ SharedTypeOK' /\ clock' \in Nat /\ clock' >= clock
        /\ UNCHANGED <<fail_mode, clock, hash, ttl, behind, given>>
    BY <1>2, LimitsAssumption DEF rVars, SharedInv, SharedTypeOK
  <2>2. \A q \in Rpc : CallInv(q)'
    BY <1>2, <2>1, KeptCall, Zenon DEF rVars, SharedInv
  <2>3. ~behind' => \A i \in Buckets : LongLived(i) => BucketInv(i)'
    BY <2>1, QuietBuckets, Zenon
  <2> QED BY <2>1, <2>2, <2>3, Zenon DEF SharedInv, LongLived, Capacity, Rate
<1>3. CASE SharedNext
  BY <1>1, <1>2, <1>3, TimeKeeps, AnswerKeeps, SharedTickKeeps, Zenon DEF SharedNext, Quiet
<1> QED BY <1>2, <1>3, Zenon

\* Every reachable state of the replicas and Redis satisfies the invariant.
THEOREM SharedInvariance == SharedSpec => []SharedInv
BY SharedInitInv, SharedNextInv, PTL DEF SharedSpec

\* The cluster-wide quota: through lost answers, errors, cancelled calls and
\* expiring keys, the replicas together get no more tokens in any window than
\* the burst and what the rate yields, as long as no script runs out of order
\* (TOKEN_BUCKET_SCRIPT, take_one).
THEOREM SharedQuota == SharedSpec => []SharedQuotaHeld
<1>1. SharedInv => SharedQuotaHeld
  BY Zenon DEF SharedInv, SharedQuotaHeld, LongLived, BucketInv
<1> QED BY <1>1, SharedInvariance, PTL

\* No call is admitted that a bucket enabled for it did not give a token, but
\* for the errors that fail-open lets through (RedisLimiter::check).
THEOREM AdmittedCallsPaid == SharedSpec => []AdmittedPaid
<1>1. SharedInv => AdmittedPaid
  BY Zenon DEF SharedInv, CallInv, AdmittedPaid, Paid, Scopes
<1> QED BY <1>1, SharedInvariance, PTL

----------------------------------------------------------------------------
(* MemoryLimiter: the inductive invariant *)

\* A bucket as try_take finds it is never in the future nor above capacity.
LEMMA CurrentType ==
  ASSUME LimiterInv, NEW i \in Buckets
  PROVE  /\ Current(i).tokens \in 0 .. Capacity(i)
         /\ Current(i).last \in Nat
         /\ Current(i).last <= clock
         /\ clock \in Nat
BY BucketType DEF LimiterInv, MemoryTypeOK, Current

\* The refill of try_take stays between zero and the capacity.
LEMMA RefilledType ==
  ASSUME LimiterInv, NEW i \in Buckets
  PROVE  refilled(i) \in 0 .. Capacity(i)
<1>1. clock - Current(i).last \in Nat
  BY CurrentType
<1>2. (clock - Current(i).last) * Rate(i).rate \in Nat
  BY <1>1, BucketType, Yield, Zenon
<1> QED BY <1>2, BucketType, CurrentType DEF refilled, AtMost

\* An admitted RPC got a token from every bucket it asked (check returns at the
\* first bucket that has none).
LEMMA AdmittedGot ==
  ASSUME NEW t \in Tenant, NEW u \in User, NEW i \in Buckets,
         Asks(t, u, i), verdict(t, u) = "Ok"
  PROVE  has_token(i)
<1>1. u # None
  BY LimitsAssumption, Zenon
<1>2. CASE i = <<t, None>> /\ is_enabled(Limits[t].tenant)
  BY <1>2, Zenon DEF verdict
<1>3. CASE i = <<t, u>> /\ is_enabled(Limits[t].per_user)
  BY <1>3, Zenon DEF verdict
<1> QED BY <1>2, <1>3, Zenon DEF Asks

\* The invariant holds initially: every bucket starts full.
LEMMA InitInv == MemoryInit => LimiterInv
<1> SUFFICES ASSUME MemoryInit PROVE LimiterInv BY Zenon
<1>1. MemoryTypeOK
  BY LimitsAssumption, MemoryAssumption DEF MemoryInit, MemoryTypeOK
<1>2. ASSUME NEW i \in Buckets
      PROVE  /\ bucket[i] = None /\ taken[i] = 0 /\ served[i] <= taken[i]
             /\ refilled(i) = Capacity(i) - taken[i]
  <2>1. bucket[i] = None /\ taken[i] = 0 /\ served[i] = 0 /\ clock = 0
    BY Zenon DEF MemoryInit
  <2>2. Current(i) = [tokens |-> Capacity(i), last |-> 0]
    BY <2>1, Zenon DEF Current
  <2>3. (clock - Current(i).last) * Rate(i).rate = 0
    BY <2>1, <2>2, BucketType, Yield
  <2> QED BY <2>1, <2>2, <2>3, BucketType DEF refilled, AtMost
<1> QED BY <1>1, <1>2, Zenon DEF LimiterInv, BucketExact

\* A bucket just refilled at the present time is refilled no further.
LEMMA JustRefilled ==
  ASSUME NEW i \in Buckets, NEW n \in 0 .. Capacity(i), clock \in Nat, UNCHANGED clock,
         bucket'[i] = [tokens |-> n, last |-> clock],
         bucket'[i] # None
  PROVE  refilled(i)' = n
<1>1. Current(i)' = [tokens |-> n, last |-> clock]
  BY Zenon DEF Current
<1>2. clock' - Current(i)'.last = 0
  BY <1>1
<1>3. 0 * Rate(i).rate = 0
  BY BucketType, Yield, Zenon
<1>4. refilled(i)' = AtMost(n + 0 * Rate(i).rate, Capacity(i))
  BY <1>1, <1>2 DEF refilled, Capacity, Rate
<1> QED BY <1>3, <1>4, BucketType DEF AtMost

\* check keeps what is known of each bucket, asked, only made, or left alone.
LEMMA CheckBucket ==
  ASSUME LimiterInv, NEW t \in Tenant, NEW u \in User, MemoryLimiter_check(t, u), NEW i \in Buckets
  PROVE  /\ bucket'[i] \in [tokens : Nat, last : Nat] \cup {None}
         /\ taken'[i] \in Nat /\ served'[i] \in Nat
         /\ \/ bucket'[i] = None /\ taken'[i] = 0
            \/ /\ bucket'[i] # None
               /\ bucket'[i].last <= clock
               /\ bucket'[i].tokens <= Capacity(i)
         /\ served'[i] <= taken'[i]
         /\ refilled(i)' = Capacity(i) - taken'[i]
<1> /\ clock \in Nat /\ UNCHANGED clock /\ Unit \in Nat
    /\ taken[i] \in Nat /\ served[i] \in Nat /\ served[i] <= taken[i]
    /\ refilled(i) = Capacity(i) - taken[i]
  BY LimitsAssumption DEF LimiterInv, MemoryTypeOK, MemoryLimiter_check, BucketExact
<1> Capacity(i) \in Nat /\ refilled(i) \in 0 .. Capacity(i)
  BY BucketType, RefilledType, Zenon
<1>1. \A n, m \in Nat : [tokens |-> n, last |-> m] # None
  BY MemoryAssumption
<1>2. /\ taken'[i] = IF Asks(t, u, i) /\ has_token(i) THEN taken[i] + Unit ELSE taken[i]
      /\ served'[i] = IF Asks(t, u, i) /\ verdict(t, u) = "Ok"
                      THEN served[i] + Unit ELSE served[i]
  BY Zenon DEF MemoryLimiter_check
<1>3. CASE Asks(t, u, i)
  <2>1. PICK n \in 0 .. Capacity(i) :
               /\ bucket'[i] = [tokens |-> n, last |-> clock] /\ n \in Nat
               /\ n = IF has_token(i) THEN refilled(i) - Unit ELSE refilled(i)
    <3>1. PICK n \in 0 .. Capacity(i) :
               /\ tried(i) = [tokens |-> n, last |-> clock]
               /\ n = IF has_token(i) THEN refilled(i) - Unit ELSE refilled(i)
      BY DEF tried, has_token
    <3>2. bucket'[i] = tried(i) /\ n \in Nat
      BY <1>3 DEF MemoryLimiter_check
    <3> QED BY <3>1, <3>2, Zenon
  <2>2. bucket'[i] # None
    BY <1>1, <2>1, Zenon
  <2>3. refilled(i)' = n
    BY <2>1, <2>2, JustRefilled, Zenon
  <2>4. verdict(t, u) = "Ok" => has_token(i)
    BY <1>3, AdmittedGot, Zenon
  <2>5. /\ taken'[i] \in Nat /\ served'[i] \in Nat /\ served'[i] <= taken'[i]
        /\ refilled(i)' = Capacity(i) - taken'[i]
    BY <1>2, <1>3, <2>1, <2>3, <2>4
  <2> QED BY <2>1, <2>2, <2>5
<1>4. CASE ~Asks(t, u, i)
  <2>1. taken'[i] = taken[i] /\ served'[i] = served[i]
    BY <1>2, <1>4, Zenon
  <2>2. \/ bucket'[i] = bucket[i]
        \/ bucket[i] = None /\ bucket'[i] = [tokens |-> Capacity(i), last |-> clock]
    BY <1>4, Zenon DEF MemoryLimiter_check, Current
  <2>3. CASE bucket'[i] = bucket[i]
    <3>1. refilled(i)' = refilled(i)
      BY <2>3, Zenon DEF refilled, Current, Capacity, Rate
    <3> QED BY <2>1, <2>3, <3>1, Zenon DEF LimiterInv, MemoryTypeOK
  <2>4. CASE bucket[i] = None /\ bucket'[i] = [tokens |-> Capacity(i), last |-> clock]
    <3>1. bucket'[i] # None /\ taken[i] = 0
      BY <1>1, <2>4, Zenon DEF LimiterInv
    <3>2. refilled(i)' = Capacity(i)
      BY <2>4, <3>1, JustRefilled
    <3> QED BY <2>1, <2>4, <3>1, <3>2
  <2> QED BY <2>2, <2>3, <2>4, Zenon
<1> QED BY <1>3, <1>4, Zenon

\* check keeps the invariant.
LEMMA CheckInv ==
  ASSUME LimiterInv, NEW t \in Tenant, NEW u \in User, MemoryLimiter_check(t, u)
  PROVE  LimiterInv'
<1>1. UNCHANGED clock /\ clock \in 0 .. MaxTicks
  BY Zenon DEF MemoryLimiter_check, LimiterInv, MemoryTypeOK
<1>2. MemoryTypeOK'
  BY <1>1, CheckBucket, Zenon DEF MemoryLimiter_check, MemoryTypeOK
<1>3. BucketExact'
  BY CheckBucket, Zenon DEF BucketExact, Capacity, Rate
<1>4. \A i \in Buckets : served'[i] <= taken'[i]
  BY CheckBucket, Zenon
<1>5. \A i \in Buckets : \/ bucket'[i] = None /\ taken'[i] = 0
                         \/ /\ bucket'[i] # None
                            /\ bucket'[i].last <= clock'
                            /\ bucket'[i].tokens <= Capacity(i)
  BY <1>1, CheckBucket, Zenon
<1> QED BY <1>2, <1>3, <1>4, <1>5, Zenon DEF LimiterInv, Capacity, Rate

\* Time passing keeps the invariant.
LEMMA TickInv ==
  ASSUME LimiterInv, MemoryTick
  PROVE  LimiterInv'
<1> /\ clock \in Nat /\ clock' = clock + 1 /\ clock' \in 0 .. MaxTicks
    /\ UNCHANGED bucket
  BY MemoryAssumption DEF LimiterInv, MemoryTypeOK, MemoryTick
<1>1. ASSUME NEW i \in Buckets
      PROVE  /\ taken'[i] \in Nat /\ served'[i] \in Nat /\ served'[i] <= taken'[i]
             /\ taken[i] = 0 => taken'[i] = 0
  BY BucketType DEF LimiterInv, MemoryTypeOK, MemoryTick, Floor0
<1>2. ASSUME NEW i \in Buckets
      PROVE  refilled(i)' = Capacity(i) - taken'[i]
  <2> DEFINE x == Rate(i).rate
             e == (clock - Current(i).last) * x
  <2> x \in Nat /\ Capacity(i) \in Nat /\ taken[i] \in Nat
    BY BucketType, Zenon DEF LimiterInv, MemoryTypeOK
  <2>1. taken'[i] = Floor0(taken[i] - x)
    BY Zenon DEF MemoryTick
  <2>2. CASE bucket[i] = None
    <3>1. taken[i] = 0
      BY <2>2, Zenon DEF LimiterInv
    <3>2. Current(i)' = [tokens |-> Capacity(i), last |-> clock']
      BY <2>2, Zenon DEF Current, Capacity, Rate
    <3>3. clock' - Current(i)'.last = 0 /\ 0 * x = 0
      BY <3>2, Yield
    <3>4. refilled(i)' = Capacity(i)
      BY <3>2, <3>3 DEF refilled, AtMost, Capacity, Rate
    <3> QED BY <2>1, <3>1, <3>4 DEF Floor0
  <2>3. CASE bucket[i] # None
    <3>1. Current(i)' = Current(i)
      BY <2>3, Zenon DEF Current
    <3>2. clock - Current(i).last \in Nat /\ Current(i).tokens \in Nat
      BY CurrentType
    <3>3. clock' - Current(i)'.last = (clock - Current(i).last) + 1
      BY <3>1, <3>2, CurrentType
    <3>4. e \in Nat /\ (clock' - Current(i)'.last) * x = e + x
      <4>1. \A n \in Nat : n * x \in Nat /\ (n + 1) * x = n * x + x
        BY Yield, Zenon
      <4> QED BY <3>2, <3>3, <4>1, Zenon
    <3>5. AtMost(Current(i).tokens + e, Capacity(i)) = Capacity(i) - taken[i]
      BY Zenon DEF LimiterInv, BucketExact, refilled
    <3>6. refilled(i)' = AtMost(Current(i).tokens + (e + x), Capacity(i))
      BY <3>1, <3>4, Zenon DEF refilled, Capacity, Rate
    <3> HIDE DEF e, x
    <3>7. /\ Current(i).tokens + e \in Nat
          /\ Current(i).tokens + (e + x) = (Current(i).tokens + e) + x
      BY <3>2, <3>4
    <3>8. AtMost((Current(i).tokens + e) + x, Capacity(i))
            = Capacity(i) - Floor0(taken[i] - x)
      BY <3>5, <3>7 DEF AtMost, Floor0
    <3> QED BY <2>1, <3>6, <3>7, <3>8, Zenon
  <2> QED BY <2>2, <2>3, Zenon
<1>3. MemoryTypeOK'
  <2>1. taken' \in [Buckets -> Nat] /\ served' \in [Buckets -> Nat]
    BY <1>1, Zenon DEF MemoryTick
  <2> QED BY <2>1, Zenon DEF LimiterInv, MemoryTypeOK
<1>4. BucketExact'
  BY <1>2, Zenon DEF BucketExact, Capacity, Rate
<1>5. \A i \in Buckets : \/ bucket'[i] = None /\ taken'[i] = 0
                         \/ /\ bucket'[i] # None
                            /\ bucket'[i].last <= clock'
                            /\ bucket'[i].tokens <= Capacity(i)
  BY <1>1 DEF LimiterInv, MemoryTypeOK
<1> QED BY <1>1, <1>3, <1>4, <1>5, Zenon DEF LimiterInv, Capacity, Rate

\* The invariant is inductive.
LEMMA NextInv == LimiterInv /\ [MemoryNext]_mVars => LimiterInv'
<1> SUFFICES ASSUME LimiterInv, [MemoryNext]_mVars PROVE LimiterInv' BY Zenon
<1>1. CASE MemoryNext
  BY <1>1, CheckInv, TickInv, Zenon DEF MemoryNext
<1>2. CASE UNCHANGED mVars
  BY <1>2 DEF mVars, LimiterInv, MemoryTypeOK, BucketExact, refilled, Current, Capacity, Rate
<1> QED BY <1>1, <1>2, Zenon

----------------------------------------------------------------------------
(* MemoryLimiter: theorems *)

\* Every reachable state satisfies the inductive invariant.
THEOREM Invariance == MemorySpec => []LimiterInv
BY InitInv, NextInv, PTL DEF MemorySpec

\* Lazy refilling is exact: at any moment a bucket that try_take would refill
\* holds its capacity less what was taken and not yet paid back by the rate.
THEOREM LazyRefillExact == MemorySpec => []BucketExact
<1>1. LimiterInv => BucketExact
  BY Zenon DEF LimiterInv
<1> QED BY <1>1, Invariance, PTL

\* The quota: in no window of time are more RPCs admitted for a tenant, or for
\* a user within it, than the burst and what the rate yields in that window.
THEOREM Quota == MemorySpec => []QuotaHeld
<1>1. ASSUME LimiterInv PROVE QuotaHeld
  <2>1. ASSUME NEW i \in Buckets PROVE served[i] <= Capacity(i)
    <3>1. /\ taken[i] \in Nat /\ served[i] \in Nat /\ served[i] <= taken[i]
          /\ refilled(i) = Capacity(i) - taken[i]
      BY <1>1, Zenon DEF LimiterInv, MemoryTypeOK, BucketExact
    <3>2. Capacity(i) \in Nat /\ refilled(i) \in 0 .. Capacity(i)
      BY <1>1, BucketType, RefilledType, Zenon
    <3> QED BY <3>1, <3>2
  <2> QED BY <2>1, Zenon DEF QuotaHeld
<1> QED BY <1>1, Invariance, PTL

----------------------------------------------------------------------------
(* RateLimiter: theorems *)

\* A gateway configured for the in-process limiter behaves as MemoryLimiter for
\* good, and so has its properties (build_rate_limiter).
THEOREM MemoryChosen == LimiterSpec /\ store = "Memory" => MemorySpec
<1>1. LimiterInit => MemoryInit
  BY Zenon DEF LimiterInit
<1>2. store = "Memory" /\ [LimiterNext]_lVars => [MemoryNext]_mVars /\ (store = "Memory")'
  BY DEF LimiterNext, lVars, mVars, memoryVars
<1> QED BY <1>1, <1>2, PTL DEF LimiterSpec, MemorySpec

\* One configured for the shared limiter behaves as RedisLimiter.
THEOREM RedisChosen == LimiterSpec /\ store = "Redis" => SharedSpec
<1>1. LimiterInit => SharedInit
  BY Zenon DEF LimiterInit
<1>2. store = "Redis" /\ [LimiterNext]_lVars => [SharedNext]_rVars /\ (store = "Redis")'
  BY DEF LimiterNext, lVars, rVars, sharedVars
<1> QED BY <1>1, <1>2, PTL DEF LimiterSpec, SharedSpec
=============================================================================
