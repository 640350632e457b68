-------------------------- MODULE HealthAwarePool --------------------------
(***************************************************************************)
(* Active health checking (crates/healthcheck) wrapped around a pool of    *)
(* BackendPool: probe rounds whose probes run in parallel while picks,     *)
(* membership changes and reports of failed forwards go on.                *)
(***************************************************************************)
EXTENDS BackendPool

CONSTANTS
  unhealthy_threshold,  \* HealthCheckConfig
  healthy_threshold,
  HealthCursorBits,     \* width of the wrapper's cursor (64 in the code)
  Marks,                \* whether failed forwards are reported (mark_unhealthy)
  MaxStreak             \* bound at which saturating_add stops (u32::MAX)

Status == [state : {"Healthy", "Unhealthy"}, streak : 0 .. MaxStreak]
Outcomes == {"pending", "ok", "fail", "lost"}

ASSUME HealthAssumption ==
  /\ unhealthy_threshold \in Nat \ {0}
  /\ healthy_threshold \in Nat \ {0}
  /\ MaxStreak \in Nat
  /\ unhealthy_threshold <= MaxStreak /\ healthy_threshold <= MaxStreak
  /\ HealthCursorBits \in Nat /\ 2 ^ HealthCursorBits \in Nat \ {0}
  /\ Marks \in BOOLEAN
  /\ None \notin Status /\ \A S \in SUBSET Address : None \notin [S -> Outcomes]

VARIABLES
  condition,  \* condition[a]: what the backend really is
  statuses,   \* statuses[a]: its BackendStatus, None when it has no entry
  round,      \* the probe round under way: address -> outcome; None between
  hcursor,    \* the wrapper's own cursor
  run         \* history: run[a].bad (good) is how many observations in a row
              \* were failures (successes) since a's entry was made

healthVars == <<statuses, round, run>>
hVars == <<bpVars, condition, healthVars, hcursor>>

HealthTypeOK ==
  /\ PoolTypeOK
  /\ condition \in [Address -> {"serving", "no_health", "wedged"}]
  /\ statuses \in [Address -> Status \cup {None}]
  /\ round = None \/ \E S \in SUBSET Address : round \in [S -> Outcomes]
  /\ hcursor \in 0 .. (2 ^ HealthCursorBits) - 1
  /\ run \in [Address -> [bad : 0 .. MaxStreak, good : 0 .. MaxStreak]]

fresh == [state |-> "Healthy", streak |-> 0]
NoRun == [bad |-> 0, good |-> 0]

HealthInit ==
  /\ PoolInit
  /\ condition \in [Address -> {"serving", "no_health", "wedged"}]
  /\ statuses = [a \in Address |-> None]
  /\ round = None
  /\ hcursor = 0
  /\ run = [a \in Address |-> NoRun]

saturating_add(n) == IF n < MaxStreak THEN n + 1 ELSE MaxStreak

----------------------------------------------------------------------------
(* Probing *)

\* A backend wedges or recovers (external).
ConditionChange(a) ==
  /\ Mishap
  /\ \E c \in {"serving", "no_health", "wedged"} \ {condition[a]} :
       condition' = [condition EXCEPT ![a] = c]
  /\ UNCHANGED <<discovery, object, watching, events, poolVars, pickVars, healthVars, hcursor>>

\* probe_all reads the inner pool; with nothing to probe it clears the map.  An
\* address is taken to be listed once: the code probes one that is listed twice
\* twice, and counts both answers.
probe_start ==
  /\ round = None
  /\ IF backends = <<>>
     THEN /\ statuses' = [a \in Address |-> None]
          /\ run' = [a \in Address |-> NoRun]
          /\ UNCHANGED round
     ELSE /\ round' = [a \in Range(backends) |-> "pending"]
          /\ UNCHANGED <<statuses, run>>
  /\ UNCHANGED <<bpVars, condition, hcursor>>

\* A probe that times out fails, one whose task cannot be joined is lost.
Blip(a) == Mishap /\ \E o \in {"fail", "lost"} : round' = [round EXCEPT ![a] = o]

\* Mutant: a backend without a Health service counts as failed.
probe_one_strict(a) ==
  /\ round # None
  /\ a \in DOMAIN round
  /\ round[a] = "pending"
  /\ \/ /\ round' = [round EXCEPT ![a] = IF condition[a] = "serving" THEN "ok" ELSE "fail"]
        /\ UNCHANGED changes
     \/ Blip(a)
  /\ UNCHANGED <<discovery, object, watching, events, poolVars, pickVars, condition, statuses, run, hcursor>>

\* probe_one: a backend that serves, or that has no Health service, is well.
probe_one(a) ==
  /\ round # None
  /\ a \in DOMAIN round
  /\ round[a] = "pending"
  /\ \/ /\ round' = [round EXCEPT ![a] = IF condition[a] = "wedged" THEN "fail" ELSE "ok"]
        /\ UNCHANGED changes
     \/ Blip(a)
  /\ UNCHANGED <<discovery, object, watching, events, poolVars, pickVars, condition, statuses, run, hcursor>>

\* Mutant: a success does not reset the failure streak.
apply_probe_sticky(s, ok) ==
  CASE s.state = "Healthy" /\ ok -> s
    [] s.state = "Healthy" /\ ~ok ->
         IF saturating_add(s.streak) >= unhealthy_threshold
         THEN [state |-> "Unhealthy", streak |-> 0]
         ELSE [s EXCEPT !.streak = saturating_add(@)]
    [] s.state = "Unhealthy" /\ ok ->
         IF saturating_add(s.streak) >= healthy_threshold THEN fresh
         ELSE [s EXCEPT !.streak = saturating_add(@)]
    [] s.state = "Unhealthy" /\ ~ok -> [s EXCEPT !.streak = 0]

\* Mutant: the backend is evicted only when the streak hits the threshold.
apply_probe_exact(s, ok) ==
  CASE s.state = "Healthy" /\ ok -> [s EXCEPT !.streak = 0]
    [] s.state = "Healthy" /\ ~ok ->
         IF s.streak + 1 = unhealthy_threshold
         THEN [state |-> "Unhealthy", streak |-> 0]
         ELSE [s EXCEPT !.streak = saturating_add(@)]
    [] s.state = "Unhealthy" /\ ok ->
         IF saturating_add(s.streak) >= healthy_threshold THEN fresh
         ELSE [s EXCEPT !.streak = saturating_add(@)]
    [] s.state = "Unhealthy" /\ ~ok -> [s EXCEPT !.streak = 0]

\* The streak counts failures while Healthy, successes while Unhealthy.
apply_probe(s, ok) ==
  CASE s.state = "Healthy" /\ ok -> [s EXCEPT !.streak = 0]
    [] s.state = "Healthy" /\ ~ok ->
         IF saturating_add(s.streak) >= unhealthy_threshold
         THEN [state |-> "Unhealthy", streak |-> 0]
         ELSE [s EXCEPT !.streak = saturating_add(@)]
    [] s.state = "Unhealthy" /\ ok ->
         IF saturating_add(s.streak) >= healthy_threshold THEN fresh
         ELSE [s EXCEPT !.streak = saturating_add(@)]
    [] s.state = "Unhealthy" /\ ~ok -> [s EXCEPT !.streak = 0]

Observe(h, ok) ==
  IF ok THEN [bad |-> 0, good |-> saturating_add(h.good)]
        ELSE [bad |-> saturating_add(h.bad), good |-> 0]

\* All probes are in: under the write lock, entries of backends the round did
\* not cover are dropped and every outcome is applied.
probe_apply ==
  /\ round # None
  /\ \A a \in DOMAIN round : round[a] # "pending"
  /\ LET entry(a) == IF statuses[a] = None THEN fresh ELSE statuses[a]
     IN statuses' = [a \in Address |->
          CASE a \notin DOMAIN round -> None
            [] a \in DOMAIN round /\ round[a] = "lost" -> statuses[a]
            [] OTHER -> apply_probe(entry(a), round[a] = "ok")]
  /\ run' = [a \in Address |->
          CASE a \notin DOMAIN round -> NoRun
            [] a \in DOMAIN round /\ round[a] = "lost" -> run[a]
            [] OTHER -> Observe(run[a], round[a] = "ok")]
  /\ round' = None
  /\ UNCHANGED <<bpVars, condition, hcursor>>

\* A forward to a failed: the failure streak is primed, nothing is evicted.
mark_unhealthy(a) ==
  /\ Marks
  /\ statuses[a] # None
  /\ statuses[a].state = "Healthy"
  /\ statuses' = [statuses EXCEPT ![a].streak = saturating_add(@)]
  /\ run' = [run EXCEPT ![a] = Observe(@, FALSE)]
  /\ UNCHANGED <<bpVars, condition, round, hcursor>>

----------------------------------------------------------------------------
(* Pool *)

\* Mutant: a backend not probed yet is left out.
healthy_probed(a) == statuses[a] # None /\ statuses[a].state = "Healthy"

\* Not known to be unhealthy: a backend not probed yet is taken to be well.
healthy(a) == statuses[a] = None \/ statuses[a].state = "Healthy"

\* The healthy ones of the inner pool's backends.
healthy_snapshot ==
  LET out[i \in 0 .. Len(backends)] ==
        IF i = 0 THEN <<>>
        ELSE IF healthy(backends[i]) THEN Append(out[i - 1], backends[i]) ELSE out[i - 1]
  IN out[Len(backends)]

\* pick of the wrapper advances its own cursor; the backend drawn is the
\* cursor's element of the snapshot.
health_pick ==
  /\ healthy_snapshot # <<>>
  /\ hcursor' = (hcursor + 1) % (2 ^ HealthCursorBits)
  /\ UNCHANGED <<bpVars, condition, healthVars>>

Drawn == healthy_snapshot[(hcursor % Len(healthy_snapshot)) + 1]

----------------------------------------------------------------------------

HealthNext ==
  \/ Membership /\ UNCHANGED <<condition, healthVars, hcursor>>
  \/ probe_start
  \/ probe_apply
  \/ health_pick
  \/ \E a \in Address : ConditionChange(a) \/ probe_one(a) \/ mark_unhealthy(a)

HealthSpec == HealthInit /\ [][HealthNext]_hVars

----------------------------------------------------------------------------
(* Properties *)

Evicted(a) == statuses[a] # None /\ statuses[a].state = "Unhealthy"

FlipStep(a) ==
  /\ ~Evicted(a) /\ Evicted(a)' =>
       round[a] = "fail" /\ run'[a].bad >= unhealthy_threshold
  /\ Evicted(a) /\ statuses'[a] # None /\ ~Evicted(a)' =>
       run'[a].good >= healthy_threshold
  /\ round # None /\ round' = None /\ a \in DOMAIN round =>
       /\ round[a] = "ok" /\ run'[a].good >= healthy_threshold => ~Evicted(a)'
       /\ round[a] = "fail" /\ run'[a].bad >= unhealthy_threshold => Evicted(a)'

\* A backend is evicted only on a failed probe that completes a run of
\* unhealthy_threshold failures, reports of failed forwards included, with no
\* success between them; it is re-admitted only on a run of healthy_threshold
\* successful probes, or when it left the pool and its entry was dropped.  And
\* a probe round that completes such a run does evict or re-admit.
FlipsFollowStreaks == [][\A a \in Address : FlipStep(a)]_hVars

InPool(a) == a \in Range(backends)

\* A backend that stays in the pool and stays wedged is evicted for good,
\* however picks, reports and membership changes of others interleave.
WedgedIsEvicted ==
  \A a \in Address :
    <>[](InPool(a) /\ condition[a] = "wedged") =>
      <>[](a \notin Range(healthy_snapshot))

\* A backend that stays in the pool and stays sound, with or without a Health
\* service, gets traffic for good in the end.
SoundIsAdmitted ==
  \A a \in Address :
    <>[](InPool(a) /\ condition[a] # "wedged") =>
      <>[](a \in Range(healthy_snapshot))

\* Traffic keeps flowing as long as anything is up: with a backend in the pool
\* that is new, or that answered the last probes, pick() has a backend to give,
\* and never one that is evicted or no longer in the pool.
TrafficFlows ==
  (\E a \in Range(backends) : statuses[a] = None \/ run[a].good >= healthy_threshold) =>
    healthy_snapshot # <<>> /\ Drawn \in Range(backends) /\ ~Evicted(Drawn)

----------------------------------------------------------------------------
(* What makes FlipsFollowStreaks and TrafficFlows inductive *)

\* The streak of an entry is the run of observations that count against its
\* state; enough successes would have re-admitted the backend.
HealthInv ==
  /\ PoolInv
  /\ HealthTypeOK
  /\ \A a \in Address :
       /\ statuses[a] = None => run[a] = NoRun
       /\ statuses[a] # None =>
            statuses[a].streak = IF statuses[a].state = "Healthy" THEN run[a].bad ELSE run[a].good
       /\ Evicted(a) => statuses[a].streak < healthy_threshold
=============================================================================
