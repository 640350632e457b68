----------------------------- MODULE TenantPool -----------------------------
(***************************************************************************)
(* The pool of a tenant as main of crates/gateway builds it: the pool of   *)
(* its discovery, wrapped in a HealthAwarePool when health_check.enabled   *)
(* says so (wrap_with_healthcheck), for the life of the process.           *)
(***************************************************************************)
EXTENDS HealthAwarePool

CONSTANT MaxWrappedChanges  \* bound: changes and mishaps of a wrapped pool

VARIABLE wrapped  \* health_check.enabled

checkVars == <<condition, healthVars, hcursor>>
tVars == <<wrapped, hVars>>

\* What a backend really is matters to a wrapped pool only.
TenantPoolInit ==
  /\ wrapped \in BOOLEAN
  /\ HealthInit
  /\ ~wrapped => condition = [a \in Address |-> "serving"]

Plain(action) == ~wrapped /\ action /\ UNCHANGED <<wrapped, checkVars>>
Checked(action) == wrapped /\ action /\ changes' <= MaxWrappedChanges /\ UNCHANGED wrapped

TenantPoolNext == Plain(PoolNext) \/ Checked(HealthNext)

TenantPoolSpec == TenantPoolInit /\ [][TenantPoolNext]_tVars

\* The watcher retries, its task and the observer's caller are scheduled; the
\* probe loop ticks forever and every probe ends by its timeout.
FairTenantPoolSpec ==
  /\ TenantPoolSpec
  /\ WF_tVars(Relist /\ UNCHANGED <<wrapped, checkVars>>)
  /\ WF_tVars(watcher_step /\ UNCHANGED <<wrapped, checkVars>>)
  /\ WF_tVars(observe /\ UNCHANGED <<wrapped, checkVars>>)
  /\ WF_tVars(Checked(probe_start)) /\ WF_tVars(Checked(probe_apply))
  /\ \A a \in Address : WF_tVars(Checked(probe_one(a)))
=============================================================================
