-------------------------- MODULE MCMemoryGateway --------------------------
(***************************************************************************)
(* Instances of MemoryGateway for TLC.                                     *)
(***************************************************************************)
EXTENDS MemoryGateway, TLC

CONSTANTS r1, r2, r3, r4, b1, b2, b3, k1, k2, k3, kz, o1, ta, tb, tx, p1, p2

SymRpc == Permutations(Rpc \ {r4})

\* One tenant, one pool.
OneTenant == [k \in Key |-> ta]
OnePool == [t \in Tenant |-> p1]
AllBackends == [p \in Pool |-> Backend]
NoClone == [k \in Key |-> None]
CloneToSecond == [k \in Key |-> IF k = k1 THEN k2 ELSE None]

\* Two tenants with pools of their own and one that no pool is configured for.
ThreeTenants == [k \in Key |-> CASE k \in {k1, kz} -> ta [] k = k2 -> tb [] k = k3 -> tx]
TwoPools == [t \in Tenant |-> CASE t = ta -> p1 [] t = tb -> p2 [] t = tx -> None]
SplitBackends == [p \in Pool |-> IF p = p1 THEN {b1, b2} ELSE {b3}]

\* Three calls that use or release a session, and one that is routed by it
\* without being audited as its creator.
SessionKinds ==
  [r \in Rpc |-> IF r = r4 THEN {"Interrupt"} ELSE {"Config", "ReleaseSession"}]
CloneKinds == [r \in Rpc |-> {"CloneSession", "Config"}]
AllKinds == [r \in Rpc |-> RpcKind]
=============================================================================
