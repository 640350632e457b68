-------------------------- MODULE MCRedisGateway --------------------------
(***************************************************************************)
(* An instance of RedisGateway for TLC.                                    *)
(***************************************************************************)
EXTENDS RedisGateway, TLC

CONSTANTS r1, r2, b1, b2, k1, o1, ta, p1, x1, x2

\* The RPCs come through one replica, whose connection they contend for, or
\* through one each.
SharedOrNot == {[r \in Rpc |-> x1], [r \in Rpc |-> IF r = r2 THEN x2 ELSE x1]}

OneTenant == [k \in Key |-> ta]
OnePool == [t \in Tenant |-> p1]
AllBackends == [p \in Pool |-> Backend]
NoClone == [k \in Key |-> None]

\* An execution, and beside it a release of its operation or of its session.
FaultKinds ==
  [r \in Rpc |-> IF r = r1 THEN {"ExecutePlan"} ELSE {"ReleaseSession", "ReleaseAll"}]
=============================================================================
