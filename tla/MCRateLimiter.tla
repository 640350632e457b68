--------------------------- MODULE MCRateLimiter ---------------------------
(* A small instance of RateLimiter.                                         *)
EXTENDS RateLimiter, TLC

CONSTANTS r1, r2, r3, ta, tb, tc, u1, u2

SymRpc == Permutations(Rpc)

\* One tenant with a token per tick and users limited to half a token per tick,
\* one with the per-user limit only, one with neither.
Mixed == [t \in Tenant |->
  [tenant   |-> IF t = ta THEN [rate |-> 2, burst |-> 1] ELSE [rate |-> 0, burst |-> 1],
   per_user |-> CASE t = ta -> [rate |-> 1, burst |-> 1]
                  [] t = tb -> [rate |-> 3, burst |-> 1]
                  [] t = tc -> [rate |-> 2, burst |-> 0]]]

SomeCallers == {<<ta, u1>>, <<tb, u1>>, <<tc, u1>>}
=============================================================================
