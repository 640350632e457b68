SPECIFICATION LimiterSpec
CONSTANTS
  r1 = r1
  r2 = r2
  r3 = r3
  ta = ta
  tb = tb
  tc = tc
  u1 = u1
  u2 = u2
  None = None
  Rpc = {r1, r2, r3}
  Tenant = {ta, tb, tc}
  User = {u1, u2}
  Callers <- SomeCallers
  Limits <- Mixed
  Unit = 2
  KeyTTL = 2
  ScriptFaults = TRUE
  MaxClock = 2
  MaxTicks = 4
SYMMETRY SymRpc
INVARIANT BucketExact
INVARIANT QuotaHeld
INVARIANT SharedQuotaHeld
INVARIANT AdmittedPaid
