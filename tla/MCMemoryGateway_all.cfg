SPECIFICATION Spec
CONSTANTS
  r1 = r1
  r2 = r2
  r3 = r3
  r4 = r4
  b1 = b1
  b2 = b2
  b3 = b3
  k1 = k1
  k2 = k2
  k3 = k3
  kz = kz
  o1 = o1
  ta = ta
  tb = tb
  tx = tx
  p1 = p1
  p2 = p2
  None = None
  Rpc = {r1, r2}
  Backend = {b1, b2, b3}
  Key = {k1, k2, k3, kz}
  Op = {o1}
  Tenant = {ta, tb, tx}
  Pool = {p1, p2}
  TenantOf <- ThreeTenants
  ZeroKey = {kz}
  CloneOf <- NoClone
  TenantPool <- TwoPools
  DefaultPool = None
  Policy = "Reject"
  PoolBackends <- SplitBackends
  DynamicPool = {p2}
  Kinds <- AllKinds
SYMMETRY SymRpc
INVARIANT TypeOK
INVARIANT TenantIsolation
INVARIANT FailureAuditedOnce
INVARIANT StreamGaugeExact
PROPERTY OpReachesDriver
