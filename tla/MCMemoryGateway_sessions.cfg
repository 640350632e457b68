SPECIFICATION Spec
CONSTANTS
  r1 = r1
  r2 = r2
  r3 = r3
  r4 = r4
  b1 = b1
  b2 = b2
  b3 = b3
  k1 = k1
  k2 = k2
  k3 = k3
  kz = kz
  o1 = o1
  ta = ta
  tb = tb
  tx = tx
  p1 = p1
  p2 = p2
  None = None
  Rpc = {r1, r2, r3, r4}
  Key = {k1}
  Op = {}
  CloneOf <- NoClone
  Kinds <- SessionKinds
  Backend = {b1, b2}
  Tenant = {ta}
  Pool = {p1}
  TenantOf <- OneTenant
  ZeroKey = {}
  TenantPool <- OnePool
  DefaultPool = None
  Policy = "Reject"
  PoolBackends <- AllBackends
  DynamicPool = {}
SYMMETRY SymRpc
INVARIANT OneBackendPerEpoch
INVARIANT SessionOnOneDriver
PROPERTY BindingEndsByRelease
PROPERTY StickyRoutingImplemented
