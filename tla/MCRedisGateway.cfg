SPECIFICATION FairSpec
CONSTANTS
  r1 = r1
  r2 = r2
  b1 = b1
  b2 = b2
  k1 = k1
  o1 = o1
  ta = ta
  p1 = p1
  x1 = x1
  x2 = x2
  None = None
  ZeroKey = {}
  CloneOf <- NoClone
  DefaultPool = None
  Policy = "Reject"
  DynamicPool = {}
  Replica = {x1, x2}
  Placements <- SharedOrNot
  Rpc = {r1, r2}
  Key = {k1}
  Op = {o1}
  Kinds <- FaultKinds
  SessionTTL = 1
  OpTTL = 1
  MaxTicks = 1
  Faults = TRUE
  Backend = {b1, b2}
  Tenant = {ta}
  Pool = {p1}
  TenantOf <- OneTenant
  TenantPool <- OnePool
  PoolBackends <- AllBackends
INVARIANT ConnectionReleased
INVARIANT AffinityAcrossReplicas
INVARIANT BindingAudited
INVARIANT OpIndexTruthful
PROPERTY BindingNeverMoves
PROPERTY EveryRpcEnds
