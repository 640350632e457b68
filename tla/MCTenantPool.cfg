SPECIFICATION FairTenantPoolSpec
CONSTANTS
  a1 = a1
  a2 = a2
  None = None
  Address = {a1, a2}
  Discoveries = {"static", "k8s"}
  Addresses <- BothAddresses
  Objects <- SmallObjects
  MaxChanges = 4
  MaxWrappedChanges = 2
  CursorBits = 3
  HealthCursorBits = 1
  unhealthy_threshold = 2
  healthy_threshold = 2
  Marks = TRUE
  MaxStreak = 2
INVARIANT PoolReflectsObject
INVARIANT RoundRobinEven
INVARIANT TrafficFlows
PROPERTY EventuallyReflects
PROPERTY FlipsFollowStreaks
PROPERTY WedgedIsEvicted
PROPERTY SoundIsAdmitted
