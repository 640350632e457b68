SPECIFICATION FairSpec
CONSTANTS
  r1 = r1
  r2 = r2
  None = None
  Failed = Failed
  Request = {r1, r2}
  Settings <- AllSettings
  Metadata <- MetadataOf
  Documents <- KeyDocuments
  Faults = TRUE
  MaxClock = 3
  MaxChanges = 2
INVARIANT SameCredentialSameCaller
INVARIANT RefreshSingleFlight
INVARIANT RotatedKeyAccepted
PROPERTY RefreshFloorHeld
PROPERTY EveryRequestEnds
