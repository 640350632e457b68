SPECIFICATION FairProcessSpec
CONSTANTS
  None = None
  c1 = c1
  c2 = c2
  Call = {c1, c2}
  Yaml <- AllYaml
  Budget = 3
  Interval = 2
  Deadline <- Ticks
  Faults = {"redis", "idp", "k8s", "port"}
  MaxFlips = 1
INVARIANT BlockDefaultsAgree
INVARIANT DrainGraceful
PROPERTY RedisGetsItsBudget
PROPERTY StartupEnds
PROPERTY SigtermEnds
