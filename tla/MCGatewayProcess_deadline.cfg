SPECIFICATION ScheduledSpec
CONSTANTS
  None = None
  c1 = c1
  c2 = c2
  Call = {c1, c2}
  Yaml <- StopYaml
  Budget = 3
  Interval = 2
  Deadline <- Ticks
  Faults = {}
  MaxFlips = 0
PROPERTY DeadlineIsHard
