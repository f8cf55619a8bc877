SPECIFICATION Spec
CONSTANTS
  Records = {1, 2}
  Unsupported = {}
  Conflicting = {}
  EventTime <- MCEventTime
  ObservedTime <- MCEventTime
  DeploymentOf <- MCDeploymentOf
  AllowedLateness = 1
  QuietPeriod = 1
  ReopenWindow = 2
  InvestigationWindow = 2
  InvestigationThreshold = 2
  ReinvestigationInterval = 2
  Limit = 2
  TTL = 2
  None = None
  Foreign = Foreign
  StartTime = 10
  MaxTime = 16
  MaxStalls = 0
  MaxCrashes = 1
INVARIANTS
  EpisodesDistinct
