SPECIFICATION FairSpec
CONSTANTS
  Records = {2, 3}
  Unsupported = {3}
  Conflicting = {}
  EventTime <- MCEventTime
  ObservedTime <- MCEventTime
  DeploymentOf <- MCDeploymentOf
  AllowedLateness = 1
  QuietPeriod = 1
  ReopenWindow = 1
  InvestigationWindow = 1
  InvestigationThreshold = 2
  ReinvestigationInterval = 1
  Limit = 2
  TTL = 2
  None = None
  Foreign = Foreign
  StartTime = 6
  MaxTime = 10
  MaxStalls = 0
  MaxCrashes = 1
PROPERTIES
  Terminated
