SPECIFICATION FairSpec
CONSTANTS
  Records = {1, 2, 3}
  Unsupported = {3}
  Conflicting = {2}
  EventTime <- MCEventTime
  ObservedTime <- MCEventTime
  DeploymentOf <- MCDeploymentOf
  AllowedLateness = 1
  QuietPeriod = 1
  ReopenWindow = 1
  InvestigationWindow = 1
  InvestigationThreshold = 2
  ReinvestigationInterval = 1
  Limit = 2
  TTL = 2
  None = None
  Foreign = Foreign
  StartTime = 6
  MaxTime = 10
  MaxStalls = 2
  MaxCrashes = 1
PROPERTIES
  Processed
