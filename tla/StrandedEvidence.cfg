SPECIFICATION FairSpec
CONSTANTS
  Records = {1, 2}
  Unsupported = {}
  Conflicting = {}
  EventTime <- MCLateEventTime
  ObservedTime <- MCLateEventTime
  DeploymentOf <- MCDeploymentOf
  AllowedLateness = 1
  QuietPeriod = 1
  ReopenWindow = 1
  InvestigationWindow = 1
  InvestigationThreshold = 2
  ReinvestigationInterval = 1
  Limit = 2
  TTL = 2
  None = None
  Foreign = Foreign
  StartTime = 11
  MaxTime = 14
  MaxStalls = 0
  MaxCrashes = 0
PROPERTIES
  Processed
