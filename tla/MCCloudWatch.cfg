SPECIFICATION FairSpec
CONSTANTS
  Events = {1, 2, 3}
  stream <- MCStream
  Unusable = {3}
  Refused = {}
  Groups <- MCGroups
  None = None
  Lookback = 1
  MaxLookback = 4
  InitialLookback = 3
  MaxWindow = 2
  PageLimit = 1
  MaxPages = 2
  MaxAttempts = 2
  MaxFaults = 1
INVARIANTS
  TypeOK
  NothingSkipped
PROPERTY EventuallyDelivered
