SPECIFICATION FairSpec
CONSTANTS
  Investigations = {i1, i2}
  Workers = {w1, w2}
  VisibilityTimeout = 1
  RunTimeout = 2
  MaxAttempts = 3
  StaleSlack = 1
  Capacity = 1
  MaxIterations = 1
  Tools <- ServerTools
  Late = {i1}
  Nobody = Nobody
  MaxFaults = 1
INVARIANTS
  TypeOK
  PaymentsBounded
  RunsTwicePerFault
  DroppedOnlyWhenEnded
PROPERTY EventuallyAcknowledged
