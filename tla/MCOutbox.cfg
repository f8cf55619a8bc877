SPECIFICATION FairSpec
CONSTANTS
  Messages = {1, 2}
  Publishers = {p1, p2}
  Batch = 2
  ClaimTTL = 3
  PublishTimeout = 1
  BackoffMin = 1
  BackoffMax = 2
  MaxAttempts = 2
  Writers <- MCWriters
  Deployment <- MCDeployment
  Nobody = Nobody
  MaxFaults = 2
INVARIANTS
  TypeOK
  OneDeliveryAtATime
  BuriedAfterOffer
PROPERTIES
  DeliverySpec
  EventuallyPublished
