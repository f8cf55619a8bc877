\* Two records, three batches over the same ids, two conflicting
\* identities (priorities) for each record.
SPECIFICATION Spec
CONSTANTS
  Records = {r1, r2}
  Batches = {b1, b2, b3}
  Semantics = {s1}
  Priorities = {0, 1}
  Owners = {w1}
  None = None
  Legacy = Legacy
  ClaimTTL = 1
  SafetyDelay = 1
  MaxBatchRefs = 2
  MaxTransitionRecords = 2
  MaxBytes = 24
  EnvelopeCost = 2
  IndexCost = 1
  OwnerCost = 1
  TokenCost = 1
  ReserveCost = 3
  TombstoneCost = 1
  BatchCost = 1
  MemberCost = 1
  LiveCost = 1
  MaxTime = 3
SYMMETRY Symmetry
INVARIANTS
  TypeOK
  IndexesAgree
  BatchesAgree
  CountersAgree
  AcknowledgedKept
  WithinCapacity
PROPERTIES
  CommittedKept
  NoResurrection
  QueueSpec
