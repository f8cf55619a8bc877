CONSTANTS
  Investigations = {i1}
  Strategies = {minimal, defensive}
  Workers = {w1, w2}
  Requests = {q1, q2}
  QueueDepth = 1
  None = None
  MaxRuns = 2
  MaxFaults = 1
  MaxRepairs = 0
SYMMETRY Alike
SPECIFICATION Spec
INVARIANTS TypeOK NeverOverclaims OnePullRequest OneGeneration IndexedIsRecalled RunningHasOwner
CHECK_DEADLOCK FALSE
