\* A workflow that asks for Infinity attempts (CHANGELOG.md:38).
CONSTANTS
  r1 = r1
  r2 = r2
  w1 = w1
  w2 = w2
  w3 = w3
  None = None
  Infinity = Infinity
  Runs = {r1, r2}
  Slots = {w1, w2}
  Lease = 2
  RetryPolicy <- MCInfinitePolicy
  MissingDefinitionPolicy <- MCMissingDefinitionPolicy
  Registered <- MCRegistered
  StartDelays = {0}
  Deadlines <- MCDeadlines
  ParkDelays = {1}
  StepDelays = {1}
  MaxClaims = 2
  MaxLapses = 1
  MaxCrashes = 1
SPECIFICATION Spec
INVARIANT
  UnboundedRetries
CHECK_DEADLOCK FALSE
