\* Liveness: two runs, three slots; one slot lacks the workflows, one may die.
CONSTANTS
  r1 = r1
  r2 = r2
  w1 = w1
  w2 = w2
  w3 = w3
  None = None
  Infinity = Infinity
  Runs = {r1, r2}
  Slots = {w1, w2, w3}
  Lease = 2
  RetryPolicy <- MCRetryPolicy
  MissingDefinitionPolicy <- MCMissingDefinitionPolicy
  Registered <- MCTwoRegistered
  StartDelays = {0}
  Deadlines = {None}
  ParkDelays = {1}
  StepDelays = {}
  MaxClaims = 2
  MaxLapses = 1
  MaxCrashes = 1
SPECIFICATION FairSpec
PROPERTIES
  RunsEnd
CHECK_DEADLOCK FALSE
