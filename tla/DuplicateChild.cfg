\* A sleep and a child awaited together on Postgres (worker/execution.ts:82).
CONSTANTS
  sleep = sleep
  nap = nap
  child = child
  signal = signal
  Waits = {nap, child}
  Kind <- MCKindOfWaits
  Duration <- MCDurationOfWaits
  Postgres = TRUE
  StepLimit = 4
  Lease = 1
  MaxTime = 4
  MaxCrashes = 0
SPECIFICATION Spec
INVARIANT
  OneChildPerStep
CHECK_DEADLOCK FALSE
