\* A child and a signal awaited together on Postgres; one crash, short timeouts.
CONSTANTS
  sleep = sleep
  nap = nap
  child = child
  signal = signal
  Waits = {child, signal}
  Kind <- MCKindOfWaits
  Duration <- MCShortTimeouts
  Postgres = TRUE
  StepLimit = 2
  Lease = 1
  MaxTime = 3
  MaxCrashes = 1
SPECIFICATION Spec
INVARIANT
  ChildrenWakeParents
CHECK_DEADLOCK FALSE
