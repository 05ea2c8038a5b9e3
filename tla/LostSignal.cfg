\* A signal that is sent while the run is being parked (packages/engine/THREAT-MODEL.md:38).
CONSTANTS
  sleep = sleep
  nap = nap
  child = child
  signal = signal
  Waits = {signal}
  Kind <- MCKindOfWaits
  Duration <- MCDurationOfWaits
  Postgres = TRUE
  StepLimit = 4
  Lease = 1
  MaxTime = 4
  MaxCrashes = 0
SPECIFICATION Spec
INVARIANT
  SignalsWakeRuns
CHECK_DEADLOCK FALSE
