\* A signal that races the timeout of its wait (client/client.ts:182).
CONSTANTS
  sleep = sleep
  nap = nap
  child = child
  signal = signal
  Waits = {signal}
  Kind <- MCKindOfWaits
  Duration <- MCShortDuration
  Postgres = TRUE
  StepLimit = 4
  Lease = 1
  MaxTime = 4
  MaxCrashes = 0
SPECIFICATION Spec
INVARIANT
  ReportedSignalsAreReceived
CHECK_DEADLOCK FALSE
