\* A nap, a child and a signal awaited together on SQLite; one crash.
CONSTANTS
  sleep = sleep
  nap = nap
  child = child
  signal = signal
  Waits = {nap, child, signal}
  Kind <- MCKindOfWaits
  Duration <- MCRestartingSleep
  Postgres = FALSE
  StepLimit = 4
  Lease = 1
  MaxTime = 2
  MaxCrashes = 1
SPECIFICATION FairSpec
INVARIANTS
  SleepsSurviveWakeUps
  OneChildPerStep
  ParksOnEarliestWait
  SignalsWakeRuns
PROPERTY
  ResultsAreTakenUp
CHECK_DEADLOCK FALSE
