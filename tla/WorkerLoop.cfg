\* Two slots, stop and restart, and a database that may refuse a claim.
CONSTANTS
  r1 = r1
  r2 = r2
  r3 = r3
  Concurrency = 2
  Runs = {r1, r2, r3}
  Registered = {r1, r2}
  MaxRejections = 1
  MaxStops = 2
SPECIFICATION FairSpec
INVARIANTS
  OneExecutionPerSlot
  StopWaitsUnlessRefused
PROPERTIES
  DueRunsAreClaimed
  StopsInTheEnd
CHECK_DEADLOCK FALSE
