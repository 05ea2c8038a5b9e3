\* A claim is refused while another is in flight (worker/worker.ts:81).
CONSTANTS
  r1 = r1
  r2 = r2
  r3 = r3
  Concurrency = 2
  Runs = {r1, r2}
  Registered = {r1, r2}
  MaxRejections = 1
  MaxStops = 1
SPECIFICATION Spec
INVARIANT
  StopWaits
CHECK_DEADLOCK FALSE
