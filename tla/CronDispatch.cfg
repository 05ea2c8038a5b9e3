\* A loop, and a request of any minute; s1 is due every minute, s2 in one of three.
CONSTANTS
  s1 = s1
  s2 = s2
  loop = loop
  req = req
  Schedules = {s1, s2}
  Due <- DueOf
  Loops = {loop}
  Requests = {req}
  Interval = 1
  KeyLife = 1
  MaxTime = 2
  MaxFaults = 1
  MaxDeleted = 1
  MaxTicks = 1
SPECIFICATION Spec
INVARIANTS
  OneRunPerCutoff
  TicksFireWhatIsDue
PROPERTY ClaimsOnce
CHECK_DEADLOCK FALSE
