\* A loop whose minute has two units of time, so that a tick may take half a minute.
CONSTANTS
  s1 = s1
  s2 = s2
  loop = loop
  req = req
  Schedules = {s1}
  Due <- DueOf
  Loops = {loop}
  Requests = {}
  Interval = 2
  KeyLife = 10
  MaxTime = 8
  MaxFaults = 0
  MaxDeleted = 0
  MaxTicks = 0
SPECIFICATION Spec
INVARIANT ShortTicksMissNoMinute
CHECK_DEADLOCK FALSE
