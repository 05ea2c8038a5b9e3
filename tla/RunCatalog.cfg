\* Two creators with two connections, three rows, a millisecond of two units.
CONSTANTS
  c1 = c1
  c2 = c2
  k1 = k1
  noKey = noKey
  Creators = {c1, c2}
  Keys = {k1}
  NoKey = noKey
  Ids = {1, 2, 3}
  Connections = 2
  Precision = 2
  Period = 2
  Limit = 1
  MaxTime = 4
  MaxCrashes = 1
SPECIFICATION Spec
INVARIANTS
  OneRunPerKey
  ListingsAreComplete
PROPERTY EveryCreationEnds
CHECK_DEADLOCK FALSE
