\* Two processes, two crashes anywhere.
CONSTANTS
  p1 = p1
  p2 = p2
  Processes = {p1, p2}
  MaxCrashes = 2
SPECIFICATION Spec
INVARIANTS
  SchemaFollowsVersions
  ConnectedFindsSchema
PROPERTY EverybodyConnects
CHECK_DEADLOCK FALSE
