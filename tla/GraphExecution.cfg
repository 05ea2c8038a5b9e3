\* Graphs of four blocks on both executors; a process may die, a tool may throw.
CONSTANTS
  Blocks <- MCBlocks
  NoHandle = NoHandle
  Graphs <- MCGraphs
  Outputs <- MCOutputs
  MaxCrashes = 1
  MaxThrows = 1
SPECIFICATION Spec
INVARIANTS
  TypeOK
  RunsTheSelectedBlocks
  ReplayFollowsHistory
  ReferencesResolve
  OrderFollowsEdges
CHECK_DEADLOCK FALSE
