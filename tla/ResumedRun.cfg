\* A run of the in-memory executor that is resumed after a branch was skipped.
CONSTANTS
  Blocks <- MCBlocks
  NoHandle = NoHandle
  Graphs <- MCGraphs
  Outputs <- MCOutputs
  MaxCrashes = 0
  MaxThrows = 0
SPECIFICATION Spec
INVARIANT SameOutputs
CHECK_DEADLOCK FALSE
