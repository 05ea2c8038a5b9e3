\* Four patches of two requests at a time, with or without If-Match, and a delete.
CONSTANTS
  h1 = h1
  h2 = h2
  Blocks <- MCBlocks
  NoHandle = NoHandle
  Handlers = {h1, h2}
  Patches <- MCPatches
  MaxPatches = 4
SPECIFICATION StoreSpec
SYMMETRY Symmetry
INVARIANTS
  StoredGraphIsSound
  GuardedPatchesKeepOthers
  OkGraphResolves
PROPERTIES
  DeletedStaysDeleted
CHECK_DEADLOCK FALSE
