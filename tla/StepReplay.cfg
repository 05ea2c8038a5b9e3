\* Three steps, in sequence or the first two in parallel; two slots.
CONSTANTS
  a = a
  b = b
  c = c
  w1 = w1
  w2 = w2
  None = None
  Steps = {a, b, c}
  Slots = {w1, w2}
  Programs <- MCPrograms
  StepLimit = 4
  MaxStepAttempts = 2
  MaxClaims <- MCMaxClaims
SYMMETRY SlotSymmetry
SPECIFICATION Spec
INVARIANTS
  StableReplayUnlessReclaimed
  StepsInOrder
  FailuresWithinPolicy
  FailsForAReason
PROPERTY
  AttemptsOfEndedRunsStay
CHECK_DEADLOCK FALSE
