\* Two parallel steps, and a pass of the same slot after the one of another.
CONSTANTS
  a = a
  b = b
  c = c
  w1 = w1
  w2 = w2
  None = None
  Steps = {a, b, c}
  Slots = {w1, w2}
  Programs <- MCForkOnly
  StepLimit = 4
  MaxStepAttempts = 2
  MaxClaims <- MCThreeClaims
SYMMETRY SlotSymmetry
SPECIFICATION Spec
INVARIANT
  StableReplay
CHECK_DEADLOCK FALSE
