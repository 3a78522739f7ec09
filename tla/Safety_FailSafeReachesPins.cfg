SPECIFICATION Spec
CONSTANTS
  Inputs <- MCFewInputs
  MaxPending = 1
  MaxRestarts = 1
INVARIANT FailSafeReachesPins
