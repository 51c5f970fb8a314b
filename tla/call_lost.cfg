SPECIFICATION Spec
CONSTANTS
  Ops <- Puts
  MaxCalls = 2
INVARIANT DoneMeansExecuted
CHECK_DEADLOCK FALSE
