SPECIFICATION Spec
CONSTANTS
  KeySizes <- KeySizesTyped
  DataSizes <- DataSizesTyped
INVARIANT EntrySurvives
CHECK_DEADLOCK FALSE
