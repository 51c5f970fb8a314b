SPECIFICATION Spec
CONSTANTS
  KeySizes <- KeySizesTyped
  DataSizes <- DataSizesTyped
INVARIANTS ShortEntrySurvives ShortValueComesBack ReadsInside
CHECK_DEADLOCK FALSE
