CONSTANTS
  Addresses <- TwoServers
  Digits <- PortDigits
  Nul = "nul"
  BufLen = 5
  Junk <- Clean
  NoAddress = NoAddress
  FaultSets <- Nothing
  MaxChanges = 2
SPECIFICATION Spec
CHECK_DEADLOCK FALSE
INVARIANT BufferHoldsAddress
