SPECIFICATION Spec
CONSTANTS
  Sizes <- MCSizes
  HeadLen = 2
  MaxMessages = 3
INVARIANTS
  TypeOK
  ReceivedIsSent
  BufferNotOverrun
PROPERTY ImplementsChannel
CHECK_DEADLOCK FALSE
