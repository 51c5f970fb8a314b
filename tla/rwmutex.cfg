CONSTANTS
  Threads = {t1, t2, t3, t4}
  NoThread = NoThread
SPECIFICATION Spec
INVARIANTS
  TypeOK
  Exclusion
  CountersExact
  NoLostWakeup
PROPERTIES
  PendingCallsEnd
  ImplementsRWLock
