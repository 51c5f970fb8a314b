CONSTANTS
  k1 = k1
  k2 = k2
  v1 = v1
  Keys = {k1, k2}
  Values = {v1, NoData}
  NoData = NoData
  Absent = Absent
  Freed = Freed
  Conns = {c1, c2}
  Asks <- EveryKind
  MaxRequests = 3
SPECIFICATION Spec
CHECK_DEADLOCK FALSE
SYMMETRY ConnSymmetry
INVARIANTS
  TypeOK
  NoFreedRead
  SecondPassFits
  EveryOpCountedOnce
  StatsAnswerConsistent
  NoLockLeak
PROPERTIES
  UsesLocks
  ImplementsKVStore
