CONSTANTS
  k1 = k1
  v1 = v1
  Keys = {k1}
  Values = {v1, NoData}
  NoData = NoData
  Absent = Absent
  Freed = Freed
  Conns = {c1, c2}
  Asks <- OfBothLocks
  MaxRequests = 2
  MaxFds = 2
SPECIFICATION ProcessSpec
CHECK_DEADLOCK FALSE
INVARIANTS
  OwnConnection
  NoWaiterLeftBehind
  NoAnswerFromFreedTable
PROPERTY RequestsComeToAnEnd
