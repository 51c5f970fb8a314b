CONSTANTS
  k1 = k1
  k2 = k2
  k3 = k3
  k4 = k4
  Keys = {k1, k2, k3, k4}
  Values = {v1, NoData}
  NoData = NoData
  Absent = Absent
  N = 2
  ByteSum <- Sums
  Cells = {c1, c2, c3, c4}
  NoCell = NoCell
SPECIFICATION Spec
SYMMETRY CellSymmetry
CHECK_DEADLOCK FALSE
PROPERTY AckedPutIsFound
