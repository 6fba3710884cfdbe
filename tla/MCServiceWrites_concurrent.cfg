SPECIFICATION Spec
CONSTANTS
  None = None
  Proc = {p1, p2, p3}
  Vehicle = {1}
  Requests <- OneVehicleRequests
  MaxRequests = 4
  Now = 0
  InitialTraversal <- MCTraversal
SYMMETRY ProcSymmetry
INVARIANTS
  TypeOK
  NoVehicleOverlap
  LedgerMatchesTimetable
  StoredPathsAreValid
  ReferencesHold
PROPERTIES
  LockFreezesTimetable
