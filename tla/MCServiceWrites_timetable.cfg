SPECIFICATION Spec
CONSTANTS
  None = None
  Proc = {p1, p2}
  Vehicle = {1}
  Requests <- TimetableRequests
  MaxRequests = 4
  Now = 120
  InitialTraversal <- MCTraversal
SYMMETRY ProcSymmetry
INVARIANTS
  NoVehicleConflict
PROPERTIES
  BatteryWrittenIsFresh
