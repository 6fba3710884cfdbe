SPECIFICATION Spec
CONSTANTS
  None = None
  Proc = {p1, p2}
  Vehicle = {1}
  Requests <- RetimeRequests
  MaxRequests = 4
  Now = 120
  InitialTraversal <- MCTraversal
SYMMETRY ProcSymmetry
PROPERTIES
  BatteryRebuiltWithStops
