SPECIFICATION Spec
CONSTANTS
  None = None
  Proc = {p1, p2}
  Vehicle = {1, 2}
  Requests <- ReassignRequests
  MaxRequests = 4
  Now = 0
  InitialTraversal <- MCTraversal
SYMMETRY ProcSymmetry
INVARIANTS
  NoVehicleOverlap
