SPECIFICATION Spec
CONSTANTS
  None = None
  Proc = {p1, p2}
  Vehicle = {1}
  Requests <- PlanningRequests
  MaxRequests = 2
  Now = 120
  InitialTraversal <- MCTraversal
SYMMETRY ProcSymmetry
PROPERTIES
  AdjustReachesLevel
