SPECIFICATION GenSpec
CONSTANTS
  None = None
  Proc = {p1, p2}
  Vehicle = {1, 2}
  Requests <- TripByHand
  Generations <- OneTrip
  MaxRequests = 2
  Now = 0
  InitialTraversal <- MCTraversal
SYMMETRY ProcSymmetry
PROPERTIES
  GeneratedDayIsConflictFree
