SPECIFICATION Spec
CONSTANTS
  None = None
  Proc = {p1, p2}
  Vehicle = {1}
  Requests <- RenumberRequests
  MaxRequests = 3
  Now = 0
  InitialTraversal <- MCTraversal
SYMMETRY ProcSymmetry
INVARIANTS
  StoredPathsAreValid
