SPECIFICATION FairSpec
CONSTANTS
  None = None
  Proc = {p1, p2}
  Vehicle = {1, 2}
  Requests <- ContentionRequests
  MaxRequests = 4
  Now = 0
  InitialTraversal <- MCTraversal
PROPERTIES
  EveryRequestAnswered
  ImplementsTimeline
