SPECIFICATION ReadSpec
CONSTANTS
  None = None
  Proc = {p1}
  Vehicle = {1, 2}
  Requests <- WritesMeanwhile
  MaxRequests = 3
  Now = 0
  InitialTraversal <- MCTraversal
  Queries <- MCQueries
  At = 60
INVARIANTS
  SessionUsedByOne
  NoReaderSeesAnOverlap
  ScheduleInRunningOrder
PROPERTIES
  EveryFieldAnswered
