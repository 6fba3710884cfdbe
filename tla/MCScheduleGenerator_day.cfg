SPECIFICATION GenSpec
CONSTANTS
  None = None
  Proc = {p1}
  Vehicle = {1, 2}
  Requests <- DayRequests
  Generations <- DaySchedules
  MaxRequests = 5
  Now = 0
  InitialTraversal <- MCTraversal
INVARIANTS
  LedgerMatchesTimetable
  NoInternalError
  StoredPathsAreValid
  ShownLevelIsLedgerLevel
PROPERTIES
  GeneratedDayIsConflictFree
  PassengersWaitAtMostTheInterval
  StoredBatteryIsLedgerLevel
  ChargeIsCapped
  EveryScheduleEnds
