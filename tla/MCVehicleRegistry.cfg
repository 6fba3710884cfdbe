SPECIFICATION RegistrySpec
CONSTANTS
  None = None
  Proc = {p1, p2}
  Name = {a, b}
  Level <- MCLevel
  MaxRequests = 3
  MaxStarts = 2
  Now = 0
SYMMETRY RegistrySymmetry
INVARIANTS
  NamesAreUnique
  OneBaselinePerVehicle
PROPERTIES
  NameConflictIsAnswered409
  MigrationsKeepLevels
  StartKeepsTraversalTimes
CHECK_DEADLOCK FALSE
