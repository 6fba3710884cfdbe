SPECIFICATION LogicSpec
CONSTANTS
  None = None
  MaxLen = 9
  Unknown = "B99"
  MaxStops = 4
  Nodes = {"Y", "B1", "P1A", "B3", "B99"}
  Instants = {0, 90}
  Configured = {{"B1"}, {"B1", "B3"}}
  Dwells = {0, 120}
  MaxServices = 3
  Vehicles = {1, 2}
  Starts = {0, 1, 2, 5}
INVARIANTS
  AcceptsExactlyTheTrack
  NoDeadEnd
  WalkedIsReachable
  ValidatedPayloadKeepsEveryNode
  ExpandersAgree
  GeneratedTripReadsBack
  BlockConflictsAreSharedOccupancy
  VehicleConflictsAreUndrivable
  LowBatteryIsTheLastLeg
  SilentDetectorShowsNoClash
  ModesDifferByLessThanABlock
CHECK_DEADLOCK FALSE
