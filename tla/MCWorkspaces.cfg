SPECIFICATION FairWorkspaces
CONSTANTS
  MaxJobs = 3
  MaxBuilds = 3
  NoThread = NoThread
  NumChains = 4
  Total = 4
INVARIANTS TypesOK RunningIsInControl MixIsWhole
PROPERTIES CancelHitsItsJob StatusIsCurrent ReportsArrive ControlsComeBack EditsHold
CHECK_DEADLOCK FALSE
