SPECIFICATION FairPanel
CONSTANTS
  None = None
  Replicas = {"r1", "r2"}
  Jobs = {"j1"}
  MaxManual = 1
  MaxRestarts = 1
INVARIANT
  LeasesExclude
PROPERTIES
  ClaimsResolve
  EnabledRuns
  EndReached
  JobKeepsRunning
  InventoryArrives
CHECK_DEADLOCK FALSE
