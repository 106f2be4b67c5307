SPECIFICATION TransferSpec
CONSTANTS
  None = None
  Servers = {s1}
  Nodes = {"n1", "n2"}
  Ports = {1}
  Procs = {p1}
  Movers = {m1, m2}
  MaxFaults = 1
  MaxCrashes = 1
  NotifyMayFail = FALSE
  SerialTransfers = FALSE
  Routes <- OneWay
  Ops = {"registryRemove", "changeEgg"}
SYMMETRY JobSymmetry
INVARIANTS
  NothingLeftBehind
  TransfersSound
CHECK_DEADLOCK FALSE
