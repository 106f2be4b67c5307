SPECIFICATION TransferSpec
CONSTANTS
  None = None
  Servers = {s1, s2}
  Nodes = {"n1", "n2"}
  Ports = {1, 2}
  Procs = {p1}
  Movers = {m1, m2}
  MaxFaults = 1
  MaxCrashes = 0
  NotifyMayFail = FALSE
  SerialTransfers = TRUE
  Routes <- BothWays
  Ops = {}
SYMMETRY SlotSymmetry
INVARIANTS
  ServerKept
  AttachmentsKept
  DatabasesFollow
PROPERTY
  RollbackRestoresServer
CHECK_DEADLOCK FALSE
