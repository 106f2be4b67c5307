SPECIFICATION TransferSpec
CONSTANTS
  None = None
  Servers = {s1}
  Nodes = {"n1", "n2"}
  Ports = {1}
  Procs = {p1}
  Movers = {m1, m2}
  MaxFaults = 0
  MaxCrashes = 0
  NotifyMayFail = FALSE
  SerialTransfers = FALSE
  Routes <- OneWay
  Ops = {}
PROPERTY
  RollbackRestoresServer
CHECK_DEADLOCK FALSE
