SPECIFICATION Spec
CONSTANTS
  None = None
  Servers = {s1}
  Nodes = {n1}
  Ports = {1}
  Procs = {p1, p2}
  MaxFaults = 0
  MaxCrashes = 0
  NotifyMayFail = FALSE
  Ops = {"registryCreate", "freeze", "unfreeze", "observe"}
PROPERTY
  TelemetryKeepsFrozen
